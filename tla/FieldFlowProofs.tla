-------------------------- MODULE FieldFlowProofs --------------------------
(***************************************************************************)
(* That what the planner promises of a step's rows is what they have, and  *)
(* that what it settles of a write's values stays so (FieldFlow), for every*)
(* pipeline, in whatever order its steps are listed, for all schemas, and  *)
(* for all answers of the model.                                           *)
(***************************************************************************)
EXTENDS FieldFlow, WellFoundedInduction, FiniteSetTheorems, TLAPS

-----------------------------------------------------------------------------
(* Induction: a set of natural numbers has a least one.                    *)

\* The order of the numbers is well founded; what holds of no least
\* counterexample holds of all (the form of induction used below for the
\* stages of a transform).
LEMMA LeastNat ==
    ASSUME NEW T, T \subseteq Nat, T # {}
    PROVE  \E x \in T : \A y \in T : x <= y
<1>1. IsWellFoundedOn(OpToRel(<, Nat), Nat)
  BY NatLessThanWellFounded
<1>2. PICK R : R = OpToRel(<, Nat)
  OBVIOUS
<1>3. PICK x \in T : \A y \in T : ~(<<y, x>> \in R)
  BY <1>1, <1>2, WFMin, Zenon
<1>4. ASSUME NEW y \in T PROVE x <= y
  <2>1. x \in Nat /\ y \in Nat
    OBVIOUS
  <2>2. y < x => <<y, x>> \in R
    BY <1>2, <2>1 DEF OpToRel
  <2>3. ~(y < x)
    BY <1>3, <2>2
  <2> QED  BY <2>1, <2>3
<1> QED  BY <1>4

-----------------------------------------------------------------------------
(* The stages of a transform.                                              *)

\* The rows after an operation.
Applied(op, S) == {Apply(op, r) : r \in S}

\* f gives the rows before each of the first n operations.
IsStages(f, ops, in, n) ==
    f = [i \in 1..(n + 1) |-> IF i = 1 THEN in ELSE Applied(ops[i - 1], f[i - 1])]

\* The recursive definition of Stages has a solution.
LEMMA StagesExist ==
    ASSUME NEW ops, NEW in, NEW n \in Nat
    PROVE  \E f : IsStages(f, ops, in, n)
<1> DEFINE T == {m \in Nat : ~ \E f : IsStages(f, ops, in, m)}
<1>1. SUFFICES ASSUME T # {} PROVE FALSE
  OBVIOUS
<1>2. PICK m \in T : \A y \in T : m <= y
  BY <1>1, LeastNat
<1>3. CASE m = 0
  <2> DEFINE g == [i \in 1..1 |-> in]
  <2>1. \A i \in 1..(0 + 1) : i = 1
    OBVIOUS
  <2>2. g = [i \in 1..(0 + 1) |-> IF i = 1 THEN in ELSE Applied(ops[i - 1], g[i - 1])]
    BY <2>1
  <2> HIDE DEF g
  <2> QED  BY <1>2, <1>3, <2>2 DEF IsStages
<1>4. CASE m # 0
  <2>1. m - 1 \in Nat /\ m - 1 \notin T
    BY <1>2, <1>4
  <2>2. PICK g : IsStages(g, ops, in, m - 1)
    BY <2>1
  <2> DEFINE h == [i \in 1..(m + 1) |->
                     IF i = m + 1 THEN Applied(ops[m], g[m]) ELSE g[i]]
  <2>3. \A i \in 1..m : g[i] = IF i = 1 THEN in ELSE Applied(ops[i - 1], g[i - 1])
    <3>1. 1..((m - 1) + 1) = 1..m
      BY <2>1
    <3> QED  BY <2>2, <3>1 DEF IsStages
  <2>4. ASSUME NEW i \in 1..(m + 1)
        PROVE  h[i] = IF i = 1 THEN in ELSE Applied(ops[i - 1], h[i - 1])
    <3>1. CASE i = m + 1
      <4>1. h[i - 1] = g[m] /\ i - 1 = m /\ i # 1
        BY <1>2, <1>4, <3>1
      <4> QED  BY <3>1, <4>1
    <3>2. CASE i # m + 1
      <4>1. i \in 1..m /\ h[i] = g[i]
        BY <1>2, <3>2
      <4>2. i # 1 => h[i - 1] = g[i - 1]
        BY <1>2, <4>1
      <4> QED  BY <2>3, <4>1, <4>2
    <3> QED  BY <3>1, <3>2
  <2>5. h = [i \in 1..(m + 1) |-> IF i = 1 THEN in ELSE Applied(ops[i - 1], h[i - 1])]
    BY <2>4
  <2> HIDE DEF h
  <2>6. IsStages(h, ops, in, m)
    BY <2>5 DEF IsStages
  <2> QED  BY <1>2, <2>6
<1> QED  BY <1>3, <1>4

\* The equations of Stages.
LEMMA StagesAre ==
    ASSUME NEW ops, NEW in, Len(ops) \in Nat
    PROVE  /\ Stages(ops, in)[1] = in
           /\ \A i \in 1..Len(ops) :
                 Stages(ops, in)[i + 1] = Applied(ops[i], Stages(ops, in)[i])
<1> DEFINE f == Stages(ops, in)
<1>1. f = CHOOSE g : IsStages(g, ops, in, Len(ops))
  BY DEF Stages, IsStages, Applied
<1>2. IsStages(f, ops, in, Len(ops))
  BY <1>1, StagesExist
<1> HIDE DEF f
<1>3. \A i \in 1..(Len(ops) + 1) :
         f[i] = IF i = 1 THEN in ELSE Applied(ops[i - 1], f[i - 1])
  BY <1>2 DEF IsStages
<1>4. f[1] = in
  <2>1. 1 \in 1..(Len(ops) + 1)
    OBVIOUS
  <2> QED  BY <1>3, <2>1
<1>5. ASSUME NEW i \in 1..Len(ops) PROVE f[i + 1] = Applied(ops[i], f[i])
  <2>1. i + 1 \in 1..(Len(ops) + 1) /\ i + 1 # 1 /\ (i + 1) - 1 = i
    OBVIOUS
  <2> QED  BY <1>3, <2>1
<1> QED  BY <1>4, <1>5 DEF f


\* The operations that take fields away.
Drops(op) == op.kind \in {"removeField", "renameField"}

\* Any other operation keeps the fields of the row.
LEMMA ApplyKeeps ==
    ASSUME NEW op, NEW r, ~Drops(op)
    PROVE  /\ r \subseteq Apply(op, r)
           /\ op.kind = "addField" => op.name \in Apply(op, r)
BY DEF Drops, Apply

\* The row has F and what the first k operations add.
Has(r, F, ops, k) ==
    /\ F \subseteq r
    /\ \A j \in 1..k : ops[j].kind = "addField" => ops[j].name \in r

\* Without such operations, the rows at every stage have the fields that all
\* rows had at first, and those that were added.
LEMMA StagesKeep ==
    ASSUME NEW ops, NEW in, NEW F, Len(ops) \in Nat,
           \A i \in 1..Len(ops) : ~Drops(ops[i]),
           \A r \in in : F \subseteq r
    PROVE  \A k \in 0..Len(ops) : \A r \in Stages(ops, in)[k + 1] : Has(r, F, ops, k)
<1> DEFINE f == Stages(ops, in)
           Good(k) == \A r \in f[k + 1] : Has(r, F, ops, k)
           T == {k \in 0..Len(ops) : ~Good(k)}
<1>1. f[1] = in
  BY StagesAre
<1>2. \A i \in 1..Len(ops) : f[i + 1] = Applied(ops[i], f[i])
  BY StagesAre
<1> HIDE DEF f
<1>3. SUFFICES ASSUME T # {} PROVE FALSE
  BY DEF f
<1>4. T \subseteq Nat
  OBVIOUS
<1>5. PICK k \in T : \A y \in T : k <= y
  BY <1>3, <1>4, LeastNat
<1>6. k \in 0..Len(ops) /\ ~Good(k)
  BY <1>5
<1>7. CASE k = 0
  <2>1. f[k + 1] = in
    BY <1>1, <1>7
  <2>2. 1..k = {}
    BY <1>7
  <2>3. Good(k)
    BY <2>1, <2>2 DEF Has
  <2> QED  BY <1>6, <2>3
<1>8. CASE k # 0
  <2>1. k \in 1..Len(ops) /\ k - 1 \in 0..Len(ops) /\ (k - 1) + 1 = k /\ ~(k <= k - 1)
    BY <1>6, <1>8
  <2>2. k - 1 \notin T
    BY <1>5, <2>1
  <2>3. \A r \in f[k] : Has(r, F, ops, k - 1)
    BY <2>1, <2>2
  <2>4. f[k + 1] = Applied(ops[k], f[k])
    BY <1>2, <2>1
  <2>5. ASSUME NEW r \in f[k + 1] PROVE Has(r, F, ops, k)
    <3>1. PICK q \in f[k] : r = Apply(ops[k], q)
      BY <2>4 DEF Applied
    <3>2. Has(q, F, ops, k - 1)
      BY <2>3
    <3>3. q \subseteq r /\ (ops[k].kind = "addField" => ops[k].name \in r)
      BY <2>1, <3>1, ApplyKeeps
    <3>4. F \subseteq r
      BY <3>2, <3>3 DEF Has
    <3>5. ASSUME NEW j \in 1..k, ops[j].kind = "addField" PROVE ops[j].name \in r
      <4>1. j = k \/ j \in 1..(k - 1)
        BY <1>6
      <4>2. CASE j \in 1..(k - 1)
        BY <3>2, <3>3, <3>5, <4>2 DEF Has
      <4> QED  BY <3>3, <3>5, <4>1, <4>2
    <3> QED  BY <3>4, <3>5 DEF Has
  <2> QED  BY <1>6, <2>5
<1> QED  BY <1>7, <1>8

-----------------------------------------------------------------------------
(* The rows a step is given.                                               *)

\* When no input is missing, a row that a step is given holds a row of every
\* input.
LEMMA InputsCover ==
    ASSUME NEW s \in Steps, NEW own, NEW in \in Inputs(s), NEW r \in in,
           IsFiniteSet(Deps(s)), ~Lossy(s, own), NEW e \in Deps(s)
    PROVE  \E q \in rows[e] : q \subseteq r
<1>1. CASE Cardinality(Deps(s)) = 1
  <2>1. Deps(s) = {e}
    BY <1>1, FS_Singleton
  <2>2. in = rows[e]
    BY <1>1, <2>1 DEF Inputs
  <2> QED  BY <2>2
<1>2. CASE Cardinality(Deps(s)) # 1
  <2>1. PICK n \in Nat : n = Cardinality(Deps(s))
    BY FS_CardinalityType
  <2>2. n # 0 /\ n # 1
    BY <1>2, <2>1, FS_EmptySet
  <2>3. Cardinality(Deps(s)) > 1
    BY <2>1, <2>2
  <2>4. \A d \in Deps(s) : rows[d] # {}
    BY <2>3 DEF Lossy
  <2>5. {d \in Deps(s) : rows[d] # {}} = Deps(s)
    BY <2>4
  <2>6. PICK f : /\ r = UNION {f[d] : d \in Deps(s)}
                 /\ \A d \in Deps(s) : f[d] \in rows[d]
    <3>1. \E f \in {g \in [Deps(s) -> UNION {rows[d] : d \in Deps(s)}] :
                       \A d \in Deps(s) : g[d] \in rows[d]} :
             in = {UNION {f[d] : d \in Deps(s)}}
      <4>1. Deps(s) # {}
        OBVIOUS
      <4> DEFINE full == {d \in Deps(s) : rows[d] # {}}
      <4>2. \E f \in {g \in [full -> UNION {rows[d] : d \in full}] : \A d \in full : g[d] \in rows[d]} :
               in = {UNION {f[d] : d \in full}}
        BY <1>2, <4>1 DEF Inputs
      <4>3. full = Deps(s)
        BY <2>5
      <4> HIDE DEF full
      <4> QED  BY <4>2, <4>3
    <3> QED  BY <3>1
  <2>7. f[e] \in rows[e] /\ f[e] \subseteq r
    BY <2>6
  <2> QED  BY <2>7
<1> QED  BY <1>1, <1>2

\* When none of its inputs lost a field either, the row has every field that
\* they promised.
LEMMA InputsKeep ==
    ASSUME NEW s \in Steps, NEW own, NEW in \in Inputs(s), NEW r \in in,
           IsFiniteSet(Deps(s)), Deps(s) \subseteq ran, ~Lossy(s, own), PromisesKept
    PROVE  getAvailableFields(s) \subseteq r
<1>1. ASSUME NEW d \in Deps(s) PROVE fieldMap[d] \subseteq r
  <2>1. \A q \in rows[d] : fieldMap[d] \subseteq q
    BY DEF Lossy, PromisesKept
  <2>2. PICK q \in rows[d] : q \subseteq r
    BY InputsCover
  <2> QED  BY <2>1, <2>2
<1> QED  BY <1>1 DEF getAvailableFields

-----------------------------------------------------------------------------
(* The inductive invariant.                                                *)

StepFields == {"kind", "deps", "config"}
OpFields == {"kind", "name", "from", "refs"}

IsOps(ops) ==
    /\ Len(ops) \in Nat /\ DOMAIN ops = 1..Len(ops)
    /\ \A i \in DOMAIN ops : DOMAIN ops[i] = OpFields

Added(ops) == {ops[i].name : i \in {j \in DOMAIN ops : ops[j].kind = "addField"}}
Aliases(p) == {c.alias : c \in p.columns}

\* The operations that are sanitised read only fields of F.
Clean(ops, F) ==
    \A i \in DOMAIN ops : ops[i].kind \in {"addField", "filterRows"} => ops[i].refs \subseteq F

\* What the planner noted for a step, in terms of its payload and of what it
\* noted for the inputs.
Promised(s) ==
    /\ Kind(s) = "query" => fieldMap[s] \subseteq Aliases(payload[s])
    /\ Kind(s) = "transform" =>
          /\ IsOps(payload[s].ops)
          /\ fieldMap[s] \subseteq getAvailableFields(s) \cup Added(payload[s].ops)
          /\ (\A d \in Deps(s) : d < s) /\ getAvailableFields(s) # {} =>
                 Clean(payload[s].ops, getAvailableFields(s))
    /\ Kind(s) \in {"llm", "merge"} => fieldMap[s] = {}
    /\ Kind(s) = "http" =>
          fieldMap[s] \subseteq getAvailableFields(s) \cup payload[s].output \cup {"http_status"}
    /\ Kind(s) = "write" => fieldMap[s] \subseteq getAvailableFields(s)

\* The steps are those of a pipeline; the user's answers only change configs.
StepsOK ==
    /\ Len(steps) \in Nat /\ Steps = 1..Len(steps)
    /\ \A s \in Steps : /\ DOMAIN steps[s] = StepFields
                        /\ Deps(s) \subseteq Steps /\ IsFiniteSet(Deps(s))

\* The steps are enriched one after the other, all of them before the checks.
PlanOK ==
    /\ next \in Nat
    /\ DOMAIN fieldMap = Steps /\ DOMAIN payload = Steps /\ DOMAIN rows = Steps
    /\ phase \notin {"enrich", "failed"} => \A s \in Steps : s < next
    /\ phase \in {"incomplete", "unresolvable"} => missing.step \in Writes
    /\ \A s \in Steps : Kind(s) = "query" => DOMAIN payload[s] = {"tables", "columns"}

PromisesOK ==
    \A s \in Steps : IF s < next THEN Promised(s) ELSE fieldMap[s] = {}

\* Nothing runs before the plan is checked.
RunOK ==
    /\ ran \subseteq Steps
    /\ phase \notin {"ready", "error"} => ran = {}

FInv == StepsOK /\ PlanOK /\ PromisesOK /\ RunOK /\ PromisesKept

LEMMA InitFInv == Init => FInv
<1> SUFFICES ASSUME Init PROVE FInv
  OBVIOUS
<1>1. PICK n \in Nat : n = Len(steps) /\ Steps = 1..n
  <2>1. steps \in Seq(Range(steps))
    BY FlowAssumption DEF Init
  <2> QED  BY <2>1 DEF Steps
<1>2. \A s \in Steps : DOMAIN steps[s] = StepFields /\ Deps(s) \subseteq Steps
  BY FlowAssumption DEF Init, Steps, Deps, StepFields
<1>3. IsFiniteSet(Steps)
  BY <1>1, FS_Interval
<1>4. StepsOK
  <2>1. \A s \in Steps : IsFiniteSet(Deps(s))
    BY <1>2, <1>3, FS_Subset
  <2> QED  BY <1>1, <1>2, <2>1 DEF StepsOK
<1>5. PlanOK
  <2>1. next = 1 /\ phase = "enrich"
    BY DEF Init
  <2>2. DOMAIN fieldMap = Steps /\ DOMAIN payload = Steps /\ DOMAIN rows = Steps
    BY DEF Init
  <2>3. \A s \in Steps : Kind(s) = "query" => DOMAIN payload[s] = {"tables", "columns"}
    BY DEF Init, NoQuery
  <2> QED  BY <2>1, <2>2, <2>3 DEF PlanOK
<1>6. PromisesOK
  <2>1. \A s \in Steps : ~(s < next) /\ fieldMap[s] = {}
    BY <1>1 DEF Init
  <2> QED  BY <2>1 DEF PromisesOK
<1>7. RunOK /\ PromisesKept
  BY DEF Init, RunOK, PromisesKept
<1> QED  BY <1>4, <1>5, <1>6, <1>7 DEF FInv

-----------------------------------------------------------------------------
(* How promises are carried over a step.                                   *)

\* Nothing a promise of q speaks of is taken back.
Carried(q) ==
    /\ q \in Steps' /\ Kind(q)' = Kind(q) /\ Deps(q)' = Deps(q)
    /\ fieldMap'[q] = fieldMap[q]
    /\ \A d \in Deps(q) : /\ fieldMap[d] \subseteq fieldMap'[d]
                          /\ d < q => fieldMap'[d] = fieldMap[d]
    /\ Kind(q) = "query" => Aliases(payload[q]) \subseteq Aliases(payload[q])'
    /\ Kind(q) \notin {"query", "write"} => payload'[q] = payload[q]

LEMMA PromisedCarried ==
    ASSUME NEW q \in Steps, Promised(q), Carried(q)
    PROVE  Promised(q)'
<1>1. getAvailableFields(q) \subseteq getAvailableFields(q)'
  BY DEF Carried, getAvailableFields
<1>2. (\A d \in Deps(q) : d < q) => getAvailableFields(q)' = getAvailableFields(q)
  <2>1. SUFFICES ASSUME \A d \in Deps(q) : d < q
                 PROVE  getAvailableFields(q)' = getAvailableFields(q)
    OBVIOUS
  <2>2. \A d \in Deps(q) : fieldMap'[d] = fieldMap[d]
    BY <2>1 DEF Carried
  <2>3. {fieldMap'[d] : d \in Deps(q)} = {fieldMap[d] : d \in Deps(q)}
    BY <2>2
  <2> QED  BY <2>3 DEF Carried, getAvailableFields
<1>3. CASE Kind(q) = "query"
  BY <1>3 DEF Carried, Promised, Aliases
<1>4. CASE Kind(q) = "transform"
  <2>1. payload'[q] = payload[q] /\ fieldMap'[q] = fieldMap[q] /\ Deps(q)' = Deps(q)
    BY <1>4 DEF Carried
  <2>2. /\ IsOps(payload[q].ops)
        /\ fieldMap[q] \subseteq getAvailableFields(q) \cup Added(payload[q].ops)
        /\ (\A d \in Deps(q) : d < q) /\ getAvailableFields(q) # {} =>
               Clean(payload[q].ops, getAvailableFields(q))
    BY <1>4 DEF Promised
  <2>3. Kind(q)' = "transform"
    BY <1>4 DEF Carried
  <2>4. (\A d \in Deps(q) : d < q) /\ getAvailableFields(q)' # {} =>
               Clean(payload[q].ops, getAvailableFields(q)')
    BY <1>2, <2>2
  <2>5. fieldMap[q] \subseteq getAvailableFields(q)' \cup Added(payload[q].ops)
    BY <1>1, <2>2
  <2>6. IsOps(payload[q].ops)' /\ Added(payload[q].ops)' = Added(payload[q].ops)
    BY <2>1, <2>2 DEF IsOps, Added
  <2>7. Clean(payload[q].ops, getAvailableFields(q))' <=> Clean(payload[q].ops, getAvailableFields(q)')
    BY <2>1 DEF Clean
  <2> QED  BY <2>1, <2>3, <2>4, <2>5, <2>6, <2>7 DEF Promised
<1>5. CASE Kind(q) \in {"llm", "merge"}
  BY <1>5 DEF Carried, Promised
<1>6. CASE Kind(q) = "http"
  <2>1. payload'[q] = payload[q] /\ fieldMap'[q] = fieldMap[q] /\ Kind(q)' = "http"
    BY <1>6 DEF Carried
  <2>2. fieldMap[q] \subseteq getAvailableFields(q) \cup payload[q].output \cup {"http_status"}
    BY <1>6 DEF Promised
  <2> QED  BY <1>1, <2>1, <2>2 DEF Promised
<1>7. CASE Kind(q) = "write"
  BY <1>1, <1>7 DEF Carried, Promised
<1>8. CASE Kind(q) \notin {"query", "transform", "llm", "merge", "http", "write"}
  BY <1>8 DEF Carried, Promised
<1> QED  BY <1>3, <1>4, <1>5, <1>6, <1>7, <1>8


\* What the enrichment of s leaves behind, whatever the kind of the step.
EnrichEffect(s) ==
    /\ phase = "enrich" /\ next = s
    /\ \E F : fieldMap' = [fieldMap EXCEPT ![s] = F]
    /\ next' = next + 1
    /\ phase' = IF next = Len(steps) THEN "check" ELSE phase
    /\ steps' = steps /\ missing' = missing /\ rows' = rows /\ ran' = ran /\ lossy' = lossy
    /\ DOMAIN payload' = Steps
    /\ \A q \in Steps \ {s} :
          IF Kind(q) = "query"
          THEN DOMAIN payload'[q] = DOMAIN payload[q] /\ Aliases(payload[q]) \subseteq Aliases(payload'[q])
          ELSE payload'[q] = payload[q]
    /\ Kind(s) = "query" => DOMAIN payload'[s] = {"tables", "columns"}
    /\ Promised(s)'

LEMMA EnrichKeeps ==
    ASSUME FInv, NEW s \in Steps, EnrichEffect(s)
    PROVE  FInv'
<1>1. Steps' = Steps /\ (\A q : Kind(q)' = Kind(q) /\ Deps(q)' = Deps(q)) /\ Writes' = Writes
  BY DEF EnrichEffect, Steps, Kind, Deps, Writes
<1>2. s \in Nat /\ Steps = 1..Len(steps) /\ Len(steps) \in Nat
  BY DEF FInv, StepsOK, EnrichEffect
<1>3. PICK F : fieldMap' = [fieldMap EXCEPT ![s] = F]
  BY DEF EnrichEffect
<1>4. DOMAIN fieldMap = Steps /\ fieldMap[s] = {}
  <2>1. ~(s < next)
    BY <1>2 DEF EnrichEffect
  <2> QED  BY <2>1 DEF FInv, PlanOK, PromisesOK
<1>5. \A q \in Steps \ {s} : fieldMap'[q] = fieldMap[q]
  BY <1>3, <1>4
<1>6. StepsOK'
  BY <1>1, <1>2 DEF FInv, StepsOK, EnrichEffect
<1>7. PlanOK'
  <2>1. next' \in Nat /\ DOMAIN fieldMap' = Steps /\ DOMAIN payload' = Steps /\ DOMAIN rows' = Steps
    BY <1>2, <1>3, <1>4 DEF FInv, PlanOK, EnrichEffect
  <2>2. phase' \notin {"enrich", "failed"} => \A q \in Steps : q < next'
    <3>1. SUFFICES ASSUME phase' \notin {"enrich", "failed"}, NEW q \in Steps PROVE q < next'
      OBVIOUS
    <3>2. next = Len(steps)
      BY <3>1 DEF EnrichEffect
    <3> QED  BY <1>2, <3>2 DEF EnrichEffect
  <2>3. phase' \notin {"incomplete", "unresolvable"}
    BY DEF EnrichEffect
  <2>4. \A q \in Steps : Kind(q) = "query" => DOMAIN payload'[q] = {"tables", "columns"}
    BY DEF EnrichEffect, FInv, PlanOK
  <2> QED  BY <1>1, <2>1, <2>2, <2>3, <2>4 DEF PlanOK
<1>8. PromisesOK'
  <2>1. SUFFICES ASSUME NEW q \in Steps
                 PROVE  IF q < next' THEN Promised(q)' ELSE fieldMap'[q] = {}
    BY <1>1 DEF PromisesOK
  <2>2. CASE q = s
    <3>1. q < next'
      BY <1>2, <2>2 DEF EnrichEffect
    <3> QED  BY <2>2, <3>1 DEF EnrichEffect
  <2>3. CASE q < s
    <3>1. q < next /\ q < next' /\ q # s
      BY <1>2, <2>3 DEF EnrichEffect
    <3>2. Promised(q)
      BY <3>1 DEF FInv, PromisesOK
    <3>3. \A d \in Deps(q) : d \in Steps /\ d \in Nat
      BY <1>2 DEF FInv, StepsOK
    <3>4. \A d \in Deps(q) : /\ fieldMap[d] \subseteq fieldMap'[d]
                             /\ d < q => fieldMap'[d] = fieldMap[d]
      <4>1. SUFFICES ASSUME NEW d \in Deps(q)
                     PROVE  /\ fieldMap[d] \subseteq fieldMap'[d]
                            /\ d < q => fieldMap'[d] = fieldMap[d]
        OBVIOUS
      <4>2. d < q => d # s
        BY <1>2, <2>3, <3>3
      <4> QED  BY <1>4, <1>5, <3>3, <4>2
    <3>5. Carried(q)
      <4>1. Kind(q) = "query" => Aliases(payload[q]) \subseteq Aliases(payload[q])'
        BY <3>1 DEF EnrichEffect, Aliases
      <4>2. Kind(q) # "query" => payload'[q] = payload[q]
        BY <3>1 DEF EnrichEffect
      <4> QED  BY <1>1, <1>5, <3>1, <3>4, <4>1, <4>2 DEF Carried
    <3> QED  BY <3>1, <3>2, <3>5, PromisedCarried
  <2>4. CASE q > s
    <3>1. ~(q < next) /\ ~(q < next') /\ q # s
      BY <1>2, <2>4 DEF EnrichEffect
    <3>2. fieldMap[q] = {}
      BY <3>1 DEF FInv, PromisesOK
    <3> QED  BY <1>5, <3>1, <3>2
  <2> QED  BY <1>2, <2>2, <2>3, <2>4
<1>9. ran = {}
  BY DEF FInv, RunOK, EnrichEffect
<1>10. RunOK' /\ PromisesKept'
  BY <1>9 DEF RunOK, PromisesKept, EnrichEffect
<1> QED  BY <1>6, <1>7, <1>8, <1>10 DEF FInv

\* The effect of the actions that go through Enriched.
LEMMA EnrichedEffect ==
    ASSUME FInv, NEW s \in Steps, NEW p, NEW F, phase = "enrich", next = s, Enriched(s, p, F),
           Kind(s) = "query" => DOMAIN p = {"tables", "columns"},
           Promised(s)'
    PROVE  FInv'
<1>1. DOMAIN payload = Steps
  BY DEF FInv, PlanOK
<1>2. payload' = [payload EXCEPT ![s] = p]
  BY DEF Enriched
<1>3. DOMAIN payload' = Steps /\ payload'[s] = p /\ \A q \in Steps \ {s} : payload'[q] = payload[q]
  BY <1>1, <1>2
<1>4. EnrichEffect(s)
  BY <1>3 DEF Enriched, running, EnrichEffect
<1> QED  BY <1>4, EnrichKeeps

\* A promise of the step at hand can be made in terms of the fields available
\* before it is noted.
LEMMA AvailableGrows ==
    ASSUME FInv, NEW s \in Steps, NEW F, next = s, fieldMap' = [fieldMap EXCEPT ![s] = F], steps' = steps
    PROVE  /\ getAvailableFields(s) \subseteq getAvailableFields(s)'
           /\ (\A d \in Deps(s) : d < s) => getAvailableFields(s)' = getAvailableFields(s)
           /\ fieldMap'[s] = F /\ Kind(s)' = Kind(s) /\ Deps(s)' = Deps(s)
<1>1. DOMAIN fieldMap = Steps /\ Deps(s) \subseteq Steps /\ s \in Nat
  BY DEF FInv, PlanOK, StepsOK
<1>2. fieldMap[s] = {}
  BY <1>1 DEF FInv, PromisesOK
<1>3. Kind(s)' = Kind(s) /\ Deps(s)' = Deps(s)
  BY DEF Kind, Deps
<1>4. fieldMap'[s] = F /\ \A d \in Steps \ {s} : fieldMap'[d] = fieldMap[d]
  BY <1>1
<1>5. \A d \in Deps(s) : fieldMap[d] \subseteq fieldMap'[d]
  BY <1>1, <1>2, <1>4
<1>6. ASSUME \A d \in Deps(s) : d < s PROVE getAvailableFields(s)' = getAvailableFields(s)
  <2>1. \A d \in Deps(s) : fieldMap'[d] = fieldMap[d]
    BY <1>1, <1>4, <1>6
  <2>2. {fieldMap'[d] : d \in Deps(s)} = {fieldMap[d] : d \in Deps(s)}
    BY <2>1
  <2> QED  BY <1>3, <2>2 DEF getAvailableFields
<1>7. getAvailableFields(s) \subseteq getAvailableFields(s)'
  BY <1>3, <1>5 DEF getAvailableFields
<1> QED  BY <1>3, <1>4, <1>6, <1>7


-----------------------------------------------------------------------------
(* The enrichment of each kind of step.                                    *)

\* A planning that fails leaves everything but the phase.
LEMMA FailedKeeps ==
    ASSUME FInv, phase = "enrich", phase' = "failed",
           UNCHANGED <<steps, next, fieldMap, payload, said, missing>>, UNCHANGED running
    PROVE  FInv'
<1>1. Steps' = Steps /\ (\A q : Kind(q)' = Kind(q) /\ Deps(q)' = Deps(q))
  BY DEF Steps, Kind, Deps
<1>2. StepsOK'
  BY <1>1 DEF FInv, StepsOK
<1>3. PlanOK'
  BY <1>1 DEF FInv, PlanOK, running
<1>4. ASSUME NEW q \in Steps PROVE IF q < next' THEN Promised(q)' ELSE fieldMap'[q] = {}
  <2>1. Carried(q)
    BY <1>1 DEF Carried, Aliases
  <2> QED  BY <2>1, PromisedCarried DEF FInv, PromisesOK
<1>5. PromisesOK'
  BY <1>1, <1>4 DEF PromisesOK
<1>6. RunOK' /\ PromisesKept'
  BY <1>1 DEF FInv, RunOK, PromisesKept, running
<1> QED  BY <1>2, <1>3, <1>5, <1>6 DEF FInv

LEMMA EnrichQueryKeeps ==
    ASSUME FInv, NEW s \in Steps, EnrichQuery(s)
    PROVE  FInv'
<1>1. phase = "enrich" /\ next = s /\ Kind(s) = "query"
  BY DEF EnrichQuery, Turn
<1>2. PICK q \in QueryAnswers :
         \/ Enriched(s, q, {c.alias : c \in q.columns})
         \/ /\ phase' = "failed"
            /\ UNCHANGED <<steps, next, fieldMap, payload, said, missing>>
            /\ UNCHANGED running
  BY DEF EnrichQuery
<1>3. CASE Enriched(s, q, {c.alias : c \in q.columns})
  <2>1. /\ fieldMap' = [fieldMap EXCEPT ![s] = {c.alias : c \in q.columns}]
        /\ payload' = [payload EXCEPT ![s] = q] /\ steps' = steps
    BY <1>3 DEF Enriched
  <2>2. fieldMap'[s] = {c.alias : c \in q.columns} /\ Kind(s)' = "query"
    BY <1>1, <2>1, AvailableGrows
  <2>3. payload'[s] = q
    BY <2>1 DEF FInv, PlanOK
  <2>4. Promised(s)'
    BY <2>2, <2>3 DEF Promised, Aliases
  <2>5. DOMAIN q = {"tables", "columns"}
    BY FlowAssumption
  <2> QED  BY <1>1, <1>3, <2>4, <2>5, EnrichedEffect
<1> QED  BY <1>1, <1>2, <1>3, FailedKeeps

\* What is left of the model's operations.
LEMMA StripFacts ==
    ASSUME NEW ops \in TransformAnswers, NEW F
    PROVE  /\ IsOps(stripHallucinatedFieldRefs(ops, F))
           /\ F # {} => Clean(stripHallucinatedFieldRefs(ops, F), F)
<1> DEFINE new == stripHallucinatedFieldRefs(ops, F)
<1>1. /\ Len(ops) \in Nat /\ DOMAIN ops = 1..Len(ops)
      /\ \A i \in DOMAIN ops : DOMAIN ops[i] = OpFields
  BY FlowAssumption DEF OpFields
<1>2. CASE F = {}
  BY <1>1, <1>2 DEF stripHallucinatedFieldRefs, IsOps
<1>3. CASE F # {}
  <2>1. new = [i \in DOMAIN ops |-> IF ops[i].kind \in {"addField", "filterRows"}
                  THEN [ops[i] EXCEPT !.refs = @ \cap F] ELSE ops[i]]
    BY <1>3 DEF stripHallucinatedFieldRefs
  <2> HIDE DEF new
  <2>2. PICK n \in Nat : n = Len(ops)
    BY <1>1
  <2>3. DOMAIN new = 1..n
    BY <1>1, <2>1, <2>2
  <2>4. new \in [1..n -> {new[i] : i \in 1..n}]
    BY <1>1, <2>1, <2>2
  <2>5. Len(new) = n
    BY <2>2, <2>4
  <2>6. ASSUME NEW i \in DOMAIN ops
        PROVE  /\ DOMAIN new[i] = OpFields
               /\ new[i].kind \in {"addField", "filterRows"} => new[i].refs \subseteq F
    <3>1. CASE ops[i].kind \in {"addField", "filterRows"}
      <4>1. new[i] = [ops[i] EXCEPT !.refs = @ \cap F]
        BY <2>1, <3>1
      <4> QED  BY <1>1, <4>1 DEF OpFields
    <3>2. CASE ops[i].kind \notin {"addField", "filterRows"}
      <4>1. new[i] = ops[i]
        BY <2>1, <3>2
      <4> QED  BY <1>1, <3>2, <4>1
    <3> QED  BY <3>1, <3>2
  <2>7. IsOps(new)
    BY <1>1, <2>2, <2>3, <2>5, <2>6 DEF IsOps
  <2>8. Clean(new, F)
    BY <1>1, <2>2, <2>3, <2>6 DEF Clean
  <2> QED  BY <2>7, <2>8 DEF new
<1> QED  BY <1>2, <1>3

LEMMA EnrichTransformKeeps ==
    ASSUME FInv, NEW s \in Steps, EnrichTransform(s)
    PROVE  FInv'
<1>1. phase = "enrich" /\ next = s /\ Kind(s) = "transform"
  BY DEF EnrichTransform, Turn
<1> DEFINE A == getAvailableFields(s)
<1>2. PICK answer \in TransformAnswers :
         Enriched(s, [kind |-> "transform", ops |-> stripHallucinatedFieldRefs(answer, A)],
                  TransformFields(stripHallucinatedFieldRefs(answer, A), A))
  BY DEF EnrichTransform
<1> DEFINE ops == stripHallucinatedFieldRefs(answer, A)
           p == [kind |-> "transform", ops |-> ops]
<1>3. IsOps(ops) /\ (A # {} => Clean(ops, A))
  BY StripFacts
<1> HIDE DEF ops
<1>4. Enriched(s, p, TransformFields(ops, A))
  BY <1>2 DEF ops
<1>5. /\ fieldMap' = [fieldMap EXCEPT ![s] = TransformFields(ops, A)]
      /\ payload' = [payload EXCEPT ![s] = p] /\ steps' = steps
  BY <1>4 DEF Enriched
<1>6. /\ A \subseteq getAvailableFields(s)'
      /\ (\A d \in Deps(s) : d < s) => getAvailableFields(s)' = A
      /\ fieldMap'[s] = TransformFields(ops, A) /\ Kind(s)' = "transform" /\ Deps(s)' = Deps(s)
  BY <1>1, <1>5, AvailableGrows
<1>7. payload'[s] = p
  BY <1>5 DEF FInv, PlanOK
<1>8. payload'[s].ops = ops
  BY <1>7
<1>9. fieldMap'[s] \subseteq getAvailableFields(s)' \cup Added(ops)
  BY <1>6 DEF TransformFields, Added
<1>10. Promised(s)'
  <2>1. IsOps(payload[s].ops)' /\ Added(payload[s].ops)' = Added(ops)
    BY <1>3, <1>8 DEF IsOps, Added
  <2>2. (\A d \in Deps(s) : d < s)' /\ (getAvailableFields(s) # {})' =>
            Clean(payload[s].ops, getAvailableFields(s))'
    BY <1>3, <1>6, <1>8 DEF Clean
  <2> QED  BY <1>6, <1>9, <2>1, <2>2 DEF Promised
<1> QED  BY <1>1, <1>4, <1>10, EnrichedEffect

LEMMA EnrichStructuralKeeps ==
    ASSUME FInv, NEW s \in Steps, EnrichStructural(s)
    PROVE  FInv'
<1>1. phase = "enrich" /\ next = s /\ Kind(s) \in {"llm", "merge"}
  BY DEF EnrichStructural, Turn
<1>2. Enriched(s, [kind |-> Kind(s)], {})
  BY DEF EnrichStructural
<1>3. fieldMap' = [fieldMap EXCEPT ![s] = {}] /\ steps' = steps
  BY <1>2 DEF Enriched
<1>4. fieldMap'[s] = {} /\ Kind(s)' = Kind(s)
  BY <1>1, <1>3, AvailableGrows
<1>5. Promised(s)'
  BY <1>1, <1>4 DEF Promised
<1> QED  BY <1>1, <1>2, <1>5, EnrichedEffect

LEMMA EnrichHttpKeeps ==
    ASSUME FInv, NEW s \in Steps, EnrichHttp(s)
    PROVE  FInv'
<1>1. phase = "enrich" /\ next = s /\ Kind(s) = "http"
  BY DEF EnrichHttp, Turn
<1> DEFINE A == getAvailableFields(s)
<1>2. PICK e \in Endpoints :
         Enriched(s, [kind |-> "http", body |-> A \cap e.request, output |-> e.response],
                  (IF e.array THEN {} ELSE A) \cup e.response \cup {"http_status"})
  BY DEF EnrichHttp
<1> DEFINE p == [kind |-> "http", body |-> A \cap e.request, output |-> e.response]
           F == (IF e.array THEN {} ELSE A) \cup e.response \cup {"http_status"}
<1>3. fieldMap' = [fieldMap EXCEPT ![s] = F] /\ payload' = [payload EXCEPT ![s] = p] /\ steps' = steps
  BY <1>2 DEF Enriched
<1>4. A \subseteq getAvailableFields(s)' /\ fieldMap'[s] = F /\ Kind(s)' = "http"
  BY <1>1, <1>3, AvailableGrows
<1>5. payload'[s].output = e.response
  BY <1>3 DEF FInv, PlanOK
<1>6. F \subseteq A \cup e.response \cup {"http_status"}
  OBVIOUS
<1> HIDE DEF A, F
<1>7. Promised(s)'
  BY <1>4, <1>5, <1>6 DEF Promised
<1> QED  BY <1>1, <1>2, <1>7, EnrichedEffect DEF A, F

LEMMA EnrichWriteKeeps ==
    ASSUME FInv, NEW s \in Steps, EnrichWrite(s)
    PROVE  FInv'
<1>1. phase = "enrich" /\ next = s /\ Kind(s) = "write"
  BY DEF EnrichWrite, Turn
<1> DEFINE A == getAvailableFields(s)
<1>2. PICK p : /\ payload' = [q \in Steps |->
                     IF q = s THEN p
                     ELSE IF Kind(q) = "query"
                     THEN [payload[q] EXCEPT !.columns =
                             @ \cup p.added[CHOOSE i \in DOMAIN QuerySteps : QuerySteps[i] = q]]
                     ELSE payload[q]]
               /\ fieldMap' = [fieldMap EXCEPT ![s] = A]
  BY DEF EnrichWrite
<1>3. /\ next' = next + 1 /\ phase' = IF next = Len(steps) THEN "check" ELSE phase
      /\ steps' = steps /\ missing' = missing /\ rows' = rows /\ ran' = ran /\ lossy' = lossy
  BY DEF EnrichWrite, running
<1>4. A \subseteq getAvailableFields(s)' /\ fieldMap'[s] = A /\ Kind(s)' = "write"
  BY <1>1, <1>2, <1>3, AvailableGrows
<1>5. Promised(s)'
  BY <1>4 DEF Promised
<1>6. ASSUME NEW q \in Steps \ {s}
      PROVE  IF Kind(q) = "query"
             THEN DOMAIN payload'[q] = DOMAIN payload[q] /\ Aliases(payload[q]) \subseteq Aliases(payload'[q])
             ELSE payload'[q] = payload[q]
  <2>1. CASE Kind(q) = "query"
    <3>1. DOMAIN payload[q] = {"tables", "columns"}
      BY <2>1 DEF FInv, PlanOK
    <3>2. PICK more : payload'[q] = [payload[q] EXCEPT !.columns = @ \cup more]
      BY <1>2, <2>1
    <3>3. DOMAIN payload'[q] = DOMAIN payload[q] /\ payload[q].columns \subseteq payload'[q].columns
      BY <3>1, <3>2
    <3> QED  BY <2>1, <3>3 DEF Aliases
  <2> QED  BY <1>2, <2>1
<1>7. EnrichEffect(s)
  BY <1>1, <1>2, <1>3, <1>5, <1>6 DEF EnrichEffect
<1> QED  BY <1>7, EnrichKeeps


-----------------------------------------------------------------------------
(* The checks, the forms and the validation: they change configs and       *)
(* payloads of writes, and nothing a promise speaks of.                    *)

PlanEffect ==
    /\ phase \notin {"enrich", "failed", "ready", "error"} /\ phase' # "enrich"
    /\ DOMAIN steps' = DOMAIN steps /\ Len(steps') = Len(steps)
    /\ \A q \in Steps : /\ DOMAIN steps'[q] = StepFields
                        /\ steps'[q].kind = steps[q].kind /\ steps'[q].deps = steps[q].deps
    /\ UNCHANGED <<next, fieldMap, rows, ran, lossy>>
    /\ DOMAIN payload' = Steps
    /\ \A q \in Steps : Kind(q) # "write" => payload'[q] = payload[q]
    /\ phase' \in {"incomplete", "unresolvable"} => missing'.step \in Writes

LEMMA PlanKeeps ==
    ASSUME FInv, PlanEffect
    PROVE  FInv'
<1>1. Steps' = Steps /\ \A q \in Steps : Kind(q)' = Kind(q) /\ Deps(q)' = Deps(q)
  BY DEF PlanEffect, Steps, Kind, Deps
<1>2. Writes' = Writes
  BY <1>1 DEF Writes
<1>3. StepsOK'
  BY <1>1 DEF FInv, StepsOK, PlanEffect
<1>4. PlanOK'
  BY <1>1, <1>2 DEF FInv, PlanOK, PlanEffect
<1>5. ASSUME NEW q \in Steps PROVE IF q < next' THEN Promised(q)' ELSE fieldMap'[q] = {}
  <2>1. fieldMap' = fieldMap /\ next' = next
    BY DEF PlanEffect
  <2>2. Kind(q) # "write" => payload'[q] = payload[q]
    BY DEF PlanEffect
  <2>3. Carried(q)
    BY <1>1, <2>1, <2>2 DEF Carried, Aliases
  <2> QED  BY <2>1, <2>3, PromisedCarried DEF FInv, PromisesOK
<1>6. PromisesOK'
  BY <1>1, <1>5 DEF PromisesOK
<1>7. ran' = {}
  BY DEF FInv, RunOK, PlanEffect
<1>8. RunOK' /\ PromisesKept'
  BY <1>7 DEF RunOK, PromisesKept
<1> QED  BY <1>3, <1>4, <1>6, <1>8 DEF FInv

\* The first of some steps is one of them.
LEMMA MinIn ==
    ASSUME NEW T, T \subseteq Nat, T # {}
    PROVE  Min(T) \in T
<1>1. \E x \in T : \A y \in T : x <= y
  BY LeastNat
<1> QED  BY <1>1 DEF Min

LEMMA CheckKeeps ==
    ASSUME FInv, Check
    PROVE  FInv' /\ PlanEffect
<1> DEFINE stops == {s \in Writes : Unknown(s) \/ Missing(payload[s]) # {}}
           open == {s \in Writes : Unresolvable(s) # {}}
<1>1. stops \subseteq Writes /\ open \subseteq Writes
  OBVIOUS
<1>2. Writes \subseteq Nat
  BY DEF FInv, StepsOK, Writes
<1>3. (stops # {} => Min(stops) \in Writes) /\ (open # {} => Min(open) \in Writes)
  BY <1>1, <1>2, MinIn
<1>4. /\ phase = "check" /\ phase' \in {"unresolvable", "optional", "failed", "incomplete"}
      /\ payload' = [s \in Steps |-> IF s \in Writes THEN Remapped(s) ELSE payload[s]]
      /\ UNCHANGED <<steps, next, fieldMap, rows, ran, lossy>>
  BY DEF Check, running
<1>5. phase' = "unresolvable" => open # {} /\ missing'.step = Min(open)
  BY DEF Check
<1>6. phase' = "incomplete" => stops # {} /\ missing'.step = Min(stops)
  BY DEF Check
<1> HIDE DEF stops, open
<1>7. \A q \in Steps : Kind(q) # "write" => payload'[q] = payload[q]
  BY <1>4 DEF Writes
<1>8. PlanEffect
  <2>1. \A q \in Steps : DOMAIN steps[q] = StepFields
    BY DEF FInv, StepsOK
  <2> QED  BY <1>3, <1>4, <1>5, <1>6, <1>7, <2>1 DEF PlanEffect
<1> QED  BY <1>8, PlanKeeps

\* A form changes the payload of the step it is about.
LEMMA FormPayload ==
    ASSUME FInv, phase \in {"incomplete", "unresolvable"}, NEW p,
           payload' = [payload EXCEPT ![missing.step] = p]
    PROVE  DOMAIN payload' = Steps /\ \A q \in Steps : Kind(q) # "write" => payload'[q] = payload[q]
<1>1. missing.step \in Writes /\ DOMAIN payload = Steps
  BY DEF FInv, PlanOK
<1>2. \A q \in Steps : Kind(q) # "write" => q # missing.step
  BY <1>1 DEF Writes
<1> QED  BY <1>1, <1>2

LEMMA SkipFormKeeps ==
    ASSUME FInv, SkipForm
    PROVE  FInv' /\ PlanEffect
<1>1. /\ phase = "incomplete" /\ phase' = "optional"
      /\ UNCHANGED <<steps, next, fieldMap, rows, ran, lossy>>
  BY DEF SkipForm, Unread
<1>2. \E p : payload' = [payload EXCEPT ![missing.step] = p] \/ payload' = payload
  BY DEF SkipForm
<1>3. DOMAIN payload' = Steps /\ \A q \in Steps : Kind(q) # "write" => payload'[q] = payload[q]
  BY <1>1, <1>2, FormPayload DEF FInv, PlanOK
<1>4. \A q \in Steps : DOMAIN steps[q] = StepFields
  BY DEF FInv, StepsOK
<1>5. PlanEffect
  BY <1>1, <1>3, <1>4 DEF PlanEffect
<1> QED  BY <1>5, PlanKeeps

LEMMA FillFormKeeps ==
    ASSUME FInv, FillForm
    PROVE  FInv' /\ PlanEffect
<1>1. /\ phase = "incomplete" /\ phase' \in {"dropped", "optional"}
      /\ UNCHANGED <<next, fieldMap, rows, ran, lossy>>
  BY DEF FillForm, Unread
<1>2. \E p : payload' = [payload EXCEPT ![missing.step] = p]
  BY DEF FillForm
<1>3. \E new : steps' = [steps EXCEPT ![missing.step].config.fields = new]
  BY DEF FillForm
<1>4. DOMAIN payload' = Steps /\ \A q \in Steps : Kind(q) # "write" => payload'[q] = payload[q]
  BY <1>1, <1>2, FormPayload
<1>5. \A q \in Steps : DOMAIN steps[q] = StepFields
  BY DEF FInv, StepsOK
<1>6. DOMAIN steps' = DOMAIN steps /\
      \A q \in Steps : /\ DOMAIN steps'[q] = StepFields
                       /\ steps'[q].kind = steps[q].kind /\ steps'[q].deps = steps[q].deps
  BY <1>3, <1>5 DEF Steps, StepFields
<1>7. Len(steps') = Len(steps)
  <2>1. PICK n \in Nat : n = Len(steps) /\ DOMAIN steps = 1..n
    BY DEF FInv, StepsOK, Steps
  <2>2. steps' \in [1..n -> {steps'[i] : i \in 1..n}]
    BY <1>3, <2>1
  <2> QED  BY <2>1, <2>2
<1>8. PlanEffect
  BY <1>1, <1>4, <1>6, <1>7 DEF PlanEffect
<1> QED  BY <1>8, PlanKeeps

LEMMA FillUnresolvableKeeps ==
    ASSUME FInv, FillUnresolvable
    PROVE  FInv' /\ PlanEffect
<1>1. /\ phase = "unresolvable" /\ phase' = "optional"
      /\ UNCHANGED <<steps, next, fieldMap, rows, ran, lossy>>
  BY DEF FillUnresolvable, Unread
<1>2. \E p : payload' = [payload EXCEPT ![missing.step] = p]
  BY DEF FillUnresolvable
<1>3. DOMAIN payload' = Steps /\ \A q \in Steps : Kind(q) # "write" => payload'[q] = payload[q]
  BY <1>1, <1>2, FormPayload
<1>4. \A q \in Steps : DOMAIN steps[q] = StepFields
  BY DEF FInv, StepsOK
<1>5. PlanEffect
  BY <1>1, <1>3, <1>4 DEF PlanEffect
<1> QED  BY <1>5, PlanKeeps

LEMMA OfferOptionalKeeps ==
    ASSUME FInv, OfferOptional
    PROVE  FInv' /\ PlanEffect
<1>1. /\ phase = "optional" /\ phase' = "preflight"
      /\ UNCHANGED <<steps, next, fieldMap, rows, ran, lossy>>
  BY DEF OfferOptional, Unread
<1>2. DOMAIN payload' = Steps /\ \A q \in Steps : q \notin Writes => payload'[q] = payload[q]
  BY DEF OfferOptional
<1>3. \A q \in Steps : DOMAIN steps[q] = StepFields
  BY DEF FInv, StepsOK
<1>4. PlanEffect
  BY <1>1, <1>2, <1>3 DEF PlanEffect, Writes
<1> QED  BY <1>4, PlanKeeps

LEMMA LaunchKeeps ==
    ASSUME FInv, ExecuteAsIs \/ Preflight
    PROVE  FInv' /\ PlanEffect
<1>1. /\ phase \in {"incomplete", "unresolvable", "optional", "preflight"}
      /\ phase' \in {"preflight", "ready", "refused"}
      /\ UNCHANGED <<steps, payload, next, fieldMap, rows, ran, lossy>>
  BY DEF ExecuteAsIs, Preflight, Unread
<1>2. (\A q \in Steps : DOMAIN steps[q] = StepFields) /\ DOMAIN payload = Steps
  BY DEF FInv, StepsOK, PlanOK
<1>3. PlanEffect
  BY <1>1, <1>2 DEF PlanEffect
<1> QED  BY <1>3, PlanKeeps


-----------------------------------------------------------------------------
(* The run.                                                                *)

\* During the run the plan stays as it is.
LEMMA PlannedKeeps ==
    ASSUME FInv, phase = "ready", phase' \in {"ready", "error"}, UNCHANGED planned,
           DOMAIN rows' = Steps, ran' \subseteq Steps, PromisesKept'
    PROVE  FInv'
<1>1. Steps' = Steps /\ \A q : Kind(q)' = Kind(q) /\ Deps(q)' = Deps(q)
  BY DEF planned, Steps, Kind, Deps
<1>2. StepsOK'
  BY <1>1 DEF FInv, StepsOK, planned
<1>3. PlanOK'
  BY <1>1 DEF FInv, PlanOK, planned
<1>4. ASSUME NEW q \in Steps PROVE IF q < next' THEN Promised(q)' ELSE fieldMap'[q] = {}
  <2>1. Carried(q)
    BY <1>1 DEF Carried, Aliases, planned
  <2> QED  BY <2>1, PromisedCarried DEF FInv, PromisesOK, planned
<1>5. PromisesOK'
  BY <1>1, <1>4 DEF PromisesOK
<1>6. RunOK'
  BY <1>1 DEF RunOK
<1> QED  BY <1>2, <1>3, <1>5, <1>6 DEF FInv

LEMMA ThrowsKeeps ==
    ASSUME FInv, phase = "ready", Throws, UNCHANGED planned
    PROVE  FInv'
<1>1. PromisesKept' /\ DOMAIN rows' = Steps /\ ran' \subseteq Steps
  BY DEF FInv, PlanOK, RunOK, PromisesKept, Throws, planned
<1> QED  BY <1>1, PlannedKeeps DEF Throws

\* A step that delivers what was promised for it, unless it is lossy.
LEMMA DeliveredKeeps ==
    ASSUME FInv, phase = "ready", phase' = phase, UNCHANGED planned,
           NEW s \in Steps, NEW out, NEW own, Delivered(s, out, own),
           ~Lossy(s, own) => \A r \in out : fieldMap[s] \subseteq r
    PROVE  FInv'
<1>1. DOMAIN rows = Steps /\ ran \subseteq Steps
  BY DEF FInv, PlanOK, RunOK
<1>2. DOMAIN rows' = Steps /\ rows'[s] = out /\ \A q \in Steps \ {s} : rows'[q] = rows[q]
  BY <1>1 DEF Delivered
<1>3. ran' = ran \cup {s} /\ lossy \subseteq lossy' /\ (s \notin lossy' => ~Lossy(s, own))
  BY DEF Delivered
<1>4. ASSUME NEW q \in ran' \ lossy', NEW r \in rows'[q] PROVE fieldMap'[q] \subseteq r
  <2>1. fieldMap' = fieldMap
    BY DEF planned
  <2>2. CASE q = s
    BY <1>2, <1>3, <1>4, <2>1, <2>2
  <2>3. CASE q # s
    <3>1. q \in ran \ lossy /\ rows'[q] = rows[q]
      BY <1>1, <1>2, <1>3, <2>3
    <3> QED  BY <2>1, <3>1 DEF FInv, PromisesKept
  <2> QED  BY <2>2, <2>3
<1>5. PromisesKept'
  BY <1>4 DEF PromisesKept
<1> QED  BY <1>1, <1>2, <1>3, <1>5, PlannedKeeps

\* The step to run is enriched, and its inputs have run.
LEMMA MayRunFacts ==
    ASSUME FInv, NEW s \in Steps, NEW kind, MayRun(s, kind)
    PROVE  /\ phase = "ready" /\ Kind(s) = kind /\ Promised(s)
           /\ Deps(s) \subseteq ran /\ IsFiniteSet(Deps(s)) /\ PromisesKept
BY DEF MayRun, FInv, StepsOK, PlanOK, PromisesOK

LEMMA RunQueryKeeps ==
    ASSUME FInv, NEW s \in Steps, RunQuery(s)
    PROVE  FInv'
<1>1. phase = "ready" /\ Kind(s) = "query" /\ Promised(s)
  BY MayRunFacts DEF RunQuery
<1>2. PICK out \in {{}, {Aliases(payload[s])}} : Delivered(s, out, fieldMap[s] = {})
  BY DEF RunQuery, Aliases
<1>3. \A r \in out : fieldMap[s] \subseteq r
  BY <1>1 DEF Promised
<1>4. phase' = phase /\ UNCHANGED planned
  BY DEF RunQuery
<1> QED  BY <1>1, <1>2, <1>3, <1>4, DeliveredKeeps

LEMMA RunTransformKeeps ==
    ASSUME FInv, NEW s \in Steps, RunTransform(s)
    PROVE  FInv'
<1> DEFINE ops == payload[s].ops
           drops == \E i \in DOMAIN ops : ops[i].kind \in {"removeField", "renameField"}
           A == getAvailableFields(s)
<1>1. MayRun(s, "transform") /\ UNCHANGED planned
  BY DEF RunTransform
<1>2. /\ phase = "ready" /\ Kind(s) = "transform" /\ Promised(s)
      /\ Deps(s) \subseteq ran /\ IsFiniteSet(Deps(s)) /\ PromisesKept
  BY <1>1, MayRunFacts
<1>3. PICK in \in Inputs(s) :
         \/ Throws
         \/ /\ \E kept \in SUBSET Stages(ops, in)[Len(ops) + 1] : Delivered(s, kept, drops)
            /\ phase' = phase
  BY DEF RunTransform
<1>4. ASSUME NEW kept \in SUBSET Stages(ops, in)[Len(ops) + 1], Delivered(s, kept, drops), phase' = phase
      PROVE  FInv'
  <2>1. ASSUME ~Lossy(s, drops), NEW r \in kept PROVE fieldMap[s] \subseteq r
    <3>1. IsOps(ops) /\ fieldMap[s] \subseteq A \cup Added(ops)
      BY <1>2 DEF Promised
    <3>2. Len(ops) \in Nat /\ DOMAIN ops = 1..Len(ops)
      BY <3>1 DEF IsOps
    <3>3. \A i \in 1..Len(ops) : ~Drops(ops[i])
      BY <2>1, <3>2 DEF Lossy, Drops
    <3>4. \A q \in in : A \subseteq q
      BY <1>2, <2>1, InputsKeep
    <3> HIDE DEF ops, A
    <3>5. Has(r, A, ops, Len(ops))
      <4>1. Len(ops) \in 0..Len(ops) /\ r \in Stages(ops, in)[Len(ops) + 1]
        BY <3>2
      <4>2. \A k \in 0..Len(ops) : \A q \in Stages(ops, in)[k + 1] : Has(q, A, ops, k)
        BY <3>2, <3>3, <3>4, StagesKeep
      <4> QED  BY <4>1, <4>2
    <3>6. A \subseteq r /\ Added(ops) \subseteq r
      BY <3>2, <3>5 DEF Has, Added
    <3> QED  BY <3>1, <3>6
  <2> QED  BY <1>1, <1>2, <1>4, <2>1, DeliveredKeeps
<1> QED  BY <1>1, <1>2, <1>3, <1>4, ThrowsKeeps

\* Steps without promises, whatever they deliver.
LEMMA RunUnpromisedKeeps ==
    ASSUME FInv, NEW s \in Steps, RunLLM(s) \/ RunMerge(s)
    PROVE  FInv'
<1>1. MayRun(s, "llm") \/ MayRun(s, "merge")
  BY DEF RunLLM, RunMerge
<1>2. phase = "ready" /\ fieldMap[s] = {}
  BY <1>1, MayRunFacts DEF Promised
<1>3. phase' = phase /\ UNCHANGED planned
  BY DEF RunLLM, RunMerge
<1>4. CASE RunLLM(s)
  <2>1. PICK out : Delivered(s, out, FALSE)
    BY <1>4 DEF RunLLM
  <2> QED  BY <1>2, <1>3, <2>1, DeliveredKeeps
<1>5. CASE RunMerge(s)
  <2>1. PICK out, own : Delivered(s, out, own)
    <3> DEFINE feed == [d \in Deps(s) |-> rows[d]]
               strategy == steps[s].config.strategy
    <3>1. CASE strategy = "union"
      BY <1>5, <3>1, Zenon DEF RunMerge
    <3>2. CASE strategy = "first"
      <4>1. \E d \in Deps(s) : Delivered(s, feed[d], TRUE)
        BY <1>5, <3>2 DEF RunMerge
      <4> QED  BY <4>1
    <3>3. CASE strategy \notin {"union", "first"}
      BY <1>5, <3>3 DEF RunMerge
    <3> QED  BY <3>1, <3>2, <3>3
  <2> QED  BY <1>2, <1>3, <2>1, DeliveredKeeps
<1> QED  BY <1>4, <1>5

LEMMA RunHttpKeeps ==
    ASSUME FInv, NEW s \in Steps, RunHttp(s)
    PROVE  FInv'
<1> DEFINE A == getAvailableFields(s)
           O == payload[s].output
<1>1. MayRun(s, "http") /\ UNCHANGED planned
  BY DEF RunHttp
<1>2. /\ phase = "ready" /\ Kind(s) = "http" /\ Promised(s)
      /\ Deps(s) \subseteq ran /\ IsFiniteSet(Deps(s)) /\ PromisesKept
  BY <1>1, MayRunFacts
<1>3. PICK in \in Inputs(s) :
         \E failed \in SUBSET in :
            \/ Throws
            \/ /\ Delivered(s, {r \cup O \cup {"http_status"} : r \in in \ failed}
                                \cup {r \cup {"http_status", "http_error"} : r \in failed}, failed # {})
               /\ phase' = phase
  BY DEF RunHttp
<1>4. PICK failed \in SUBSET in :
         \/ Throws
         \/ /\ Delivered(s, {r \cup O \cup {"http_status"} : r \in in \ failed}
                             \cup {r \cup {"http_status", "http_error"} : r \in failed}, failed # {})
            /\ phase' = phase
  BY <1>3
<1> DEFINE out == {r \cup O \cup {"http_status"} : r \in in \ failed}
                     \cup {r \cup {"http_status", "http_error"} : r \in failed}
<1>5. CASE Delivered(s, out, failed # {}) /\ phase' = phase
  <2>1. ASSUME ~Lossy(s, failed # {}), NEW r \in out PROVE fieldMap[s] \subseteq r
    <3>1. failed = {}
      BY <2>1 DEF Lossy
    <3>2. PICK q \in in : r = q \cup O \cup {"http_status"}
      BY <3>1
    <3>3. A \subseteq q
      BY <1>2, <2>1, InputsKeep
    <3>4. fieldMap[s] \subseteq A \cup O \cup {"http_status"}
      BY <1>2 DEF Promised
    <3> HIDE DEF A, O
    <3> QED  BY <3>2, <3>3, <3>4
  <2> HIDE DEF out
  <2> QED  BY <1>1, <1>2, <1>5, <2>1, DeliveredKeeps
<1> QED  BY <1>1, <1>2, <1>4, <1>5, ThrowsKeeps

LEMMA RunWriteKeeps ==
    ASSUME FInv, NEW s \in Steps, RunWrite(s)
    PROVE  FInv'
<1> DEFINE A == getAvailableFields(s)
<1>1. MayRun(s, "write") /\ UNCHANGED planned
  BY DEF RunWrite
<1>2. /\ phase = "ready" /\ Kind(s) = "write" /\ Promised(s)
      /\ Deps(s) \subseteq ran /\ IsFiniteSet(Deps(s)) /\ PromisesKept
  BY <1>1, MayRunFacts
<1>3. PICK in \in Inputs(s) :
         \/ Throws
         \/ Delivered(s, in, FALSE) /\ phase' = phase
         \/ Delivered(s, IF in = {} THEN {} ELSE {Summary}, in # {}) /\ phase' = phase
  BY DEF RunWrite
<1>4. fieldMap[s] \subseteq A
  BY <1>2 DEF Promised
<1>5. CASE Delivered(s, in, FALSE) /\ phase' = phase
  <2>1. ASSUME ~Lossy(s, FALSE), NEW r \in in PROVE fieldMap[s] \subseteq r
    BY <1>2, <1>4, <2>1, InputsKeep
  <2> QED  BY <1>1, <1>2, <1>5, <2>1, DeliveredKeeps
<1>6. CASE Delivered(s, IF in = {} THEN {} ELSE {Summary}, in # {}) /\ phase' = phase
  <2> DEFINE out == IF in = {} THEN {} ELSE {Summary}
  <2>1. ~Lossy(s, in # {}) => out = {}
    BY DEF Lossy
  <2> HIDE DEF out
  <2>2. Delivered(s, out, in # {})
    BY <1>6 DEF out
  <2> QED  BY <1>1, <1>2, <1>6, <2>1, <2>2, DeliveredKeeps
<1> QED  BY <1>1, <1>2, <1>3, <1>5, <1>6, ThrowsKeeps

-----------------------------------------------------------------------------
(* The theorems.                                                           *)

LEMMA StutterKeeps ==
    ASSUME FInv, UNCHANGED vars
    PROVE  FInv'
<1>1. Steps' = Steps /\ Writes' = Writes /\ \A q : Kind(q)' = Kind(q) /\ Deps(q)' = Deps(q)
  BY DEF vars, Steps, Kind, Deps, Writes
<1>2. StepsOK' /\ PlanOK' /\ RunOK' /\ PromisesKept'
  BY <1>1 DEF FInv, StepsOK, PlanOK, RunOK, PromisesKept, vars
<1>3. ASSUME NEW q \in Steps PROVE IF q < next' THEN Promised(q)' ELSE fieldMap'[q] = {}
  <2>1. Carried(q)
    BY <1>1 DEF Carried, Aliases, vars
  <2> QED  BY <2>1, PromisedCarried DEF FInv, PromisesOK, vars
<1> QED  BY <1>1, <1>2, <1>3 DEF FInv, PromisesOK

LEMMA NextKeeps ==
    ASSUME FInv, [Next]_vars
    PROVE  FInv'
<1>1. ASSUME NEW s \in Steps, EnrichStep(s) PROVE FInv'
  BY <1>1, EnrichQueryKeeps, EnrichTransformKeeps, EnrichStructuralKeeps, EnrichHttpKeeps,
     EnrichWriteKeeps DEF EnrichStep
<1>2. ASSUME NEW s \in Steps, RunStep(s) PROVE FInv'
  BY <1>2, RunQueryKeeps, RunTransformKeeps, RunUnpromisedKeeps, RunHttpKeeps, RunWriteKeeps
     DEF RunStep
<1>3. CASE EnrichFails
  BY <1>3, FailedKeeps DEF EnrichFails
<1>4. CASE UNCHANGED vars
  BY <1>4, StutterKeeps
<1> QED
  BY <1>1, <1>2, <1>3, <1>4, CheckKeeps, SkipFormKeeps, FillFormKeeps, FillUnresolvableKeeps,
     OfferOptionalKeeps, LaunchKeeps DEF Next

\* fieldMap of enrichNodes and the rows of the scheduler stay in agreement: every
\* step of the planner, of the forms and of the run preserves FInv.
THEOREM FlowInvariance == Spec => []FInv
<1>1. Init => FInv
  BY InitFInv
<1>2. FInv /\ [Next]_vars => FInv'
  BY NextKeeps
<1> QED  BY <1>1, <1>2, PTL DEF Spec

\* A sanitised transform without sorts and removals finds what it reads.
LEMMA SafeTransforms == FInv => TransformsSafe
<1> SUFFICES ASSUME FInv, NEW s \in Steps, MayRun(s, "transform"), ~Lossy(s, FALSE),
                    getAvailableFields(s) # {}, \A d \in Deps(s) : d < s,
                    \A i \in DOMAIN payload[s].ops :
                        payload[s].ops[i].kind \in {"addField", "filterRows"},
                    NEW in \in Inputs(s)
             PROVE  ~Misses(payload[s].ops, in)
  BY DEF TransformsSafe
<1> DEFINE ops == payload[s].ops
           A == getAvailableFields(s)
<1>1. /\ Kind(s) = "transform" /\ Promised(s)
      /\ Deps(s) \subseteq ran /\ IsFiniteSet(Deps(s)) /\ PromisesKept
  BY MayRunFacts
<1>2. IsOps(ops) /\ Clean(ops, A)
  BY <1>1 DEF Promised
<1>3. \A q \in in : A \subseteq q
  BY <1>1, InputsKeep
<1>4. \A i \in DOMAIN ops : ops[i].kind \in {"addField", "filterRows"}
  OBVIOUS
<1> HIDE DEF ops, A
<1>5. Len(ops) \in Nat /\ DOMAIN ops = 1..Len(ops)
  BY <1>2 DEF IsOps
<1>6. \A i \in 1..Len(ops) : ~Drops(ops[i])
  BY <1>4, <1>5 DEF Drops
<1>7. \A k \in 0..Len(ops) : \A r \in Stages(ops, in)[k + 1] : Has(r, A, ops, k)
  BY <1>3, <1>5, <1>6, StagesKeep
<1>8. ASSUME NEW i \in DOMAIN ops, NEW r \in Stages(ops, in)[i] PROVE ops[i].refs \subseteq r
  <2>1. i - 1 \in 0..Len(ops) /\ (i - 1) + 1 = i
    BY <1>5
  <2>2. A \subseteq r
    BY <1>7, <2>1 DEF Has
  <2>3. ops[i].refs \subseteq A
    BY <1>2, <1>4 DEF Clean
  <2> QED  BY <2>2, <2>3
<1>9. ~Misses(ops, in)
  BY <1>8 DEF Misses
<1> QED  BY <1>9 DEF ops

\* What the planner promised of a step's rows they have, and what a sanitised
\* transform reads is there: for every pipeline, in whatever order its steps are
\* listed, and for all answers of the model, endpoints and schemas.
THEOREM PlannedFieldsArrive == Spec => []FieldsDelivered
<1>1. FInv => FieldsDelivered
  BY SafeTransforms DEF FInv, FieldsDelivered
<1> QED  BY <1>1, FlowInvariance, PTL


-----------------------------------------------------------------------------
(* The search of getUpstreamFields.                                        *)

\* The inputs of the steps of S that have no fields themselves.
Beyond(st, fm, S) == UNION {st[d].deps : d \in {e \in S : fm[e] = {}}}

\* f gives the steps that the search has reached after each of n turns.
IsWalk(f, st, fm, s, n) ==
    f = [k \in 0..n |-> IF k = 0 THEN st[s].deps ELSE f[k - 1] \cup Beyond(st, fm, f[k - 1])]

Walk(st, fm, s, n) == CHOOSE f : IsWalk(f, st, fm, s, n)

LEMMA WalkExists ==
    ASSUME NEW st, NEW fm, NEW s, NEW n \in Nat
    PROVE  \E f : IsWalk(f, st, fm, s, n)
<1> DEFINE T == {m \in Nat : ~ \E f : IsWalk(f, st, fm, s, m)}
<1>1. SUFFICES ASSUME T # {} PROVE FALSE
  OBVIOUS
<1>2. PICK m \in T : \A y \in T : m <= y
  BY <1>1, LeastNat
<1>3. CASE m = 0
  <2> DEFINE g == [k \in 0..0 |-> st[s].deps]
  <2>1. \A k \in 0..0 : k = 0
    OBVIOUS
  <2>2. g = [k \in 0..0 |-> IF k = 0 THEN st[s].deps ELSE g[k - 1] \cup Beyond(st, fm, g[k - 1])]
    BY <2>1
  <2> HIDE DEF g
  <2> QED  BY <1>2, <1>3, <2>2 DEF IsWalk
<1>4. CASE m # 0
  <2>1. m - 1 \in Nat /\ m - 1 \notin T
    BY <1>2, <1>4
  <2>2. PICK g : IsWalk(g, st, fm, s, m - 1)
    BY <2>1
  <2> DEFINE h == [k \in 0..m |-> IF k = m THEN g[m - 1] \cup Beyond(st, fm, g[m - 1]) ELSE g[k]]
  <2>3. \A k \in 0..(m - 1) :
           g[k] = IF k = 0 THEN st[s].deps ELSE g[k - 1] \cup Beyond(st, fm, g[k - 1])
    BY <2>2 DEF IsWalk
  <2>4. ASSUME NEW k \in 0..m
        PROVE  h[k] = IF k = 0 THEN st[s].deps ELSE h[k - 1] \cup Beyond(st, fm, h[k - 1])
    <3>1. CASE k = m
      <4>1. h[k - 1] = g[m - 1] /\ k # 0
        BY <1>2, <1>4, <3>1
      <4> QED  BY <3>1, <4>1
    <3>2. CASE k # m
      <4>1. k \in 0..(m - 1) /\ h[k] = g[k]
        BY <1>2, <3>2
      <4>2. k # 0 => h[k - 1] = g[k - 1]
        BY <1>2, <4>1
      <4> QED  BY <2>3, <4>1, <4>2
    <3> QED  BY <3>1, <3>2
  <2>5. h = [k \in 0..m |-> IF k = 0 THEN st[s].deps ELSE h[k - 1] \cup Beyond(st, fm, h[k - 1])]
    BY <2>4
  <2> HIDE DEF h
  <2>6. IsWalk(h, st, fm, s, m)
    BY <2>5 DEF IsWalk
  <2> QED  BY <1>2, <2>6
<1> QED  BY <1>3, <1>4

\* The equations of the search.
LEMMA WalkIs ==
    ASSUME NEW st, NEW fm, NEW s, NEW n \in Nat
    PROVE  /\ Walk(st, fm, s, n)[0] = st[s].deps
           /\ \A k \in 0..(n - 1) :
                 Walk(st, fm, s, n)[k + 1] =
                     Walk(st, fm, s, n)[k] \cup Beyond(st, fm, Walk(st, fm, s, n)[k])
<1> DEFINE f == Walk(st, fm, s, n)
<1>1. IsWalk(f, st, fm, s, n)
  BY WalkExists DEF Walk
<1> HIDE DEF f
<1>2. \A k \in 0..n : f[k] = IF k = 0 THEN st[s].deps ELSE f[k - 1] \cup Beyond(st, fm, f[k - 1])
  BY <1>1 DEF IsWalk
<1>3. f[0] = st[s].deps
  <2>1. 0 \in 0..n
    OBVIOUS
  <2> QED  BY <1>2, <2>1
<1>4. ASSUME NEW k \in 0..(n - 1) PROVE f[k + 1] = f[k] \cup Beyond(st, fm, f[k])
  <2>1. k + 1 \in 0..n /\ k + 1 # 0 /\ (k + 1) - 1 = k
    OBVIOUS
  <2> QED  BY <1>2, <2>1
<1> QED  BY <1>3, <1>4 DEF f

\* The turns of the search never leave the graph, and keep the direct inputs.
LEMMA WalkBounds ==
    ASSUME NEW st, NEW fm, NEW n \in Nat, NEW s \in DOMAIN st,
           \A q \in DOMAIN st : st[q].deps \subseteq DOMAIN st
    PROVE  \A k \in 0..n : /\ Walk(st, fm, s, n)[k] \subseteq DOMAIN st
                           /\ st[s].deps \subseteq Walk(st, fm, s, n)[k]
<1> DEFINE f == Walk(st, fm, s, n)
           Good(k) == f[k] \subseteq DOMAIN st /\ st[s].deps \subseteq f[k]
           T == {k \in 0..n : ~Good(k)}
<1>1. f[0] = st[s].deps /\ \A k \in 0..(n - 1) : f[k + 1] = f[k] \cup Beyond(st, fm, f[k])
  BY WalkIs
<1> HIDE DEF f
<1>2. SUFFICES ASSUME T # {} PROVE FALSE
  BY DEF f
<1>3. PICK k \in T : \A y \in T : k <= y
  <2>1. T \subseteq Nat
    OBVIOUS
  <2> QED  BY <1>2, <2>1, LeastNat
<1>4. k \in 0..n /\ ~Good(k)
  BY <1>3
<1>5. k # 0
  BY <1>1, <1>4
<1>6. k - 1 \in 0..(n - 1) /\ k - 1 \in 0..n /\ (k - 1) + 1 = k /\ ~(k <= k - 1)
  BY <1>4, <1>5
<1>7. Good(k - 1)
  BY <1>3, <1>6
<1>8. f[k] = f[k - 1] \cup Beyond(st, fm, f[k - 1])
  BY <1>1, <1>6
<1>9. Beyond(st, fm, f[k - 1]) \subseteq DOMAIN st
  BY <1>7 DEF Beyond
<1> QED  BY <1>4, <1>7, <1>8, <1>9

\* What the search reaches from s is an input of s, or is reached from an input
\* of s that has no fields.
LEMMA WalkFromInputs ==
    ASSUME NEW st, NEW fm, NEW n \in Nat, NEW s \in DOMAIN st,
           \A q \in DOMAIN st : st[q].deps \subseteq DOMAIN st
    PROVE  \A k \in 0..(n - 1) : \A x \in Walk(st, fm, s, n)[k + 1] :
              \/ x \in st[s].deps
              \/ \E d \in st[s].deps : fm[d] = {} /\ x \in Walk(st, fm, d, n)[k]
<1> DEFINE w(d) == Walk(st, fm, d, n)
           In(k, x) == \/ x \in st[s].deps
                       \/ \E d \in st[s].deps : fm[d] = {} /\ x \in w(d)[k]
           Good(k) == \A x \in w(s)[k + 1] : In(k, x)
           T == {k \in 0..(n - 1) : ~Good(k)}
<1>1. \A d : /\ w(d)[0] = st[d].deps
             /\ \A k \in 0..(n - 1) : w(d)[k + 1] = w(d)[k] \cup Beyond(st, fm, w(d)[k])
  BY WalkIs
<1>2. \A d \in DOMAIN st : \A k \in 0..n : st[d].deps \subseteq w(d)[k]
  BY WalkBounds
<1> HIDE DEF w
<1>3. SUFFICES ASSUME T # {} PROVE FALSE
  BY DEF w
<1>4. PICK k \in T : \A y \in T : k <= y
  <2>1. T \subseteq Nat
    OBVIOUS
  <2> QED  BY <1>3, <2>1, LeastNat
<1>5. k \in 0..(n - 1) /\ k \in 0..n
  BY <1>4
<1>6. PICK x \in w(s)[k + 1] : ~In(k, x)
  BY <1>4
<1>7. w(s)[k + 1] = w(s)[k] \cup Beyond(st, fm, w(s)[k])
  BY <1>1, <1>5
<1>8. \A y \in w(s)[k] : \/ y \in st[s].deps
                         \/ k # 0 /\ \E d \in st[s].deps : fm[d] = {} /\ y \in w(d)[k - 1]
  <2>1. CASE k = 0
    BY <1>1, <2>1
  <2>2. CASE k # 0
    <3>1. k - 1 \in 0..(n - 1) /\ (k - 1) + 1 = k /\ ~(k <= k - 1)
      BY <1>5, <2>2
    <3>2. Good(k - 1)
      BY <1>4, <3>1
    <3>3. \A y \in w(s)[k] : In(k - 1, y)
      BY <3>1, <3>2
    <3> QED  BY <2>2, <3>3
  <2> QED  BY <2>1, <2>2
<1>9. ASSUME k # 0, NEW d PROVE w(d)[k] = w(d)[k - 1] \cup Beyond(st, fm, w(d)[k - 1])
  <2>1. k - 1 \in 0..(n - 1) /\ (k - 1) + 1 = k
    BY <1>5, <1>9
  <2> QED  BY <1>1, <2>1
<1>10. CASE x \in w(s)[k]
  BY <1>6, <1>8, <1>9, <1>10
<1>11. CASE x \in Beyond(st, fm, w(s)[k])
  <2>1. PICK e \in w(s)[k] : fm[e] = {} /\ x \in st[e].deps
    BY <1>11 DEF Beyond
  <2>2. CASE e \in st[s].deps
    <3>1. e \in DOMAIN st
      BY <2>2
    <3>2. x \in w(e)[k]
      BY <1>2, <1>5, <2>1, <3>1
    <3> QED  BY <1>6, <2>1, <2>2, <3>2
  <2>3. CASE k # 0 /\ \E d \in st[s].deps : fm[d] = {} /\ e \in w(d)[k - 1]
    <3>1. PICK d \in st[s].deps : fm[d] = {} /\ e \in w(d)[k - 1]
      BY <2>3
    <3>2. x \in Beyond(st, fm, w(d)[k - 1])
      BY <2>1, <3>1 DEF Beyond
    <3>3. x \in w(d)[k]
      BY <1>9, <2>3, <3>2
    <3> QED  BY <1>6, <3>1, <3>3
  <2> QED  BY <1>8, <2>1, <2>2, <2>3
<1> QED  BY <1>6, <1>7, <1>10, <1>11

\* The search does not see the user's answers: graphs with the same inputs are
\* searched alike.
LEMMA WalkSame ==
    ASSUME NEW st, NEW su, NEW fm, NEW n \in Nat, NEW s \in DOMAIN st, DOMAIN su = DOMAIN st,
           \A q \in DOMAIN st : st[q].deps \subseteq DOMAIN st /\ su[q].deps = st[q].deps
    PROVE  \A k \in 0..n : Walk(su, fm, s, n)[k] = Walk(st, fm, s, n)[k]
<1> DEFINE f == Walk(st, fm, s, n)
           g == Walk(su, fm, s, n)
           T == {k \in 0..n : g[k] # f[k]}
<1>1. f[0] = st[s].deps /\ \A k \in 0..(n - 1) : f[k + 1] = f[k] \cup Beyond(st, fm, f[k])
  BY WalkIs
<1>2. g[0] = su[s].deps /\ \A k \in 0..(n - 1) : g[k + 1] = g[k] \cup Beyond(su, fm, g[k])
  BY WalkIs
<1>3. \A k \in 0..n : f[k] \subseteq DOMAIN st
  BY WalkBounds
<1> HIDE DEF f, g
<1>4. SUFFICES ASSUME T # {} PROVE FALSE
  BY DEF f, g
<1>5. PICK k \in T : \A y \in T : k <= y
  <2>1. T \subseteq Nat
    OBVIOUS
  <2> QED  BY <1>4, <2>1, LeastNat
<1>6. k \in 0..n /\ g[k] # f[k]
  BY <1>5
<1>7. k # 0
  BY <1>1, <1>2, <1>6
<1>8. k - 1 \in 0..(n - 1) /\ k - 1 \in 0..n /\ (k - 1) + 1 = k /\ ~(k <= k - 1)
  BY <1>6, <1>7
<1>9. g[k - 1] = f[k - 1]
  BY <1>5, <1>8
<1>10. f[k] = f[k - 1] \cup Beyond(st, fm, f[k - 1]) /\ g[k] = g[k - 1] \cup Beyond(su, fm, g[k - 1])
  BY <1>1, <1>2, <1>8
<1>11. Beyond(su, fm, f[k - 1]) = Beyond(st, fm, f[k - 1])
  <2>1. f[k - 1] \subseteq DOMAIN st
    BY <1>3, <1>8
  <2>2. \A d \in f[k - 1] : su[d].deps = st[d].deps
    BY <2>1
  <2> QED  BY <2>2 DEF Beyond
<1> QED  BY <1>6, <1>9, <1>10, <1>11


-----------------------------------------------------------------------------
(* The invariant for the columns of a write.                               *)

WriteFields == {"table", "parsed", "mode", "keys", "columns", "static", "upstream", "aliases",
                "added", "optional", "resolved"}

\* The check found a source for the column, and what it found is still there.
Covered(s, c) ==
    \/ c \in DOMAIN payload[s].static
    \/ c \in getUpstreamFields(s)
    \/ c \in DOMAIN payload[s].aliases /\ payload[s].aliases[c] \in getUpstreamFields(s)

PayloadsOK ==
    /\ \A s \in Writes : s < next => DOMAIN payload[s] = WriteFields
    /\ \A s \in Steps : s < next /\ Kind(s) = "http" => fieldMap[s] # {}

SourcesOK ==
    phase \notin {"enrich", "check", "failed", "unresolvable"} =>
        \A s \in Writes \ waived : \A c \in payload[s].columns : Covered(s, c)

\* A step without fields of its own passes on what the search finds behind it.
PassedOn ==
    \A s \in ran \ lossy : fieldMap[s] = {} => \A r \in rows[s] : getUpstreamFields(s) \subseteq r

\* The body of ColumnsFilled.
Fills(a) ==
    LET p == payload[a.step]
        nulls == {c \in DOMAIN p.static : p.static[c].k = "null"}
    IN  (a.step \notin waived /\ a.input # {} /\ ~Lossy(a.step, FALSE))
            => p.columns \subseteq a.given \cup nulls

InsertsOK ==
    /\ phase \notin {"ready", "error"} => inserts = {}
    /\ \A a \in inserts : a.step \in Writes /\ Deps(a.step) \subseteq ran /\ Fills(a)

CInv == PayloadsOK /\ SourcesOK /\ PassedOn /\ InsertsOK

LEMMA InitCInv == Init => CInv
<1> SUFFICES ASSUME Init PROVE CInv
  OBVIOUS
<1>1. \A s \in Steps : ~(s < next)
  <2>1. Steps \subseteq Nat \ {0} /\ next = 1
    BY InitFInv DEF Init, FInv, StepsOK
  <2> QED  BY <2>1
<1>2. PayloadsOK
  BY <1>1 DEF PayloadsOK, Writes
<1>3. SourcesOK /\ PassedOn /\ InsertsOK
  BY DEF Init, SourcesOK, PassedOn, InsertsOK
<1> QED  BY <1>2, <1>3 DEF CInv

\* The search, by its turns.
LEMMA ReachedIsWalk ==
    ASSUME NEW s
    PROVE  /\ Reached(s) = Walk(steps, fieldMap, s, Len(steps))[Len(steps)]
           /\ Reached(s)' = Walk(steps', fieldMap', s, Len(steps'))[Len(steps')]
BY DEF Reached, Walk, IsWalk, Beyond, Deps

LEMMA ReachedSplit ==
    ASSUME StepsOK, NEW s \in Steps, NEW x \in Reached(s)
    PROVE  x \in Deps(s) \/ \E d \in Deps(s) : fieldMap[d] = {} /\ x \in Reached(d)
<1>1. PICK n \in Nat : n = Len(steps) /\ Steps = 1..n
  BY DEF StepsOK
<1>2. n - 1 \in 0..(n - 1) /\ (n - 1) + 1 = n
  BY <1>1
<1>3. s \in DOMAIN steps /\ \A q \in DOMAIN steps : steps[q].deps \subseteq DOMAIN steps
  BY DEF StepsOK, Steps, Deps
<1>4. x \in Walk(steps, fieldMap, s, n)[(n - 1) + 1]
  BY <1>1, <1>2, ReachedIsWalk
<1>5. \/ x \in steps[s].deps
      \/ \E d \in steps[s].deps : fieldMap[d] = {} /\ x \in Walk(steps, fieldMap, d, n)[n - 1]
  <2>1. \A k \in 0..(n - 1) : \A y \in Walk(steps, fieldMap, s, n)[k + 1] :
           \/ y \in steps[s].deps
           \/ \E d \in steps[s].deps : fieldMap[d] = {} /\ y \in Walk(steps, fieldMap, d, n)[k]
    BY <1>3, WalkFromInputs
  <2> QED  BY <1>2, <1>4, <2>1
<1>6. ASSUME NEW d \in steps[s].deps, x \in Walk(steps, fieldMap, d, n)[n - 1]
      PROVE  x \in Reached(d)
  <2>1. Walk(steps, fieldMap, d, n)[n] =
           Walk(steps, fieldMap, d, n)[n - 1] \cup Beyond(steps, fieldMap, Walk(steps, fieldMap, d, n)[n - 1])
    BY <1>1, <1>2, WalkIs
  <2> QED  BY <1>1, <1>6, <2>1, ReachedIsWalk
<1> QED  BY <1>5, <1>6 DEF Deps

\* A row that holds a row of every input has what the search finds.
LEMMA CoverPasses ==
    ASSUME FInv, PassedOn, NEW s \in Steps, Deps(s) \subseteq ran, Deps(s) \cap lossy = {},
           NEW r, \A d \in Deps(s) : \E q \in rows[d] : q \subseteq r
    PROVE  getUpstreamFields(s) \subseteq r
<1>1. SUFFICES ASSUME NEW e \in Reached(s) PROVE fieldMap[e] \subseteq r
  BY DEF getUpstreamFields
<1>2. CASE e \in Deps(s)
  <2>1. PICK q \in rows[e] : q \subseteq r
    BY <1>2
  <2>2. fieldMap[e] \subseteq q
    BY <1>2 DEF FInv, PromisesKept
  <2> QED  BY <2>1, <2>2
<1>3. ASSUME NEW d \in Deps(s), fieldMap[d] = {}, e \in Reached(d) PROVE fieldMap[e] \subseteq r
  <2>1. PICK q \in rows[d] : q \subseteq r
    OBVIOUS
  <2>2. getUpstreamFields(d) \subseteq q
    BY <1>3 DEF PassedOn
  <2>3. fieldMap[e] \subseteq getUpstreamFields(d)
    BY <1>3 DEF getUpstreamFields
  <2> QED  BY <2>1, <2>2, <2>3
<1> QED  BY <1>2, <1>3, ReachedSplit DEF FInv

LEMMA InputsPass ==
    ASSUME FInv, PassedOn, NEW s \in Steps, NEW own, NEW in \in Inputs(s), NEW r \in in,
           Deps(s) \subseteq ran, ~Lossy(s, own)
    PROVE  getUpstreamFields(s) \subseteq r
<1>1. IsFiniteSet(Deps(s))
  BY DEF FInv, StepsOK
<1>2. \A d \in Deps(s) : \E q \in rows[d] : q \subseteq r
  BY <1>1, InputsCover
<1>3. Deps(s) \cap lossy = {}
  BY DEF Lossy
<1> QED  BY <1>2, <1>3, CoverPasses

-----------------------------------------------------------------------------
(* The enrichment.                                                         *)

LEMMA EnrichColumns ==
    ASSUME FInv, CInv, NEW s \in Steps, NEW F, phase = "enrich", next = s, next' = next + 1,
           phase' \in {"enrich", "check"}, steps' = steps,
           fieldMap' = [fieldMap EXCEPT ![s] = F], Kind(s) = "http" => F # {},
           ran' = ran, inserts' = inserts,
           \A w \in Writes \ {s} : payload'[w] = payload[w],
           Kind(s) = "write" => DOMAIN payload'[s] = WriteFields
    PROVE  CInv'
<1>1. Steps' = Steps /\ Writes' = Writes /\ \A q : Kind(q)' = Kind(q)
  BY DEF Steps, Writes, Kind
<1>2. Steps \subseteq Nat /\ DOMAIN fieldMap = Steps
  BY DEF FInv, StepsOK, PlanOK
<1>3. \A q \in Steps : q < next' => q < next \/ q = s
  BY <1>2
<1>4. ASSUME NEW w \in Writes, w < next' PROVE DOMAIN payload'[w] = WriteFields
  <2>1. CASE w = s
    BY <2>1 DEF Writes
  <2>2. CASE w # s
    BY <1>3, <1>4, <2>2 DEF CInv, PayloadsOK, Writes
  <2> QED  BY <2>1, <2>2
<1>5. ASSUME NEW q \in Steps, q < next', Kind(q) = "http" PROVE fieldMap'[q] # {}
  <2>1. CASE q = s
    BY <1>2, <1>5, <2>1
  <2>2. CASE q # s
    <3>1. fieldMap'[q] = fieldMap[q]
      BY <1>2, <2>2
    <3> QED  BY <1>3, <1>5, <2>2, <3>1 DEF CInv, PayloadsOK
  <2> QED  BY <2>1, <2>2
<1>6. PayloadsOK'
  BY <1>1, <1>4, <1>5 DEF PayloadsOK
<1>7. SourcesOK'
  BY DEF SourcesOK
<1>8. ran' = {} /\ inserts' = {}
  BY DEF FInv, RunOK, CInv, InsertsOK
<1>9. PassedOn' /\ InsertsOK'
  BY <1>8 DEF PassedOn, InsertsOK
<1> QED  BY <1>6, <1>7, <1>9 DEF CInv

LEMMA EnrichedColumns ==
    ASSUME FInv, CInv, NEW s \in Steps, NEW p, NEW F, phase = "enrich", next = s, Enriched(s, p, F),
           Kind(s) = "http" => F # {}, Kind(s) # "write"
    PROVE  CInv'
<1>1. DOMAIN payload = Steps
  BY DEF FInv, PlanOK
<1>2. \A w \in Writes \ {s} : payload'[w] = payload[w]
  BY <1>1 DEF Enriched, Writes
<1>3. /\ next' = next + 1 /\ phase' \in {"enrich", "check"} /\ steps' = steps
      /\ fieldMap' = [fieldMap EXCEPT ![s] = F] /\ ran' = ran /\ inserts' = inserts
  BY DEF Enriched, running
<1> QED  BY <1>2, <1>3, EnrichColumns

LEMMA FailedColumns ==
    ASSUME FInv, CInv, phase = "enrich", phase' = "failed",
           UNCHANGED <<steps, next, fieldMap, payload, said, missing>>, UNCHANGED running
    PROVE  CInv'
<1>1. Steps' = Steps /\ Writes' = Writes /\ \A q : Kind(q)' = Kind(q)
  BY DEF Steps, Writes, Kind
<1>2. PayloadsOK' /\ SourcesOK'
  BY <1>1 DEF CInv, PayloadsOK, SourcesOK
<1>3. ran' = {} /\ inserts' = {}
  BY DEF FInv, RunOK, CInv, InsertsOK, running
<1>4. PassedOn' /\ InsertsOK'
  BY <1>3 DEF PassedOn, InsertsOK
<1> QED  BY <1>2, <1>4 DEF CInv

\* Both forms of a write's payload have the same fields.
LEMMA PayloadShape ==
    ASSUME NEW config, NEW answer, NEW columns, NEW queries, NEW upstream, NEW available
    PROVE  /\ DOMAIN EnrichedPayload(config, answer, columns, queries, upstream) = WriteFields
           /\ DOMAIN FallbackPayload(config, available, queries) = WriteFields
BY DEF EnrichedPayload, PayloadOf, FallbackPayload, WriteFields

LEMMA EnrichStepColumns ==
    ASSUME FInv, CInv, NEW s \in Steps, EnrichStep(s)
    PROVE  CInv'
<1>1. CASE EnrichQuery(s)
  <2>1. phase = "enrich" /\ next = s /\ Kind(s) = "query"
    BY <1>1 DEF EnrichQuery, Turn
  <2>2. \/ \E p, F : Enriched(s, p, F)
        \/ /\ phase' = "failed"
           /\ UNCHANGED <<steps, next, fieldMap, payload, said, missing>>
           /\ UNCHANGED running
    BY <1>1 DEF EnrichQuery
  <2> QED  BY <2>1, <2>2, EnrichedColumns, FailedColumns
<1>2. CASE EnrichTransform(s)
  <2>1. phase = "enrich" /\ next = s /\ Kind(s) = "transform"
    BY <1>2 DEF EnrichTransform, Turn
  <2>2. \E p, F : Enriched(s, p, F)
    BY <1>2 DEF EnrichTransform
  <2> QED  BY <2>1, <2>2, EnrichedColumns
<1>3. CASE EnrichStructural(s)
  <2>1. phase = "enrich" /\ next = s /\ Kind(s) \in {"llm", "merge"}
    BY <1>3 DEF EnrichStructural, Turn
  <2>2. \E p, F : Enriched(s, p, F)
    BY <1>3 DEF EnrichStructural
  <2> QED  BY <2>1, <2>2, EnrichedColumns
<1>4. CASE EnrichHttp(s)
  <2>1. phase = "enrich" /\ next = s /\ Kind(s) = "http"
    BY <1>4 DEF EnrichHttp, Turn
  <2>2. PICK p, R : Enriched(s, p, R \cup {"http_status"})
    BY <1>4 DEF EnrichHttp
  <2>3. R \cup {"http_status"} # {}
    OBVIOUS
  <2> QED  BY <2>1, <2>2, <2>3, EnrichedColumns
<1>5. CASE EnrichWrite(s)
  <2>1. phase = "enrich" /\ next = s /\ Kind(s) = "write"
    BY <1>5 DEF EnrichWrite, Turn
  <2>2. PICK p : /\ DOMAIN p = WriteFields
                 /\ payload' = [q \in Steps |->
                       IF q = s THEN p
                       ELSE IF Kind(q) = "query"
                       THEN [payload[q] EXCEPT !.columns =
                               @ \cup p.added[CHOOSE i \in DOMAIN QuerySteps : QuerySteps[i] = q]]
                       ELSE payload[q]]
    <3>1. PICK answer \in WriteAnswers :
             \E p \in {IF answer.parsed
                       THEN EnrichedPayload(steps[s].config, answer,
                                WriteColumns(steps[s].config, answer, getAvailableFields(s)),
                                Queries, getUpstreamTablesTransitive(s))
                       ELSE FallbackPayload(steps[s].config, getAvailableFields(s), Queries)} :
                payload' = [q \in Steps |->
                       IF q = s THEN p
                       ELSE IF Kind(q) = "query"
                       THEN [payload[q] EXCEPT !.columns =
                               @ \cup p.added[CHOOSE i \in DOMAIN QuerySteps : QuerySteps[i] = q]]
                       ELSE payload[q]]
      BY <1>5 DEF EnrichWrite
    <3>2. ASSUME NEW p \in {IF answer.parsed
                            THEN EnrichedPayload(steps[s].config, answer,
                                     WriteColumns(steps[s].config, answer, getAvailableFields(s)),
                                     Queries, getUpstreamTablesTransitive(s))
                            ELSE FallbackPayload(steps[s].config, getAvailableFields(s), Queries)}
          PROVE  DOMAIN p = WriteFields
      BY PayloadShape
    <3> QED  BY <3>1, <3>2
  <2>3. payload'[s] = p /\ \A w \in Writes \ {s} : payload'[w] = payload[w]
    BY <2>2 DEF Writes
  <2>4. /\ next' = next + 1 /\ phase' \in {"enrich", "check"} /\ steps' = steps
        /\ fieldMap' = [fieldMap EXCEPT ![s] = getAvailableFields(s)]
        /\ ran' = ran /\ inserts' = inserts
    BY <1>5, <2>1 DEF EnrichWrite, running
  <2> QED  BY <2>1, <2>2, <2>3, <2>4, EnrichColumns
<1> QED  BY <1>1, <1>2, <1>3, <1>4, <1>5 DEF EnrichStep


-----------------------------------------------------------------------------
(* The checks and the forms.                                               *)

\* What the user answers does not change what the search finds.
LEMMA UpstreamSame ==
    ASSUME FInv, PlanEffect, NEW s \in Steps
    PROVE  getUpstreamFields(s)' = getUpstreamFields(s)
<1>1. PICK n \in Nat : n = Len(steps) /\ n = Len(steps')
  BY DEF FInv, StepsOK, PlanEffect
<1>2. /\ s \in DOMAIN steps /\ DOMAIN steps' = DOMAIN steps
      /\ \A q \in DOMAIN steps : steps[q].deps \subseteq DOMAIN steps /\ steps'[q].deps = steps[q].deps
  BY DEF FInv, StepsOK, PlanEffect, Steps, Deps
<1>3. fieldMap' = fieldMap
  BY DEF PlanEffect
<1>4. PICK T, U : T = steps /\ U = steps'
  OBVIOUS
<1>5. \A k \in 0..n : Walk(U, fieldMap, s, n)[k] = Walk(T, fieldMap, s, n)[k]
  BY <1>2, <1>4, WalkSame
<1>6. n \in 0..n
  OBVIOUS
<1>7. Reached(s) = Walk(T, fieldMap, s, n)[n] /\ Reached(s)' = Walk(U, fieldMap, s, n)[n]
  BY <1>1, <1>3, <1>4, ReachedIsWalk
<1>8. Reached(s)' = Reached(s)
  BY <1>5, <1>6, <1>7
<1> QED  BY <1>3, <1>8 DEF getUpstreamFields

LEMMA PlanColumns ==
    ASSUME FInv, CInv, PlanEffect, inserts' = inserts,
           \A w \in Writes : DOMAIN payload'[w] = WriteFields,
           phase' \notin {"enrich", "check", "failed", "unresolvable"} =>
               \A w \in Writes \ waived' : \A c \in payload'[w].columns : Covered(w, c)'
    PROVE  CInv'
<1>1. Steps' = Steps /\ \A q \in Steps : Kind(q)' = Kind(q) /\ Deps(q)' = Deps(q)
  BY DEF PlanEffect, Steps, Kind, Deps
<1>2. Writes' = Writes
  BY <1>1 DEF Writes
<1>3. PayloadsOK'
  BY <1>1, <1>2 DEF PayloadsOK, CInv, PlanEffect
<1>4. SourcesOK'
  BY <1>2 DEF SourcesOK
<1>5. ran' = {} /\ inserts' = {}
  BY DEF FInv, RunOK, CInv, InsertsOK, PlanEffect
<1>6. PassedOn' /\ InsertsOK'
  BY <1>5 DEF PassedOn, InsertsOK
<1> QED  BY <1>3, <1>4, <1>6 DEF CInv

\* The payload of w is as it was, or has more static values.
Grown(w) ==
    \/ payload'[w] = payload[w]
    \/ \E v : DOMAIN payload[w].static \subseteq DOMAIN v /\ payload'[w] = [payload[w] EXCEPT !.static = v]

LEMMA FormColumns ==
    ASSUME FInv, CInv, PlanEffect, phase # "check", inserts' = inserts, \A w \in Writes : Grown(w),
           waived \subseteq waived' , phase = "unresolvable" => Writes \subseteq waived'
    PROVE  CInv'
<1>1. phase \notin {"enrich", "failed", "check"} /\ \A w \in Writes : w \in Steps /\ w < next
  BY DEF PlanEffect, FInv, PlanOK, Writes
<1>2. \A w \in Writes : DOMAIN payload[w] = WriteFields
  BY <1>1 DEF CInv, PayloadsOK
<1>3. ASSUME NEW w \in Writes
      PROVE  /\ DOMAIN payload'[w] = WriteFields
             /\ payload'[w].columns = payload[w].columns /\ payload'[w].aliases = payload[w].aliases
             /\ DOMAIN payload[w].static \subseteq DOMAIN payload'[w].static
  BY <1>2 DEF Grown, WriteFields
<1>4. ASSUME phase' \notin {"enrich", "check", "failed", "unresolvable"},
             NEW w \in Writes \ waived', NEW c \in payload'[w].columns
      PROVE  Covered(w, c)'
  <2>1. phase # "unresolvable" /\ w \notin waived
    BY <1>4
  <2>2. Covered(w, c)
    BY <1>1, <1>3, <2>1 DEF CInv, SourcesOK
  <2>3. getUpstreamFields(w)' = getUpstreamFields(w)
    BY <1>1, UpstreamSame
  <2> QED  BY <1>3, <2>2, <2>3 DEF Covered
<1> QED  BY <1>3, <1>4, PlanColumns

\* A column with a source has it in the payload that the check leaves.
LEMMA RemappedCovers ==
    ASSUME NEW s, NEW c \in payload[s].columns, Source(s, c) # "none", DOMAIN payload[s] = WriteFields
    PROVE  LET p == Remapped(s)
           IN  \/ c \in DOMAIN p.static
               \/ c \in getUpstreamFields(s)
               \/ c \in DOMAIN p.aliases /\ p.aliases[c] \in getUpstreamFields(s)
<1> DEFINE p == payload[s]
           U == getUpstreamFields(s)
           key(d) == resolveWriteColumnSource(p.table, d, p.upstream, SchemaFKs, U)
           keyed == {d \in p.columns : Source(s, d) = "key"}
           q == Remapped(s)
           over == [d \in keyed |-> key(d)]
<1>1. q = [p EXCEPT !.aliases = Over(over, @)]
  BY DEF Remapped
<1>2. q.static = p.static /\ q.aliases = Over(over, p.aliases)
  BY <1>1 DEF WriteFields
<1>3. /\ DOMAIN q.aliases = keyed \cup DOMAIN p.aliases
      /\ \A d \in keyed : q.aliases[d] = key(d)
      /\ \A d \in DOMAIN p.aliases \ keyed : q.aliases[d] = p.aliases[d]
  BY <1>2 DEF Over
<1>4. /\ Source(s, c) = "static" => c \in DOMAIN p.static
      /\ Source(s, c) = "field" => c \in U
      /\ Source(s, c) = "key" => key(c) \in U
      /\ Source(s, c) = "alias" => c \in DOMAIN p.aliases /\ p.aliases[c] \in U
      /\ Source(s, c) \in {"static", "field", "key", "alias", "none"}
  BY DEF Source
<1>5. CASE Source(s, c) = "static"
  BY <1>2, <1>4, <1>5
<1>6. CASE Source(s, c) = "field"
  BY <1>4, <1>6
<1>7. CASE Source(s, c) = "key"
  <2>1. c \in keyed
    BY <1>7
  <2> QED  BY <1>3, <1>4, <1>7, <2>1
<1>8. CASE Source(s, c) = "alias"
  <2>1. c \notin keyed
    BY <1>8
  <2> QED  BY <1>3, <1>4, <1>8, <2>1
<1> QED  BY <1>4, <1>5, <1>6, <1>7, <1>8

LEMMA CheckColumns ==
    ASSUME FInv, CInv, Check
    PROVE  CInv'
<1>1. PlanEffect
  BY CheckKeeps
<1>2. /\ phase = "check" /\ inserts' = inserts
      /\ payload' = [s \in Steps |-> IF s \in Writes THEN Remapped(s) ELSE payload[s]]
      /\ phase' \notin {"failed", "unresolvable"} => \A s \in Writes : Unresolvable(s) = {}
  BY DEF Check, running
<1>3. \A w \in Writes : w \in Steps /\ DOMAIN payload[w] = WriteFields /\ payload'[w] = Remapped(w)
  <2>1. \A w \in Writes : w \in Steps /\ w < next
    BY <1>2 DEF FInv, PlanOK, Writes
  <2> QED  BY <1>2, <2>1 DEF CInv, PayloadsOK
<1>4. \A w \in Writes : DOMAIN payload'[w] = WriteFields /\ payload'[w].columns = payload[w].columns
  BY <1>3 DEF Remapped, WriteFields
<1>5. ASSUME phase' \notin {"failed", "unresolvable"}, NEW w \in Writes, NEW c \in payload'[w].columns
      PROVE  Covered(w, c)'
  <2>1. c \in payload[w].columns /\ Source(w, c) # "none"
    BY <1>2, <1>4, <1>5 DEF Unresolvable
  <2>2. \/ c \in DOMAIN Remapped(w).static
        \/ c \in getUpstreamFields(w)
        \/ c \in DOMAIN Remapped(w).aliases /\ Remapped(w).aliases[c] \in getUpstreamFields(w)
    BY <1>3, <2>1, RemappedCovers
  <2>3. getUpstreamFields(w)' = getUpstreamFields(w)
    BY <1>1, <1>3, UpstreamSame
  <2> QED  BY <1>3, <2>2, <2>3 DEF Covered
<1> QED  BY <1>1, <1>2, <1>4, <1>5, PlanColumns

\* Values laid over others.
LEMMA OverGrows ==
    ASSUME NEW f, NEW g
    PROVE  DOMAIN g \subseteq DOMAIN Over(f, g)
BY DEF Over

LEMMA FormsColumns ==
    ASSUME FInv, CInv, SkipForm \/ FillForm \/ FillUnresolvable
    PROVE  CInv'
<1>1. PlanEffect
  BY SkipFormKeeps, FillFormKeeps, FillUnresolvableKeeps
<1>2. /\ phase \in {"incomplete", "unresolvable"} /\ inserts' = inserts /\ phase # "check"
  BY DEF SkipForm, FillForm, FillUnresolvable, Unread
<1>3. DOMAIN payload = Steps /\ missing.step \in Steps /\ Writes \subseteq Steps
  BY <1>2 DEF FInv, PlanOK, Writes
<1>4. \/ payload' = payload
      \/ \E f : payload' = [payload EXCEPT ![missing.step] =
                               [payload[missing.step] EXCEPT !.static = Over(f, payload[missing.step].static)]]
  <2>1. CASE SkipForm
    BY <2>1 DEF SkipForm
  <2>2. CASE FillForm
    BY <2>2 DEF FillForm, WithValues
  <2>3. CASE FillUnresolvable
    BY <2>3 DEF FillUnresolvable, WithValues
  <2> QED  BY <2>1, <2>2, <2>3
<1>5. \A w \in Writes : Grown(w)
  <2>1. CASE payload' = payload
    BY <2>1 DEF Grown
  <2>2. ASSUME NEW f, payload' = [payload EXCEPT ![missing.step] =
                    [payload[missing.step] EXCEPT !.static = Over(f, payload[missing.step].static)]],
               NEW w \in Writes
        PROVE  Grown(w)
    <3>1. CASE w = missing.step
      <4>1. payload'[w] = [payload[w] EXCEPT !.static = Over(f, payload[w].static)]
        BY <1>3, <2>2, <3>1
      <4> QED  BY <4>1, OverGrows DEF Grown
    <3>2. CASE w # missing.step
      BY <1>3, <2>2, <3>2 DEF Grown
    <3> QED  BY <3>1, <3>2
  <2> QED  BY <1>4, <2>1, <2>2
<1>6. CASE SkipForm \/ FillForm
  <2>1. phase = "incomplete" /\ waived \subseteq waived'
    BY <1>6 DEF SkipForm, FillForm
  <2> QED  BY <1>1, <1>2, <1>5, <2>1, FormColumns
<1>7. CASE FillUnresolvable
  <2>1. phase' = "optional" /\ waived' = Writes
    BY <1>7 DEF FillUnresolvable
  <2>2. \A w \in Writes : DOMAIN payload[w] = WriteFields
    BY <1>2 DEF FInv, PlanOK, CInv, PayloadsOK, Writes
  <2>3. \A w \in Writes : DOMAIN payload'[w] = WriteFields
    BY <1>5, <2>2 DEF Grown
  <2> QED  BY <1>1, <1>2, <2>1, <2>3, PlanColumns
<1> QED  BY <1>6, <1>7

LEMMA OfferColumns ==
    ASSUME FInv, CInv, OfferOptional
    PROVE  CInv'
<1>1. PlanEffect
  BY OfferOptionalKeeps
<1>2. phase = "optional" /\ inserts' = inserts /\ waived' = waived
  BY DEF OfferOptional, Unread
<1>3. ASSUME NEW w \in Writes PROVE Grown(w)
  <2>1. w \in Steps
    BY DEF Writes
  <2>2. \E f : payload'[w] = [payload[w] EXCEPT !.static = Over(f, payload[w].static)]
    BY <2>1 DEF OfferOptional, WithValues
  <2> QED  BY <2>2, OverGrows DEF Grown
<1> QED  BY <1>1, <1>2, <1>3, FormColumns

LEMMA LaunchColumns ==
    ASSUME FInv, CInv, ExecuteAsIs \/ Preflight
    PROVE  CInv'
<1>1. PlanEffect
  BY LaunchKeeps
<1>2. payload' = payload /\ inserts' = inserts /\ phase # "check"
  BY DEF ExecuteAsIs, Preflight, Unread
<1>3. \A w \in Writes : Grown(w)
  BY <1>2 DEF Grown
<1>4. CASE phase \in {"optional", "preflight"}
  <2>1. waived' = waived
    BY <1>4 DEF ExecuteAsIs, Preflight
  <2> QED  BY <1>1, <1>2, <1>3, <1>4, <2>1, FormColumns
<1>5. CASE phase \in {"incomplete", "unresolvable"}
  <2>1. waived' = Writes
    BY <1>5 DEF ExecuteAsIs, Preflight
  <2>2. \A w \in Writes : DOMAIN payload[w] = WriteFields
    BY <1>5 DEF FInv, PlanOK, CInv, PayloadsOK, Writes
  <2> QED  BY <1>1, <1>2, <2>1, <2>2, PlanColumns
<1> QED  BY <1>4, <1>5 DEF ExecuteAsIs, Preflight


-----------------------------------------------------------------------------
(* The run.                                                                *)

\* What stays while the plan and the inputs of s stay: the search, and whether
\* s lost anything.
LEMMA PlannedSame ==
    ASSUME UNCHANGED planned, NEW s
    PROVE  /\ getUpstreamFields(s)' = getUpstreamFields(s) /\ Deps(s)' = Deps(s)
           /\ Steps' = Steps /\ Writes' = Writes /\ \A q : Kind(q)' = Kind(q)
<1>1. steps' = steps /\ fieldMap' = fieldMap
  BY DEF planned
<1>2. Deps(s)' = Deps(s) /\ Steps' = Steps /\ Writes' = Writes /\ \A q : Kind(q)' = Kind(q)
  BY <1>1 DEF Deps, Steps, Writes, Kind
<1>3. Reached(s)' = Reached(s)
  BY <1>1, ReachedIsWalk
<1> QED  BY <1>1, <1>2, <1>3 DEF getUpstreamFields

\* A row that is to be inserted, at the time its statement is made.
GoodInsert(a) == a.step \in Writes /\ Deps(a.step) \subseteq ran /\ Fills(a)

LEMMA InsertStays ==
    ASSUME FInv, UNCHANGED planned, NEW a, GoodInsert(a), NEW s \in Steps \ ran,
           ran \subseteq ran', \A q \in Steps \ {s} : rows'[q] = rows[q] /\ (q \in lossy' <=> q \in lossy)
    PROVE  a.step \in Writes' /\ (Deps(a.step) \subseteq ran)' /\ Fills(a)'
<1>1. a.step \in Writes /\ a.step \in Steps /\ Deps(a.step) \subseteq ran /\ Fills(a)
  BY DEF GoodInsert, Writes
<1>2. Writes' = Writes /\ Deps(a.step)' = Deps(a.step)
  BY PlannedSame
<1>3. payload' = payload /\ waived' = waived
  BY DEF planned
<1>4. \A d \in Deps(a.step) : d \in Steps \ {s}
  BY <1>1 DEF FInv, StepsOK
<1>5. \A d \in Deps(a.step) : rows'[d] = rows[d] /\ (d \in lossy' <=> d \in lossy)
  BY <1>4
<1>6. Lossy(a.step, FALSE)' <=> Lossy(a.step, FALSE)
  BY <1>2, <1>5 DEF Lossy
<1>7. Fills(a)'
  BY <1>1, <1>3, <1>6 DEF Fills
<1> QED  BY <1>1, <1>2, <1>7

\* A step that runs: it delivers, or throws; a write adds what it inserts.
LEMMA RunColumns ==
    ASSUME FInv, CInv, phase = "ready", phase' \in {"ready", "error"}, UNCHANGED planned,
           NEW s \in Steps \ ran, NEW A, inserts' = inserts \cup A, \A a \in A : GoodInsert(a),
           \/ UNCHANGED <<rows, ran, lossy>>
           \/ \E out, own : /\ Delivered(s, out, own)
                            /\ ~Lossy(s, own) /\ fieldMap[s] = {} =>
                                   \A r \in out : getUpstreamFields(s) \subseteq r
    PROVE  CInv'
<1>1. Steps' = Steps /\ Writes' = Writes /\ \A q : Kind(q)' = Kind(q)
  BY PlannedSame
<1>2. next' = next /\ fieldMap' = fieldMap /\ payload' = payload /\ waived' = waived
  BY DEF planned
<1>3. \A q : getUpstreamFields(q)' = getUpstreamFields(q)
  BY PlannedSame
<1>4. PayloadsOK'
  BY <1>1, <1>2 DEF CInv, PayloadsOK
<1>5. SourcesOK'
  <2>1. \A q, c : Covered(q, c)' <=> Covered(q, c)
    BY <1>2, <1>3 DEF Covered
  <2>2. \A q \in Writes \ waived : \A c \in payload[q].columns : Covered(q, c)
    BY DEF CInv, SourcesOK
  <2> QED  BY <1>1, <1>2, <2>1, <2>2 DEF SourcesOK
<1>6. DOMAIN rows = Steps /\ ran \subseteq Steps
  BY DEF FInv, PlanOK, RunOK
<1>7. ran \subseteq ran' /\ \A q \in Steps \ {s} : rows'[q] = rows[q] /\ (q \in lossy' <=> q \in lossy)
  BY <1>6 DEF Delivered
<1>8. PassedOn'
  <2>1. CASE UNCHANGED <<rows, ran, lossy>>
    BY <1>2, <1>3, <2>1 DEF CInv, PassedOn
  <2>2. ASSUME NEW out, NEW own, Delivered(s, out, own),
               ~Lossy(s, own) /\ fieldMap[s] = {} => \A r \in out : getUpstreamFields(s) \subseteq r,
               NEW q \in ran' \ lossy', fieldMap[q] = {}, NEW r \in rows'[q]
        PROVE  getUpstreamFields(q) \subseteq r
    <3>1. CASE q = s
      <4>1. rows'[s] = out /\ ~Lossy(s, own)
        BY <1>6, <2>2, <3>1 DEF Delivered
      <4> QED  BY <2>2, <3>1, <4>1
    <3>2. CASE q # s
      <4>1. q \in ran \ lossy /\ rows'[q] = rows[q]
        BY <1>6, <1>7, <2>2, <3>2 DEF Delivered
      <4> QED  BY <2>2, <4>1 DEF CInv, PassedOn
    <3> QED  BY <3>1, <3>2
  <2>3. \A q \in ran' \ lossy' : fieldMap[q] = {} => \A r \in rows'[q] : getUpstreamFields(q) \subseteq r
    BY <2>1, <2>2, <1>2, <1>3 DEF CInv, PassedOn
  <2> QED  BY <1>2, <1>3, <2>3 DEF PassedOn
<1>9. InsertsOK'
  <2>1. \A a \in inserts' : GoodInsert(a)
    BY DEF CInv, InsertsOK, GoodInsert
  <2>2. \A a \in inserts' : a.step \in Writes' /\ (Deps(a.step) \subseteq ran)' /\ Fills(a)'
    BY <1>7, <2>1, InsertStays
  <2> QED  BY <2>2 DEF InsertsOK
<1> QED  BY <1>4, <1>5, <1>8, <1>9 DEF CInv

\* The same for a step that inserts nothing.
LEMMA DeliverColumns ==
    ASSUME FInv, CInv, NEW s \in Steps, NEW kind, MayRun(s, kind), UNCHANGED planned, inserts' = inserts,
           \/ Throws
           \/ /\ phase' = phase
              /\ \E out, own : /\ Delivered(s, out, own)
                               /\ ~Lossy(s, own) /\ fieldMap[s] = {} =>
                                      \A r \in out : getUpstreamFields(s) \subseteq r
    PROVE  CInv'
<1>1. phase = "ready" /\ s \in Steps \ ran /\ phase' \in {"ready", "error"}
  BY DEF MayRun, Throws
<1>2. inserts' = inserts \cup {} /\ \A a \in {} : GoodInsert(a)
  OBVIOUS
<1>3. \/ UNCHANGED <<rows, ran, lossy>>
      \/ \E out, own : /\ Delivered(s, out, own)
                       /\ ~Lossy(s, own) /\ fieldMap[s] = {} =>
                              \A r \in out : getUpstreamFields(s) \subseteq r
  BY DEF Throws
<1> QED  BY <1>1, <1>2, <1>3, RunColumns

LEMMA RunQueryColumns ==
    ASSUME FInv, CInv, NEW s \in Steps, RunQuery(s)
    PROVE  CInv'
<1>1. MayRun(s, "query") /\ UNCHANGED planned /\ inserts' = inserts /\ phase' = phase
  BY DEF RunQuery
<1>2. PICK out : Delivered(s, out, fieldMap[s] = {})
  BY DEF RunQuery
<1>3. ~(~Lossy(s, fieldMap[s] = {}) /\ fieldMap[s] = {})
  BY DEF Lossy
<1> QED  BY <1>1, <1>2, <1>3, DeliverColumns

LEMMA RunTransformColumns ==
    ASSUME FInv, CInv, NEW s \in Steps, RunTransform(s)
    PROVE  CInv'
<1> DEFINE ops == payload[s].ops
           drops == \E i \in DOMAIN ops : ops[i].kind \in {"removeField", "renameField"}
           U == getUpstreamFields(s)
<1>1. MayRun(s, "transform") /\ UNCHANGED planned /\ inserts' = inserts
  BY DEF RunTransform
<1>2. Kind(s) = "transform" /\ Promised(s) /\ Deps(s) \subseteq ran
  BY <1>1, MayRunFacts
<1>3. PICK in \in Inputs(s) :
         \/ Throws
         \/ /\ \E kept \in SUBSET Stages(ops, in)[Len(ops) + 1] : Delivered(s, kept, drops)
            /\ phase' = phase
  BY DEF RunTransform
<1>4. ASSUME NEW kept \in SUBSET Stages(ops, in)[Len(ops) + 1], ~Lossy(s, drops), NEW r \in kept
      PROVE  U \subseteq r
  <2>1. Len(ops) \in Nat /\ DOMAIN ops = 1..Len(ops)
    BY <1>2 DEF Promised, IsOps
  <2>2. \A i \in 1..Len(ops) : ~Drops(ops[i])
    BY <1>4, <2>1 DEF Lossy, Drops
  <2>3. \A q \in in : U \subseteq q
    BY <1>2, <1>4, InputsPass DEF CInv
  <2> HIDE DEF ops, U
  <2>4. Len(ops) \in 0..Len(ops) /\ r \in Stages(ops, in)[Len(ops) + 1]
    BY <1>4, <2>1
  <2>5. \A k \in 0..Len(ops) : \A q \in Stages(ops, in)[k + 1] : Has(q, U, ops, k)
    BY <2>1, <2>2, <2>3, StagesKeep
  <2>6. Has(r, U, ops, Len(ops))
    BY <2>4, <2>5
  <2> QED  BY <2>6 DEF Has
<1> HIDE DEF ops, drops, U
<1>5. \/ Throws
      \/ /\ phase' = phase
         /\ \E out, own : /\ Delivered(s, out, own)
                          /\ ~Lossy(s, own) => \A r \in out : U \subseteq r
  BY <1>3, <1>4
<1> QED  BY <1>1, <1>5, DeliverColumns DEF U

LEMMA RunLLMColumns ==
    ASSUME FInv, CInv, NEW s \in Steps, RunLLM(s)
    PROVE  CInv'
<1>1. MayRun(s, "llm") /\ UNCHANGED planned /\ inserts' = inserts /\ phase' = phase
  BY DEF RunLLM
<1>2. Deps(s) \subseteq ran
  BY <1>1, MayRunFacts
<1>3. PICK in \in Inputs(s) : \E fields : Delivered(s, {r \cup fields : r \in in}, FALSE)
  BY DEF RunLLM
<1>4. PICK fields : Delivered(s, {r \cup fields : r \in in}, FALSE)
  BY <1>3
<1>5. ASSUME ~Lossy(s, FALSE), NEW r \in {q \cup fields : q \in in} PROVE getUpstreamFields(s) \subseteq r
  <2>1. PICK q \in in : r = q \cup fields
    OBVIOUS
  <2>2. getUpstreamFields(s) \subseteq q
    BY <1>2, <1>5, InputsPass DEF CInv
  <2> QED  BY <2>1, <2>2
<1> QED  BY <1>1, <1>4, <1>5, DeliverColumns

LEMMA RunHttpColumns ==
    ASSUME FInv, CInv, NEW s \in Steps, RunHttp(s)
    PROVE  CInv'
<1>1. MayRun(s, "http") /\ UNCHANGED planned /\ inserts' = inserts
  BY DEF RunHttp
<1>2. fieldMap[s] # {}
  BY <1>1 DEF MayRun, FInv, PlanOK, CInv, PayloadsOK
<1>3. Throws \/ (phase' = phase /\ \E out, own : Delivered(s, out, own))
  BY DEF RunHttp
<1> QED  BY <1>1, <1>2, <1>3, DeliverColumns

\* A join lays a row of every input over each other; a union or a choice of one
\* input is lossy.
LEMMA RunMergeColumns ==
    ASSUME FInv, CInv, NEW s \in Steps, RunMerge(s)
    PROVE  CInv'
<1> DEFINE feed == [d \in Deps(s) |-> rows[d]]
           strategy == steps[s].config.strategy
<1>1. MayRun(s, "merge") /\ UNCHANGED planned /\ inserts' = inserts /\ phase' = phase
  BY DEF RunMerge
<1>2. Deps(s) \subseteq ran
  BY <1>1, MayRunFacts
<1>3. Lossy(s, TRUE)
  BY DEF Lossy
<1>4. CASE strategy \in {"union", "first"}
  <2>1. \E out : Delivered(s, out, TRUE)
    <3>1. CASE strategy = "union"
      BY <3>1, Zenon DEF RunMerge
    <3>2. CASE strategy = "first"
      <4>1. \E d \in Deps(s) : Delivered(s, feed[d], TRUE)
        BY <3>2 DEF RunMerge
      <4> QED  BY <4>1
    <3> QED  BY <1>4, <3>1, <3>2
  <2> QED  BY <1>1, <1>3, <2>1, DeliverColumns
<1>5. CASE strategy \notin {"union", "first"}
  <2>1. PICK out \in SUBSET {UNION {f[d] : d \in Deps(s)} :
                   f \in {g \in [Deps(s) -> UNION {feed[d] : d \in Deps(s)}] :
                              \A d \in Deps(s) : g[d] \in feed[d]}} :
               Delivered(s, out, FALSE)
    BY <1>5 DEF RunMerge
  <2>2. ASSUME ~Lossy(s, FALSE), NEW r \in out PROVE getUpstreamFields(s) \subseteq r
    <3>1. PICK f : r = UNION {f[d] : d \in Deps(s)} /\ \A d \in Deps(s) : f[d] \in feed[d]
      BY <2>1
    <3>2. \A d \in Deps(s) : f[d] \in rows[d] /\ f[d] \subseteq r
      BY <3>1
    <3>3. \A d \in Deps(s) : \E q \in rows[d] : q \subseteq r
      BY <3>2
    <3>4. Deps(s) \cap lossy = {}
      BY <2>2 DEF Lossy
    <3> QED  BY <1>2, <3>3, <3>4, CoverPasses DEF CInv
  <2> QED  BY <1>1, <2>1, <2>2, DeliverColumns
<1> QED  BY <1>4, <1>5

LEMMA RunWriteColumns ==
    ASSUME FInv, CInv, NEW s \in Steps, RunWrite(s)
    PROVE  CInv'
<1> DEFINE p == payload[s]
           U == getUpstreamFields(s)
           attempts(in) == {[step |-> s, input |-> r, given |-> Given(p, r)] :
                                r \in IF in = {} THEN {{}} ELSE in}
<1>1. MayRun(s, "write") /\ UNCHANGED planned
  BY DEF RunWrite
<1>2. phase = "ready" /\ s \in Steps \ ran /\ s \in Writes /\ Deps(s) \subseteq ran
  BY <1>1 DEF MayRun, Writes
<1>3. PICK in \in Inputs(s) :
         \/ /\ inserts' = inserts \cup attempts(in)
            /\ Throws \/ (phase' = phase /\ Delivered(s, in, FALSE))
         \/ /\ inserts' = inserts /\ phase' = phase
            /\ Delivered(s, IF in = {} THEN {} ELSE {Summary}, in # {})
  BY DEF RunWrite
<1>4. ~Lossy(s, FALSE) => \A r \in in : U \subseteq r
  BY <1>2, InputsPass DEF CInv
<1>5. CASE /\ inserts' = inserts \cup attempts(in)
           /\ Throws \/ (phase' = phase /\ Delivered(s, in, FALSE))
  <2>1. ASSUME NEW a \in attempts(in) PROVE GoodInsert(a)
    <3>1. PICK r \in (IF in = {} THEN {{}} ELSE in) :
             a = [step |-> s, input |-> r, given |-> Given(p, r)]
      OBVIOUS
    <3>2. a.step = s /\ a.input = r /\ a.given = Given(p, r)
      BY <3>1
    <3>3. ASSUME s \notin waived, r # {}, ~Lossy(s, FALSE), NEW c \in p.columns
          PROVE  c \in Given(p, r) \cup {d \in DOMAIN p.static : p.static[d].k = "null"}
      <4>1. r \in in
        BY <3>1, <3>3
      <4>2. U \subseteq r
        BY <1>4, <3>3, <4>1
      <4>3. Covered(s, c)
        BY <1>2, <3>3 DEF CInv, SourcesOK
      <4> QED  BY <3>3, <4>2, <4>3 DEF Covered, Given
    <3>4. Fills(a)
      BY <3>2, <3>3 DEF Fills
    <3> QED  BY <1>2, <3>2, <3>4 DEF GoodInsert
  <2> HIDE DEF attempts
  <2>2. PICK A : A = attempts(in)
    OBVIOUS
  <2>3. phase' \in {"ready", "error"} /\
        \/ UNCHANGED <<rows, ran, lossy>>
        \/ \E out, own : /\ Delivered(s, out, own)
                         /\ ~Lossy(s, own) /\ fieldMap[s] = {} => \A r \in out : U \subseteq r
    BY <1>2, <1>4, <1>5 DEF Throws
  <2> QED  BY <1>1, <1>2, <1>5, <2>1, <2>2, <2>3, RunColumns
<1>6. CASE /\ inserts' = inserts /\ phase' = phase
           /\ Delivered(s, IF in = {} THEN {} ELSE {Summary}, in # {})
  <2> DEFINE out == IF in = {} THEN {} ELSE {Summary}
  <2>1. ~Lossy(s, in # {}) => out = {}
    BY DEF Lossy
  <2> HIDE DEF out
  <2>2. Delivered(s, out, in # {})
    BY <1>6 DEF out
  <2> QED  BY <1>1, <1>6, <2>1, <2>2, DeliverColumns
<1> QED  BY <1>3, <1>5, <1>6

-----------------------------------------------------------------------------

LEMMA StutterColumns ==
    ASSUME CInv, UNCHANGED vars
    PROVE  CInv'
<1>1. UNCHANGED planned /\ rows' = rows /\ ran' = ran /\ lossy' = lossy /\ inserts' = inserts /\ phase' = phase
  BY DEF vars, planned
<1>2. Steps' = Steps /\ Writes' = Writes /\ \A q : Kind(q)' = Kind(q)
  BY <1>1, PlannedSame
<1>3. next' = next /\ fieldMap' = fieldMap /\ payload' = payload /\ waived' = waived
  BY <1>1 DEF planned
<1>4. \A q : getUpstreamFields(q)' = getUpstreamFields(q) /\ Deps(q)' = Deps(q)
  BY <1>1, PlannedSame
<1>5. PayloadsOK' /\ PassedOn'
  BY <1>1, <1>2, <1>3, <1>4 DEF CInv, PayloadsOK, PassedOn
<1>6. SourcesOK'
  <2>1. \A q, c : Covered(q, c)' <=> Covered(q, c)
    BY <1>3, <1>4 DEF Covered
  <2> QED  BY <1>1, <1>2, <1>3, <2>1 DEF CInv, SourcesOK
<1>7. InsertsOK'
  <2>1. \A a : Fills(a)' <=> Fills(a)
    BY <1>1, <1>3, <1>4 DEF Fills, Lossy
  <2> QED  BY <1>1, <1>2, <1>4, <2>1 DEF CInv, InsertsOK
<1> QED  BY <1>5, <1>6, <1>7 DEF CInv

LEMMA NextColumns ==
    ASSUME FInv, CInv, [Next]_vars
    PROVE  CInv'
<1>1. ASSUME NEW s \in Steps, RunStep(s) PROVE CInv'
  BY <1>1, RunQueryColumns, RunTransformColumns, RunLLMColumns, RunHttpColumns, RunMergeColumns,
     RunWriteColumns DEF RunStep
<1>2. CASE EnrichFails
  BY <1>2, FailedColumns DEF EnrichFails
<1> QED
  BY <1>1, <1>2, EnrichStepColumns, CheckColumns, FormsColumns, OfferColumns, LaunchColumns,
     StutterColumns DEF Next

\* validateWriteFieldResolution is enough: whatever the pipeline, the answers of
\* the model and the user's, a row that is inserted from a plan it accepted has a
\* value for every column of the statement, or the null written down for it.
THEOREM ColumnsAreFilled == Spec => []ColumnsFilled
<1>1. Init => CInv
  BY InitCInv
<1>2. FInv /\ CInv /\ [Next]_vars => CInv'
  BY NextColumns
<1>3. CInv => ColumnsFilled
  BY DEF CInv, InsertsOK, Fills, ColumnsFilled
<1> QED  BY <1>1, <1>2, <1>3, FlowInvariance, PTL DEF Spec

-----------------------------------------------------------------------------
(* The values of a write.                                                  *)

IsValues(f) == \A c \in DOMAIN f : IsValue(f[c])

\* w is v, or v with its number written as text.
SameWord(w, v) == IsValue(w) /\ w.v = v.v /\ (w.k = v.k \/ (v.k = "num" /\ w.k = "digits"))

\* The conversion leaves every value the word it is.
LEMMA ConvertKeeps ==
    ASSUME NEW f, NEW g, NEW tables, NEW t,
           DOMAIN f = DOMAIN g, \A c \in DOMAIN g : SameWord(f[c], g[c])
    PROVE  /\ DOMAIN ConvertIfNeeded(f, tables, t) = DOMAIN g
           /\ \A c \in DOMAIN g : SameWord(ConvertIfNeeded(f, tables, t)[c], g[c])
<1> DEFINE h == ConvertIfNeeded(f, tables, t)
<1>1. DOMAIN h = DOMAIN g
  BY DEF ConvertIfNeeded
<1>2. ASSUME NEW c \in DOMAIN g PROVE SameWord(h[c], g[c])
  <2>1. h[c] = f[c] \/ (f[c].k = "num" /\ h[c] = [f[c] EXCEPT !.k = "digits"])
    BY DEF ConvertIfNeeded
  <2>2. SameWord(f[c], g[c])
    OBVIOUS
  <2> HIDE DEF h
  <2>3. CASE h[c] = f[c]
    BY <2>2, <2>3
  <2>4. CASE f[c].k = "num" /\ h[c] = [f[c] EXCEPT !.k = "digits"]
    BY <2>2, <2>4 DEF SameWord, IsValue
  <2> QED  BY <2>1, <2>3, <2>4
<1> QED  BY <1>1, <1>2

\* The planner's values are records, and one that a form may overwrite is the
\* same time.
LEMMA AutoAre ==
    ASSUME NEW config
    PROVE  /\ IsValues(AutoValues(config))
           /\ \A c \in DOMAIN AutoValues(config) : AutoValues(config)[c].k # "param"
           /\ "updated_at" \in DOMAIN AutoValues(config) => AutoValues(config)["updated_at"] = Now
<1> DEFINE auto == AutoValues(config)
<1>1. \A c \in DOMAIN auto : \/ auto[c] = Text(Action(config.operation))
                             \/ auto[c] = Now \/ auto[c] = Num("1")
  BY DEF AutoValues
<1>2. ASSUME NEW c \in DOMAIN auto PROVE IsValue(auto[c]) /\ auto[c].k # "param"
  BY <1>1 DEF Now, Text, Num, Value, IsValue
<1>3. "updated_at" \in DOMAIN auto => auto["updated_at"] = Now
  BY DEF AutoValues, SessionColumns
<1> QED  BY <1>2, <1>3 DEF IsValues

\* The merge, by its columns: the planner's values over the literals over the
\* answer's values.
LEMMA MergeLays ==
    ASSUME NEW config, NEW answer, IsValues(Literals(config)), IsValues(answer.static)
    PROVE  LET M == MergedValues(config, answer)
               A == AutoValues(config)
               L == Literals(config)
           IN  /\ \A c \in DOMAIN A : c \in DOMAIN M /\ SameWord(M[c], A[c])
               /\ \A c \in DOMAIN L \ DOMAIN A : c \in DOMAIN M /\ SameWord(M[c], L[c])
               /\ IsValues(M)
<1> DEFINE tables == schemaToUse(config.table)
           convert(values) == ConvertIfNeeded(values, tables, answer.table)
           A == AutoValues(config)
           L == Literals(config)
           W == AnswerValues(answer)
           low == Over(A, convert(W))
           mid == Over(convert(L), low)
           all == Over(A, mid)
<1>1. IsValues(A) /\ IsValues(L) /\ IsValues(W)
  BY AutoAre DEF AnswerValues, Only, IsValues
<1>2. MergedValues(config, answer) = convert(all)
  BY DEF MergedValues
<1> HIDE DEF A, L, W
<1>3. \A v : IsValue(v) => SameWord(v, v)
  BY DEF SameWord
<1>4. DOMAIN convert(L) = DOMAIN L /\ \A c \in DOMAIN L : SameWord(convert(L)[c], L[c])
  BY <1>1, <1>3, ConvertKeeps DEF IsValues
<1>5. DOMAIN convert(W) = DOMAIN W /\ \A c \in DOMAIN W : SameWord(convert(W)[c], W[c])
  BY <1>1, <1>3, ConvertKeeps DEF IsValues
<1> HIDE DEF convert
<1>6. IsValues(low) /\ DOMAIN low = DOMAIN A \cup DOMAIN W
  BY <1>1, <1>5 DEF IsValues, SameWord, Over
<1> HIDE DEF low
<1>7. /\ DOMAIN mid = DOMAIN L \cup DOMAIN low /\ IsValues(mid)
      /\ \A c \in DOMAIN L : SameWord(mid[c], L[c])
  BY <1>4, <1>6 DEF IsValues, SameWord, Over
<1> HIDE DEF mid
<1>8. /\ IsValues(all) /\ DOMAIN all = DOMAIN A \cup DOMAIN mid
      /\ \A c \in DOMAIN A : all[c] = A[c]
      /\ \A c \in DOMAIN mid \ DOMAIN A : all[c] = mid[c]
  BY <1>1, <1>7 DEF IsValues, Over
<1> HIDE DEF all
<1>9. DOMAIN convert(all) = DOMAIN all /\ \A c \in DOMAIN all : SameWord(convert(all)[c], all[c])
  BY <1>3, <1>8, ConvertKeeps DEF IsValues, convert
<1>10. \A u, v, w : SameWord(u, v) /\ SameWord(v, w) => SameWord(u, w)
  BY DEF SameWord
<1>11. IsValues(convert(all))
  BY <1>9 DEF IsValues, SameWord
<1>12. \A c \in DOMAIN A : c \in DOMAIN all /\ SameWord(convert(all)[c], A[c])
  BY <1>8, <1>9
<1>13. \A c \in DOMAIN L \ DOMAIN A : c \in DOMAIN all /\ SameWord(convert(all)[c], L[c])
  BY <1>7, <1>8, <1>9, <1>10
<1> QED  BY <1>2, <1>9, <1>11, <1>12, <1>13 DEF A, L

-----------------------------------------------------------------------------
(* The cleaning.                                                           *)

\* The word that replaces one outside the list is in the list.
LEMMA ClosestIsListed ==
    ASSUME NEW enum, enum \in Seq(ToSet(enum)), enum # <<>>, NEW word
    PROVE  findClosestEnumValue(word, enum) \in ToSet(enum)
<1>1. PICK n \in Nat : n = Len(enum) /\ DOMAIN enum = 1..n /\ n # 0
  OBVIOUS
<1>2. \A i \in DOMAIN enum : enum[i] \in ToSet(enum)
  BY DEF ToSet
<1> DEFINE alike == {i \in DOMAIN enum : Initial[enum[i]] = Initial[word]}
<1>3. CASE alike = {}
  BY <1>1, <1>2, <1>3 DEF findClosestEnumValue
<1>4. CASE alike # {}
  <2>1. alike \subseteq Nat /\ alike \subseteq DOMAIN enum
    BY <1>1
  <2>2. \E i \in alike : \A j \in alike : i <= j
    BY <1>4, <2>1, LeastNat
  <2>3. (CHOOSE i \in alike : \A j \in alike : i <= j) \in DOMAIN enum
    BY <2>1, <2>2
  <2> QED  BY <1>2, <1>4, <2>3 DEF findClosestEnumValue
<1> QED  BY <1>3, <1>4

LEMMA ChosenOne ==
    ASSUME NEW v PROVE (CHOOSE x \in {v} : TRUE) = v
OBVIOUS

\* A value that its column takes is not touched but for its letters.
LEMMA CleanKeeps ==
    ASSUME NEW f, NEW tables, NEW t, NEW c \in DOMAIN f, NEW v, SameWord(f[c], v),
           v.k # "param", Takes(tables, t, c, v)
    PROVE  c \in DOMAIN CleanValues(f, tables, t) /\ CleanValues(f, tables, t)[c].v = v.v
<1> DEFINE col == ColumnOf(tables, t, c)
           known == HasColumn(tables, t, c)
<1>1. f[c].k # "param" /\ f[c].v = v.v /\ IsValue(f[c])
  BY DEF SameWord
<1>2. known => ~isInvalidInt(col, f[c])
  BY DEF Takes, isInvalidInt, SameWord
<1>3. known => \E w : EnumValue(col, f[c]) = {w} /\ w.v = v.v
  <2>1. known => enumValues(col) = <<>> \/ f[c].k = "null" \/ f[c].v \in ToSet(enumValues(col))
    BY DEF Takes, SameWord
  <2>2. [f[c] EXCEPT !.up = FALSE].v = v.v
    BY <1>1 DEF IsValue
  <2> QED  BY <1>1, <2>1, <2>2 DEF EnumValue
<1> HIDE DEF col, known
<1>4. c \in DOMAIN CleanValues(f, tables, t)
  BY <1>1, <1>2, <1>3 DEF CleanValues, col, known
<1>5. CleanValues(f, tables, t)[c] = IF known THEN CHOOSE x \in EnumValue(col, f[c]) : TRUE ELSE f[c]
  BY <1>4 DEF CleanValues, col, known
<1> QED  BY <1>1, <1>3, <1>4, <1>5, ChosenOne

\* What a column of the CRM schema is.
LEMMA CrmColumn ==
    ASSUME NEW t, NEW c, HasColumn(Crm, t, c)
    PROVE  LET col == ColumnOf(Crm, t, c)
           IN  /\ col.name = c
               /\ col.enum \in Seq(ToSet(col.enum))
               /\ col.enum # <<>> /\ col.default \notin {"none", "sql"} => col.default \in ToSet(col.enum)
               /\ c = "updated_at" => col.type \notin IntTypes /\ col.enum = <<>>
<1>1. t \in DOMAIN Sources[1].tables /\ 1 \in DOMAIN Sources
  BY SchemaAssumption DEF HasColumn, HasTable, Crm
<1>2. ColumnOf(Crm, t, c) \in Sources[1].tables[t] /\ ColumnOf(Crm, t, c).name = c
  BY DEF HasColumn, ColumnNames, ColumnOf, Crm
<1> QED  BY <1>1, <1>2, SchemaAssumption

\* A text that the validation does not refuse for its column.
Accepted(t, c, value) ==
    value.k \in {"text", "digits"} /\ HasColumn(Crm, t, c) /\ ~Overlooked(t, c, value) =>
        LET col == ColumnOf(Crm, t, c)
        IN  /\ sqlTypeToJsType(col.type) = "string"
            /\ enumValues(col) = <<>> \/ value.v \in ToSet(enumValues(col))

\* What is left in a column of the CRM schema is such a text.
LEMMA CleanWords ==
    ASSUME NEW f, IsValues(f), NEW tables, NEW t, HasTable(Crm, t) => tables = Crm,
           NEW c \in DOMAIN CleanValues(f, tables, t)
    PROVE  Accepted(t, c, CleanValues(f, tables, t)[c])
<1> DEFINE w == CleanValues(f, tables, t)[c]
           col == ColumnOf(Crm, t, c)
           enum == enumValues(col)
<1>1. SUFFICES ASSUME w.k \in {"text", "digits"}, HasColumn(Crm, t, c), ~Overlooked(t, c, w)
               PROVE  sqlTypeToJsType(col.type) = "string" /\ (enum = <<>> \/ w.v \in ToSet(enum))
  BY DEF Accepted
<1>2. tables = Crm
  BY <1>1 DEF HasColumn
<1>3. /\ c \in DOMAIN f /\ ~isInvalidInt(col, f[c]) /\ EnumValue(col, f[c]) # {}
      /\ w = CHOOSE x \in EnumValue(col, f[c]) : TRUE
  BY <1>1, <1>2 DEF CleanValues
<1>4. w \in EnumValue(col, f[c]) /\ IsValue(f[c])
  BY <1>3 DEF IsValues
<1> HIDE DEF w
<1>5. col.enum \in Seq(ToSet(col.enum)) /\
      (col.enum # <<>> /\ col.default \notin {"none", "sql"} => col.default \in ToSet(col.enum))
  BY <1>1, CrmColumn
<1>6. enum = <<>> \/ (enum = col.enum /\ col.default # "sql")
  BY DEF enumValues
<1>7. sqlTypeToJsType(col.type) # "string" =>
          col.type \in IntTypes /\ w.k # "digits" /\ enum = <<>>
  BY <1>1 DEF Overlooked
<1> HIDE DEF col, enum
<1>8. CASE enum = <<>>
  <2>1. w = f[c]
    BY <1>4, <1>8 DEF EnumValue, enum
  <2> QED  BY <1>1, <1>3, <1>7, <1>8, <2>1 DEF isInvalidInt
<1>9. CASE enum # <<>>
  <2>1. enum = col.enum /\ enum \in Seq(ToSet(enum)) /\ (col.default # "none" => col.default \in ToSet(enum))
    BY <1>5, <1>6, <1>9
  <2>2. \/ f[c].k = "null" /\ w = f[c]
        \/ f[c].v \in ToSet(enum) /\ w = [f[c] EXCEPT !.up = FALSE]
        \/ col.default # "none" /\ w = Text(col.default)
        \/ w = Text(findClosestEnumValue(f[c].v, enum))
    BY <1>4, <1>9 DEF EnumValue, enum
  <2>3. CASE f[c].k = "null" /\ w = f[c]
    BY <1>1, <2>3
  <2>4. CASE f[c].v \in ToSet(enum) /\ w = [f[c] EXCEPT !.up = FALSE]
    <3>1. w.v = f[c].v
      BY <1>4, <2>4 DEF IsValue
    <3> QED  BY <1>7, <1>9, <2>4, <3>1
  <2>5. CASE col.default # "none" /\ w = Text(col.default)
    <3>1. w.v = col.default
      BY <2>5 DEF Text, Value
    <3> QED  BY <1>7, <1>9, <2>1, <2>5, <3>1
  <2>6. CASE w = Text(findClosestEnumValue(f[c].v, enum))
    <3>1. w.v = findClosestEnumValue(f[c].v, enum)
      BY <2>6 DEF Text, Value
    <3> QED  BY <1>7, <1>9, <2>1, <3>1, ClosestIsListed
  <2> QED  BY <2>2, <2>3, <2>4, <2>5, <2>6
<1> QED  BY <1>8, <1>9

\* No table is named.
Nameless(t) == t = ""

LEMMA NamelessIsNone ==
    ASSUME NEW t, Nameless(t), NEW i \in DOMAIN Sources
    PROVE  ~HasTable(Sources[i].tables, t)
BY SchemaAssumption, Zenon DEF Nameless, HasTable

LEMMA SourcesNumbered == 1 \in DOMAIN Sources /\ DOMAIN Sources \subseteq Nat \ {0}
BY SchemaAssumption, Zenon

\* The schema in use for a table of the CRM, or for no table, is that of the CRM.
LEMMA CrmIsUsed ==
    ASSUME NEW t, HasTable(Crm, t) \/ Nameless(t)
    PROVE  schemaToUse(t) = Crm
<1> DEFINE having == {i \in DOMAIN Sources : HasTable(Sources[i].tables, t)}
<1>1. 1 \in DOMAIN Sources /\ DOMAIN Sources \subseteq Nat \ {0}
  BY SourcesNumbered
<1>2. CASE having = {}
  BY <1>2 DEF schemaToUse
<1>3. CASE having # {}
  <2>1. ~Nameless(t)
    BY <1>3, NamelessIsNone
  <2>2. PICK D : D = DOMAIN Sources
    OBVIOUS
  <2>3. PICK S : S = having /\ S \subseteq D
    BY <2>2
  <2>4. 1 \in S
    <3>1. HasTable(Sources[1].tables, t)
      BY <2>1 DEF Crm
    <3> QED  BY <1>1, <2>3, <3>1
  <2>5. S \subseteq Nat \ {0}
    BY <1>1, <2>2, <2>3
  <2>6. \A i \in S : (\A j \in S : i <= j) <=> i = 1
    <3>1. \A i \in S : i \in Nat /\ 1 <= i
      BY <2>5
    <3>2. ASSUME NEW i \in S, \A j \in S : i <= j PROVE i = 1
      <4>1. i <= 1 /\ 1 <= i /\ i \in Nat
        BY <2>4, <3>1, <3>2
      <4> QED  BY <4>1
    <3> QED  BY <3>1, <3>2
  <2>7. PICK x : x = CHOOSE i \in S : \A j \in S : i <= j
    OBVIOUS
  <2>8. x \in S /\ \A j \in S : x <= j
    <3>1. \E i \in S : \A j \in S : i <= j
      BY <2>4, <2>6
    <3> QED  BY <2>7, <3>1
  <2>9. x = 1
    BY <2>6, <2>8
  <2> QED  BY <1>3, <2>3, <2>7, <2>9 DEF schemaToUse, Crm
<1> QED  BY <1>2, <1>3

-----------------------------------------------------------------------------
(* What the enrichment settled for a write step, in terms of the step's    *)
(* config, its payload and the columns that the user gave.                 *)

AutoSettled(config, p, given) ==
    LET auto == AutoValues(config)
    IN  \A c \in DOMAIN auto \ (given \cup {"action"}) :
            Takes(schemaToUse(config.table), p.table, c, auto[c])
                => c \in DOMAIN p.static /\ p.static[c].v = auto[c].v

LiteralsSettled(config, p, given) ==
    LET literals == Literals(config)
        stamped == IF p.mode = "update" THEN {"updated_at"} ELSE {}
    IN  \A c \in DOMAIN literals \ (DOMAIN AutoValues(config) \cup given \cup stamped) :
            (literals[c].k # "param" /\ Takes(schemaToUse(config.table), p.table, c, literals[c]))
                => c \in DOMAIN p.static /\ p.static[c].v = literals[c].v

WordsSettled(p, given) == \A c \in DOMAIN p.static \ given : Accepted(p.table, c, p.static[c])

Settled(config, p, given) ==
    AutoSettled(config, p, given) /\ LiteralsSettled(config, p, given) /\ WordsSettled(p, given)

ConfigFields == {"table", "operation", "mode", "keys", "array", "fields", "strategy"}

ConfigsOK ==
    /\ DOMAIN said = Steps /\ DOMAIN supplied = Steps
    /\ phase = "enrich" => steps \in Pipelines
    /\ \A s \in Writes : DOMAIN steps[s].config = ConfigFields

SettledOK == \A s \in ParsedWrites : Settled(steps[s].config, payload[s], supplied[s])

\* The user is asked for exactly what is missing in the payload at hand.
AskedOK ==
    /\ phase # "dropped"
    /\ phase = "incomplete" =>
           missing.columns = Missing(payload[missing.step]) /\ missing.columns # {}

EInv == ConfigsOK /\ SettledOK /\ AskedOK

LEMMA InitEInv == Init => EInv
<1> SUFFICES ASSUME Init PROVE EInv
  OBVIOUS
<1>1. ConfigsOK
  <2>1. \A s \in Writes : DOMAIN steps[s].config = ConfigFields
    BY FlowAssumption DEF Init, Writes, Steps, Kind, IsConfig, ConfigFields
  <2> QED  BY <2>1 DEF Init, ConfigsOK
<1>2. SettledOK
  <2>1. \A s \in ParsedWrites : FALSE
    <3>1. \A s \in Steps : ~(s < next)
      <4>1. Steps \subseteq Nat \ {0} /\ next = 1
        BY InitFInv DEF Init, FInv, StepsOK
      <4> QED  BY <4>1
    <3> QED  BY <3>1 DEF ParsedWrites, Writes
  <2> QED  BY <2>1 DEF SettledOK
<1>3. AskedOK
  BY DEF Init, AskedOK
<1> QED  BY <1>1, <1>2, <1>3 DEF EInv

\* What is settled stays so when other columns are given by the user.
LEMMA SettledStays ==
    ASSUME NEW cf, NEW cg, NEW p, NEW q, NEW A, NEW B, Settled(cf, p, A), A \subseteq B,
           cg.table = cf.table, AutoValues(cg) = AutoValues(cf), q.table = p.table, q.mode = p.mode,
           \A c : c \notin B => /\ c \in DOMAIN Literals(cg) => c \in DOMAIN Literals(cf)
                                /\ c \in DOMAIN Literals(cg) => Literals(cg)[c] = Literals(cf)[c],
           \A c : c \notin B => /\ c \in DOMAIN q.static <=> c \in DOMAIN p.static
                                /\ c \in DOMAIN p.static => q.static[c] = p.static[c]
    PROVE  Settled(cg, q, B)
<1>1. AutoSettled(cg, q, B)
  BY DEF Settled, AutoSettled
<1>2. LiteralsSettled(cg, q, B)
  BY DEF Settled, LiteralsSettled
<1>3. WordsSettled(q, B)
  BY DEF Settled, WordsSettled
<1> QED  BY <1>1, <1>2, <1>3 DEF Settled

\* Values of the user's are laid over the static ones.
LEMMA SettledLaid ==
    ASSUME NEW config, NEW p, NEW A, NEW V, NEW B, NEW f, Settled(config, p, A),
           DOMAIN p = WriteFields, DOMAIN f \subseteq B, A \subseteq B
    PROVE  Settled(config, WithValues(p, f), B)
<1> DEFINE q == WithValues(p, f)
<1>1. q.table = p.table /\ q.mode = p.mode /\ q.static = Over(f, p.static)
  BY DEF WithValues, WriteFields
<1>2. \A c : c \notin B => /\ c \in DOMAIN q.static <=> c \in DOMAIN p.static
                           /\ c \in DOMAIN p.static => q.static[c] = p.static[c]
  <2>1. ASSUME NEW c, c \notin B
        PROVE  /\ c \in DOMAIN Over(f, p.static) <=> c \in DOMAIN p.static
               /\ c \in DOMAIN p.static => Over(f, p.static)[c] = p.static[c]
    BY <2>1 DEF Over
  <2> QED  BY <1>1, <2>1
<1> HIDE DEF q
<1> QED  BY <1>1, <1>2, SettledStays DEF q

-----------------------------------------------------------------------------
(* The enrichment of a write.                                              *)

\* The static values of a payload are the merged ones, cleaned.
LEMMA PayloadIs ==
    ASSUME NEW config, NEW answer, NEW columns, NEW queries, NEW upstream
    PROVE  LET p == EnrichedPayload(config, answer, columns, queries, upstream)
           IN  /\ p.static = CleanValues(MergedValues(config, answer), schemaToUse(config.table), p.table)
               /\ Nameless(config.table) \/ p.table = config.table
<1> DEFINE p == EnrichedPayload(config, answer, columns, queries, upstream)
           t == IF config.table # "" THEN config.table ELSE answer.table
<1>1. p.table = t
  BY DEF EnrichedPayload, PayloadOf
<1>2. p.static = CleanValues(MergedValues(config, answer), schemaToUse(config.table), t)
  BY DEF EnrichedPayload, PayloadOf
<1>3. Nameless(config.table) \/ t = config.table
  BY DEF Nameless
<1> HIDE DEF p, t
<1> QED  BY <1>1, <1>2, <1>3 DEF p

LEMMA LiteralsAre ==
    ASSUME NEW config, IsConfig(config)
    PROVE  IsValues(Literals(config))
<1>1. \A c \in DOMAIN Literals(config) : c \in DOMAIN config.fields /\ Literals(config)[c] = config.fields[c].value
  BY DEF Literals
<1> QED  BY <1>1 DEF IsConfig, IsValues

\* The payload that is made from an answer that parses is settled, whatever the
\* user will give.
LEMMA EnrichmentSettles ==
    ASSUME NEW config, IsConfig(config), NEW answer \in WriteAnswers,
           NEW columns, NEW queries, NEW upstream, NEW A
    PROVE  Settled(config, EnrichedPayload(config, answer, columns, queries, upstream), A)
<1> DEFINE p == EnrichedPayload(config, answer, columns, queries, upstream)
           tables == schemaToUse(config.table)
           M == MergedValues(config, answer)
<1>1. IsValues(Literals(config)) /\ IsValues(answer.static)
  BY FlowAssumption, LiteralsAre DEF IsValues
<1>2. /\ \A c \in DOMAIN AutoValues(config) : c \in DOMAIN M /\ SameWord(M[c], AutoValues(config)[c])
      /\ \A c \in DOMAIN Literals(config) \ DOMAIN AutoValues(config) :
            c \in DOMAIN M /\ SameWord(M[c], Literals(config)[c])
      /\ IsValues(M)
  BY <1>1, MergeLays
<1>3. /\ p.static = CleanValues(M, tables, p.table)
      /\ Nameless(config.table) \/ p.table = config.table
  BY PayloadIs
<1>4. HasTable(Crm, p.table) => tables = Crm
  BY <1>3, CrmIsUsed
<1> HIDE DEF p, M
<1>5. AutoSettled(config, p, A)
  <2>1. ASSUME NEW c \in DOMAIN AutoValues(config), Takes(tables, p.table, c, AutoValues(config)[c])
        PROVE  c \in DOMAIN p.static /\ p.static[c].v = AutoValues(config)[c].v
    <3>1. AutoValues(config)[c].k # "param"
      BY AutoAre
    <3> QED  BY <1>2, <1>3, <2>1, <3>1, CleanKeeps
  <2> QED  BY <2>1 DEF AutoSettled
<1>6. LiteralsSettled(config, p, A)
  <2>1. ASSUME NEW c \in DOMAIN Literals(config) \ DOMAIN AutoValues(config),
               Literals(config)[c].k # "param", Takes(tables, p.table, c, Literals(config)[c])
        PROVE  c \in DOMAIN p.static /\ p.static[c].v = Literals(config)[c].v
    BY <1>2, <1>3, <2>1, CleanKeeps
  <2> QED  BY <2>1 DEF LiteralsSettled
<1>7. WordsSettled(p, A)
  BY <1>2, <1>3, <1>4, CleanWords DEF WordsSettled
<1> QED  BY <1>5, <1>6, <1>7 DEF Settled, p

\* A step that is enriched.  If it is a write, its payload is settled.
LEMMA EnrichSettled ==
    ASSUME FInv, CInv, EInv, NEW s \in Steps, phase = "enrich", next = s, next' = next + 1,
           phase' \in {"enrich", "check"}, steps' = steps, supplied' = supplied,
           DOMAIN said' = Steps, \A w \in Writes \ {s} : payload'[w] = payload[w] /\ said'[w] = said[w],
           s \in Writes /\ said'[s].parsed => Settled(steps[s].config, payload'[s], supplied[s])
    PROVE  EInv'
<1>1. Steps' = Steps /\ Writes' = Writes
  BY DEF Steps, Writes, Kind
<1>2. ConfigsOK'
  BY <1>1 DEF EInv, ConfigsOK
<1>3. ASSUME NEW w \in ParsedWrites' PROVE Settled(steps[w].config, payload'[w], supplied[w])
  <2>1. w \in Writes /\ w \in Steps /\ w < next' /\ said'[w] # NoPayload /\ said'[w].parsed
    BY <1>1 DEF ParsedWrites, Writes, NoPayload
  <2>2. CASE w = s
    BY <2>1, <2>2
  <2>3. CASE w # s
    <3>1. Steps \subseteq Nat
      BY DEF FInv, StepsOK
    <3>2. w < next
      BY <2>1, <2>3, <3>1
    <3>3. w \in ParsedWrites
      BY <2>1, <2>3, <3>2 DEF ParsedWrites
    <3> QED  BY <2>1, <2>3, <3>3 DEF EInv, SettledOK
  <2> QED  BY <2>2, <2>3
<1>4. SettledOK'
  BY <1>3 DEF SettledOK
<1>5. AskedOK'
  BY DEF AskedOK
<1> QED  BY <1>2, <1>4, <1>5 DEF EInv

LEMMA EnrichWriteSettles ==
    ASSUME FInv, CInv, EInv, NEW s \in Steps, EnrichWrite(s)
    PROVE  EInv'
<1> DEFINE config == steps[s].config
           F == getAvailableFields(s)
<1>1. phase = "enrich" /\ next = s /\ Kind(s) = "write" /\ s \in Writes
  BY DEF EnrichWrite, Turn, Writes
<1>2. /\ next' = next + 1 /\ phase' \in {"enrich", "check"} /\ steps' = steps /\ supplied' = supplied
  BY <1>1 DEF EnrichWrite, running
<1>3. PICK answer \in WriteAnswers :
         /\ said' = [said EXCEPT ![s] = answer]
         /\ \E p \in {IF answer.parsed
                     THEN EnrichedPayload(config, answer, WriteColumns(config, answer, F),
                                          Queries, getUpstreamTablesTransitive(s))
                     ELSE FallbackPayload(config, F, Queries)} :
               payload' = [q \in Steps |->
                      IF q = s THEN p
                      ELSE IF Kind(q) = "query"
                      THEN [payload[q] EXCEPT !.columns =
                              @ \cup p.added[CHOOSE i \in DOMAIN QuerySteps : QuerySteps[i] = q]]
                      ELSE payload[q]]
  BY DEF EnrichWrite
<1>4. DOMAIN said = Steps /\ steps \in Pipelines
  BY <1>1 DEF EInv, ConfigsOK
<1>5. DOMAIN said' = Steps /\ said'[s] = answer /\ \A w \in Writes \ {s} : said'[w] = said[w]
  BY <1>3, <1>4 DEF Writes
<1>6. \A w \in Writes \ {s} : payload'[w] = payload[w]
  BY <1>3 DEF Writes
<1>7. answer.parsed => payload'[s] = EnrichedPayload(config, answer, WriteColumns(config, answer, F),
                                          Queries, getUpstreamTablesTransitive(s))
  BY <1>3
<1>8. IsConfig(config)
  BY <1>1, <1>4, FlowAssumption DEF Kind, Steps
<1>9. answer.parsed => Settled(steps[s].config, payload'[s], supplied[s])
  BY <1>7, <1>8, EnrichmentSettles
<1> QED  BY <1>1, <1>2, <1>5, <1>6, <1>9, EnrichSettled

LEMMA FailedSettled ==
    ASSUME EInv, phase' = "failed", steps' = steps, said' = said, supplied' = supplied,
           payload' = payload, next' = next
    PROVE  EInv'
<1>1. Steps' = Steps /\ Writes' = Writes /\ ParsedWrites' = ParsedWrites
  BY DEF Steps, Writes, Kind, ParsedWrites, NoPayload
<1>2. ConfigsOK' /\ AskedOK'
  BY <1>1 DEF EInv, ConfigsOK, AskedOK
<1>3. SettledOK'
  BY <1>1 DEF EInv, SettledOK
<1> QED  BY <1>2, <1>3 DEF EInv

LEMMA EnrichedSettles ==
    ASSUME FInv, CInv, EInv, NEW s \in Steps, NEW p, NEW F, phase = "enrich", next = s, Enriched(s, p, F),
           Kind(s) # "write"
    PROVE  EInv'
<1>1. DOMAIN payload = Steps /\ DOMAIN said = Steps
  BY DEF FInv, PlanOK, EInv, ConfigsOK
<1>2. s \notin Writes /\ \A w \in Writes \ {s} : payload'[w] = payload[w]
  BY <1>1 DEF Enriched, Writes
<1>3. /\ next' = next + 1 /\ phase' \in {"enrich", "check"} /\ steps' = steps
      /\ said' = said /\ supplied' = supplied
  BY DEF Enriched, running
<1> QED  BY <1>1, <1>2, <1>3, EnrichSettled

LEMMA EnrichStepSettles ==
    ASSUME FInv, CInv, EInv, NEW s \in Steps, EnrichStep(s)
    PROVE  EInv'
<1>1. CASE EnrichQuery(s)
  <2>1. phase = "enrich" /\ next = s /\ Kind(s) = "query"
    BY <1>1 DEF EnrichQuery, Turn
  <2>2. \/ \E p, F : Enriched(s, p, F)
        \/ /\ phase' = "failed"
           /\ UNCHANGED <<steps, next, fieldMap, payload, said, missing>>
           /\ UNCHANGED running
    BY <1>1 DEF EnrichQuery
  <2> QED  BY <2>1, <2>2, EnrichedSettles, FailedSettled DEF running
<1>2. CASE EnrichTransform(s)
  <2>1. phase = "enrich" /\ next = s /\ Kind(s) = "transform"
    BY <1>2 DEF EnrichTransform, Turn
  <2>2. \E p, F : Enriched(s, p, F)
    BY <1>2 DEF EnrichTransform
  <2> QED  BY <2>1, <2>2, EnrichedSettles
<1>3. CASE EnrichStructural(s)
  <2>1. phase = "enrich" /\ next = s /\ Kind(s) \in {"llm", "merge"}
    BY <1>3 DEF EnrichStructural, Turn
  <2>2. \E p, F : Enriched(s, p, F)
    BY <1>3 DEF EnrichStructural
  <2> QED  BY <2>1, <2>2, EnrichedSettles
<1>4. CASE EnrichHttp(s)
  <2>1. phase = "enrich" /\ next = s /\ Kind(s) = "http"
    BY <1>4 DEF EnrichHttp, Turn
  <2>2. \E p, F : Enriched(s, p, F)
    BY <1>4 DEF EnrichHttp
  <2> QED  BY <2>1, <2>2, EnrichedSettles
<1>5. CASE EnrichWrite(s)
  BY <1>5, EnrichWriteSettles
<1> QED  BY <1>1, <1>2, <1>3, <1>4, <1>5 DEF EnrichStep

-----------------------------------------------------------------------------
(* The checks and the forms.                                               *)

\* A step of the checks or forms, which changes nothing of the pipeline but
\* configs.
LEMMA PlanSettles ==
    ASSUME FInv, CInv, EInv, PlanEffect, said' = said, DOMAIN supplied' = Steps,
           \A w \in Writes : DOMAIN steps'[w].config = ConfigFields,
           \A w \in ParsedWrites : Settled(steps'[w].config, payload'[w], supplied'[w]),
           phase' # "dropped",
           phase' = "incomplete" =>
               missing'.columns = Missing(payload'[missing'.step]) /\ missing'.columns # {}
    PROVE  EInv'
<1>1. Steps' = Steps /\ next' = next /\ phase' # "enrich" /\ \A q \in Steps : Kind(q)' = Kind(q)
  BY DEF PlanEffect, Steps, Kind
<1>2. Writes' = Writes
  BY <1>1 DEF Writes
<1>3. ParsedWrites' = ParsedWrites
  BY <1>1, <1>2 DEF ParsedWrites, NoPayload
<1>4. ConfigsOK'
  BY <1>1, <1>2 DEF EInv, ConfigsOK
<1>5. SettledOK'
  BY <1>3 DEF SettledOK
<1>6. AskedOK'
  BY DEF AskedOK
<1> QED  BY <1>4, <1>5, <1>6 DEF EInv

\* What the check leaves of a payload differs in its aliases only.
LEMMA RemappedKeeps ==
    ASSUME NEW s, DOMAIN payload[s] = WriteFields
    PROVE  /\ Remapped(s).table = payload[s].table /\ Remapped(s).mode = payload[s].mode
           /\ Remapped(s).static = payload[s].static /\ Remapped(s).columns = payload[s].columns
           /\ Remapped(s).optional = payload[s].optional /\ Remapped(s).resolved = payload[s].resolved
BY DEF Remapped, WriteFields

LEMMA CheckSettles ==
    ASSUME FInv, CInv, EInv, Check
    PROVE  EInv'
<1>1. PlanEffect
  BY CheckKeeps
<1>2. /\ phase = "check" /\ steps' = steps /\ said' = said /\ supplied' = supplied
      /\ payload' = [s \in Steps |-> IF s \in Writes THEN Remapped(s) ELSE payload[s]]
  BY DEF Check, running
<1>3. \A w \in Writes : w \in Steps /\ DOMAIN payload[w] = WriteFields /\ payload'[w] = Remapped(w)
  <2>1. \A w \in Writes : w \in Steps /\ w < next
    BY <1>2 DEF FInv, PlanOK, Writes
  <2> QED  BY <1>2, <2>1 DEF CInv, PayloadsOK
<1>4. ASSUME NEW w \in ParsedWrites PROVE Settled(steps'[w].config, payload'[w], supplied'[w])
  <2>1. w \in Writes /\ Settled(steps[w].config, payload[w], supplied[w])
    BY DEF EInv, SettledOK, ParsedWrites
  <2>2. /\ payload'[w].table = payload[w].table /\ payload'[w].mode = payload[w].mode
        /\ payload'[w].static = payload[w].static
    BY <1>3, <2>1, RemappedKeeps
  <2> QED  BY <1>2, <2>1, <2>2, SettledStays
<1>5. phase' # "dropped"
  BY DEF Check
<1>6. ASSUME phase' = "incomplete"
      PROVE  missing'.columns = Missing(payload'[missing'.step]) /\ missing'.columns # {}
  <2> DEFINE stops == {s \in Writes : Unknown(s) \/ Missing(payload[s]) # {}}
             first == Min(stops)
  <2>1. /\ stops # {} /\ ~Unknown(first)
        /\ missing' = [step |-> first, columns |-> Missing(payload[first])]
    BY <1>6 DEF Check
  <2>2. stops \subseteq Nat
    BY DEF FInv, StepsOK, Writes
  <2> HIDE DEF stops
  <2>3. first \in stops
    BY <2>1, <2>2, MinIn
  <2>4. first \in Writes /\ Missing(payload[first]) # {}
    BY <2>1, <2>3 DEF stops
  <2> HIDE DEF first
  <2>5. Missing(payload'[first]) = Missing(payload[first])
    <3>1. payload'[first] = Remapped(first)
      BY <1>3, <2>4
    <3>2. DOMAIN payload[first] = WriteFields
      BY <1>3, <2>4
    <3>3. PICK p : p = payload[first]
      OBVIOUS
    <3>4. PICK q : q = Remapped(first)
      OBVIOUS
    <3>5. /\ q.table = p.table /\ q.mode = p.mode /\ q.static = p.static
          /\ q.columns = p.columns /\ q.optional = p.optional /\ q.resolved = p.resolved
      BY <3>2, <3>3, <3>4, RemappedKeeps
    <3>6. Missing(q) = Missing(p)
      BY <3>5 DEF Missing, MissingElsewhere
    <3> QED  BY <3>1, <3>3, <3>4, <3>6
  <2> QED  BY <2>1, <2>4, <2>5
<1>7. (\A w \in Writes : DOMAIN steps'[w].config = ConfigFields) /\ DOMAIN supplied' = Steps
  BY <1>2 DEF EInv, ConfigsOK
<1> QED  BY <1>1, <1>2, <1>4, <1>5, <1>6, <1>7, PlanSettles

\* The form is skipped only for an update, whose time of change is then set
\* once more.
LEMMA SkipFormSettles ==
    ASSUME FInv, CInv, EInv, SkipForm
    PROVE  EInv'
<1> DEFINE m == missing.step
<1>1. PlanEffect
  BY SkipFormKeeps
<1>2. /\ phase = "incomplete" /\ phase' = "optional" /\ steps' = steps /\ said' = said
      /\ supplied' = supplied /\ payload[m].mode = "update"
  BY DEF SkipForm, Unread, isWriteIntentComplete
<1>3. m \in Writes /\ Writes \subseteq Steps /\ DOMAIN payload = Steps
  BY <1>2 DEF FInv, PlanOK, Writes
<1>4. DOMAIN payload[m] = WriteFields
  BY <1>2, <1>3 DEF FInv, PlanOK, CInv, PayloadsOK, Writes
<1>5. ASSUME NEW w \in ParsedWrites PROVE Settled(steps'[w].config, payload'[w], supplied'[w])
  <2>1. w \in Writes /\ Settled(steps[w].config, payload[w], supplied[w])
    BY DEF EInv, SettledOK, ParsedWrites
  <2>2. CASE payload'[w] = payload[w]
    BY <1>2, <2>1, <2>2
  <2>3. CASE payload'[w] # payload[w]
    <3>1. /\ w = m /\ HasColumn(Crm, payload[m].table, "updated_at")
          /\ payload' = [payload EXCEPT ![m].static = Over([c \in {"updated_at"} |-> Now], @)]
      BY <1>3, <2>1, <2>3 DEF SkipForm
    <3> DEFINE config == steps[w].config
               p == payload[w]
               q == payload'[w]
               A == supplied[w]
    <3>2. q = [p EXCEPT !.static = Over([c \in {"updated_at"} |-> Now], p.static)]
      BY <1>3, <3>1
    <3>3. DOMAIN p = WriteFields /\ p.mode = "update" /\ HasColumn(Crm, p.table, "updated_at")
      BY <1>2, <1>4, <3>1
    <3>4. Settled(config, p, A)
      BY <2>1
    <3> HIDE DEF config, p, q, A
    <3>5. /\ q.table = p.table /\ q.mode = "update"
          /\ q.static = Over([c \in {"updated_at"} |-> Now], p.static)
      BY <3>2, <3>3 DEF WriteFields
    <3>6. /\ DOMAIN q.static = DOMAIN p.static \cup {"updated_at"}
          /\ q.static["updated_at"] = Now
          /\ \A c \in DOMAIN p.static \ {"updated_at"} : q.static[c] = p.static[c]
      BY <3>5 DEF Over
    <3>7. AutoSettled(config, q, A)
      <4>1. "updated_at" \in DOMAIN AutoValues(config) => AutoValues(config)["updated_at"] = Now
        BY AutoAre
      <4> QED  BY <3>4, <3>5, <3>6, <4>1 DEF Settled, AutoSettled
    <3>8. LiteralsSettled(config, q, A)
      BY <3>3, <3>4, <3>5, <3>6 DEF Settled, LiteralsSettled
    <3>9. Accepted(p.table, "updated_at", Now)
      <4>1. /\ ColumnOf(Crm, p.table, "updated_at").type \notin IntTypes
            /\ ColumnOf(Crm, p.table, "updated_at").enum = <<>>
        BY <3>3, CrmColumn
      <4>2. enumValues(ColumnOf(Crm, p.table, "updated_at")) = <<>>
        BY <4>1 DEF enumValues
      <4>3. sqlTypeToJsType(ColumnOf(Crm, p.table, "updated_at").type) # "string" =>
                Overlooked(p.table, "updated_at", Now)
        BY <3>3, <4>1 DEF Overlooked
      <4> QED  BY <4>2, <4>3 DEF Accepted
    <3>10. WordsSettled(q, A)
      BY <3>4, <3>5, <3>6, <3>9 DEF Settled, WordsSettled
    <3>11. Settled(config, q, A)
      BY <3>7, <3>8, <3>10 DEF Settled
    <3> QED  BY <1>2, <3>11 DEF config, q, A
  <2> QED  BY <2>2, <2>3
<1>6. (\A w \in Writes : DOMAIN steps'[w].config = ConfigFields) /\ DOMAIN supplied' = Steps
  BY <1>2 DEF EInv, ConfigsOK
<1> QED  BY <1>1, <1>2, <1>5, <1>6, PlanSettles

\* A form that is filled in leaves nothing missing: of the columns that are
\* missing, those that are required are insisted on.
LEMMA FormCompletes ==
    ASSUME NEW p, DOMAIN p = WriteFields, NEW V, NEW f, DOMAIN f = V, Missing(p) # {},
           HasTable(Crm, p.table) =>
               {c \in Missing(p) \cap ColumnNames(Crm, p.table) : Required(ColumnOf(Crm, p.table, c))} \subseteq V
    PROVE  StillMissing(WithValues(p, f)) = {}
<1> DEFINE q == WithValues(p, f)
           mode == IF p.mode = "update" THEN "update" ELSE "insert"
<1>1. /\ q.table = p.table /\ q.mode = p.mode /\ q.optional = p.optional /\ q.resolved = p.resolved
      /\ q.static = Over(f, p.static)
  BY DEF WithValues, WriteFields
<1>2. DOMAIN Over(f, p.static) = V \cup DOMAIN p.static
  BY DEF Over
<1>3. SUFFICES ASSUME HasTable(Crm, p.table),
                      NEW c \in getUserSuppliedRequired(p.table, mode, V \cup DOMAIN p.static),
                      Required(ColumnOf(Crm, p.table, c)), c \notin p.optional \cup p.resolved
               PROVE  FALSE
  <2> HIDE DEF q
  <2>1. StillMissing(q) # {} => \E c \in getUserSuppliedRequired(p.table, mode, V \cup DOMAIN p.static) :
             HasTable(Crm, p.table) /\ Required(ColumnOf(Crm, p.table, c)) /\ c \notin p.optional \cup p.resolved
    BY <1>1, <1>2 DEF StillMissing
  <2> QED  BY <1>3, <2>1 DEF q
<1>4. p.mode # "delete"
  BY DEF Missing, MissingElsewhere
<1>5. /\ c \in getUserSuppliedRequired(p.table, mode, DOMAIN p.static)
      /\ c \notin V /\ c \in ColumnNames(Crm, p.table)
  BY <1>3 DEF getUserSuppliedRequired, ColumnNames
<1>6. c \in Missing(p)
  BY <1>3, <1>4, <1>5 DEF Missing
<1> QED  BY <1>3, <1>5, <1>6

\* The values of the form become literals of the step; the other literals and
\* the planner's values stay.
LEMMA FilledConfig ==
    ASSUME NEW cf, NEW cg, NEW entries, DOMAIN cf = ConfigFields,
           cg = [cf EXCEPT !.fields = Over(entries, cf.fields)]
    PROVE  /\ cg.table = cf.table /\ AutoValues(cg) = AutoValues(cf) /\ DOMAIN cg = ConfigFields
           /\ \A c : c \notin DOMAIN entries /\ c \in DOMAIN Literals(cg) =>
                     c \in DOMAIN Literals(cf) /\ Literals(cg)[c] = Literals(cf)[c]
<1>1. /\ cg.table = cf.table /\ cg.operation = cf.operation /\ cg.array = cf.array
      /\ DOMAIN cg = ConfigFields /\ cg.fields = Over(entries, cf.fields)
  BY DEF ConfigFields
<1>2. AutoValues(cg) = AutoValues(cf)
  BY <1>1 DEF AutoValues
<1>3. ASSUME NEW c, c \notin DOMAIN entries
      PROVE  /\ c \in DOMAIN cg.fields <=> c \in DOMAIN cf.fields
             /\ c \in DOMAIN cf.fields => cg.fields[c] = cf.fields[c]
  BY <1>1, <1>3 DEF Over
<1>4. ASSUME NEW c, c \notin DOMAIN entries, c \in DOMAIN cg.fields
      PROVE  c \in DynamicFields(cg) <=> c \in DynamicFields(cf)
  BY <1>1, <1>3, <1>4 DEF DynamicFields
<1>5. ASSUME NEW c, c \notin DOMAIN entries, c \in DOMAIN Literals(cg)
      PROVE  c \in DOMAIN Literals(cf) /\ Literals(cg)[c] = Literals(cf)[c]
  <2>1. c \in DOMAIN cg.fields /\ c \notin DynamicFields(cg) /\ Literals(cg)[c] = cg.fields[c].value
    BY <1>5 DEF Literals
  <2>2. c \in DOMAIN cf.fields /\ c \notin DynamicFields(cf)
    BY <1>3, <1>4, <1>5, <2>1
  <2>3. c \in DOMAIN Literals(cf) /\ Literals(cf)[c] = cf.fields[c].value
    BY <2>2 DEF Literals
  <2> QED  BY <1>3, <1>5, <2>1, <2>2, <2>3
<1> QED  BY <1>1, <1>2, <1>5

LEMMA FillFormSettles ==
    ASSUME FInv, CInv, EInv, FillForm
    PROVE  EInv'
<1> DEFINE m == missing.step
<1>1. PlanEffect
  BY FillFormKeeps
<1>2. /\ phase = "incomplete" /\ said' = said /\ m \in Writes /\ Writes \subseteq Steps
      /\ DOMAIN payload = Steps /\ DOMAIN supplied = Steps
  BY DEF FillForm, Unread, FInv, PlanOK, Writes, EInv, ConfigsOK
<1>3. DOMAIN payload[m] = WriteFields
  BY <1>2 DEF FInv, PlanOK, CInv, PayloadsOK, Writes
<1>4. PICK V, f, entries :
         /\ DOMAIN f = V /\ DOMAIN entries = V /\ Insisted \subseteq V
         /\ payload' = [payload EXCEPT ![m] = WithValues(payload[m], f)]
         /\ steps' = [steps EXCEPT ![m].config.fields = Over(entries, @)]
         /\ supplied' = [supplied EXCEPT ![m] = @ \cup V]
         /\ phase' = IF StillMissing(WithValues(payload[m], f)) # {} THEN "dropped" ELSE "optional"
  <2>1. PICK V \in SUBSET Asked, raw \in {{}, Insisted} :
           LET values == FormValues(payload[m].table, V, raw)
               p == WithValues(payload[m], values)
               entries == [c \in V |-> [kind |-> "literal", field |-> "", value |-> values[c]]]
           IN  /\ Insisted \subseteq V
               /\ payload' = [payload EXCEPT ![m] = p]
               /\ steps' = [steps EXCEPT ![m].config.fields = Over(entries, @)]
               /\ supplied' = [supplied EXCEPT ![m] = @ \cup V]
               /\ phase' = IF StillMissing(p) # {} THEN "dropped" ELSE "optional"
    BY DEF FillForm
  <2> DEFINE values == FormValues(payload[m].table, V, raw)
  <2>2. DOMAIN values = V
    BY DEF FormValues
  <2>3. PICK entries : /\ entries = [c \in V |-> [kind |-> "literal", field |-> "", value |-> values[c]]]
                       /\ DOMAIN entries = V
    <3>1. DOMAIN [c \in V |-> [kind |-> "literal", field |-> "", value |-> values[c]]] = V
      BY Zenon
    <3> QED  BY <3>1, Zenon
  <2>4. /\ Insisted \subseteq V
        /\ payload' = [payload EXCEPT ![m] = WithValues(payload[m], values)]
        /\ steps' = [steps EXCEPT ![m].config.fields = Over(entries, @)]
        /\ supplied' = [supplied EXCEPT ![m] = @ \cup V]
        /\ phase' = IF StillMissing(WithValues(payload[m], values)) # {} THEN "dropped" ELSE "optional"
    BY <2>1, <2>3
  <2> HIDE DEF values, m
  <2> QED  BY <2>2, <2>3, <2>4
<1>5. StillMissing(WithValues(payload[m], f)) = {}
  <2>1. missing.columns = Missing(payload[m]) /\ Missing(payload[m]) # {}
    BY <1>2 DEF EInv, AskedOK
  <2>2. HasTable(Crm, payload[m].table) =>
           {c \in Missing(payload[m]) \cap ColumnNames(Crm, payload[m].table) :
               Required(ColumnOf(Crm, payload[m].table, c))} \subseteq V
    BY <1>2, <1>4, <2>1 DEF Insisted, Asked
  <2> HIDE DEF m
  <2> QED  BY <1>3, <1>4, <2>1, <2>2, FormCompletes
<1>6. phase' = "optional"
  BY <1>4, <1>5
<1>7. DOMAIN steps = Steps /\ m \in DOMAIN steps /\ "config" \in DOMAIN steps[m]
  BY <1>2 DEF FInv, StepsOK, Steps, StepFields
<1>8. /\ steps'[m].config = [steps[m].config EXCEPT !.fields = Over(entries, steps[m].config.fields)]
      /\ \A w \in Steps \ {m} : steps'[w] = steps[w]
  BY <1>4, <1>7
<1>9. \A w \in Writes : DOMAIN steps'[w].config = ConfigFields
  BY <1>2, <1>8 DEF EInv, ConfigsOK
<1>10. /\ payload'[m] = WithValues(payload[m], f) /\ supplied'[m] = supplied[m] \cup V
       /\ \A w \in Steps \ {m} : payload'[w] = payload[w] /\ supplied'[w] = supplied[w]
       /\ DOMAIN supplied' = Steps
  BY <1>2, <1>4
<1>11. ASSUME NEW w \in ParsedWrites PROVE Settled(steps'[w].config, payload'[w], supplied'[w])
  <2>1. w \in Writes /\ w \in Steps /\ Settled(steps[w].config, payload[w], supplied[w])
    BY DEF EInv, SettledOK, ParsedWrites, Writes
  <2>2. CASE w # m
    BY <1>8, <1>10, <2>1, <2>2
  <2>3. CASE w = m
    <3> DEFINE B == supplied[m] \cup V
               q == WithValues(payload[m], f)
               cf == steps[m].config
               cg == steps'[m].config
    <3>1. Settled(cf, q, B)
      BY <1>3, <1>4, <2>1, <2>3, SettledLaid
    <3>2. DOMAIN cf = ConfigFields
      BY <1>2 DEF EInv, ConfigsOK
    <3>3. /\ cg.table = cf.table /\ AutoValues(cg) = AutoValues(cf)
          /\ \A c : c \notin V /\ c \in DOMAIN Literals(cg) =>
                     c \in DOMAIN Literals(cf) /\ Literals(cg)[c] = Literals(cf)[c]
      <4> HIDE DEF cf, cg
      <4>1. cg = [cf EXCEPT !.fields = Over(entries, cf.fields)]
        BY <1>8 DEF cf, cg
      <4> QED  BY <1>4, <3>2, <4>1, FilledConfig
    <3> HIDE DEF B, q, cf, cg
    <3>4. Settled(cg, q, B)
      <4>1. V \subseteq B
        BY DEF B
      <4> QED  BY <3>1, <3>3, <4>1, SettledStays
    <3> QED  BY <1>10, <2>3, <3>4 DEF B, q, cg
  <2> QED  BY <2>2, <2>3
<1> QED  BY <1>1, <1>2, <1>6, <1>9, <1>10, <1>11, PlanSettles

LEMMA FillUnresolvableSettles ==
    ASSUME FInv, CInv, EInv, FillUnresolvable
    PROVE  EInv'
<1> DEFINE m == missing.step
<1>1. PlanEffect
  BY FillUnresolvableKeeps
<1>2. /\ phase = "unresolvable" /\ phase' = "optional" /\ said' = said /\ steps' = steps
      /\ m \in Writes /\ Writes \subseteq Steps /\ DOMAIN payload = Steps /\ DOMAIN supplied = Steps
  BY DEF FillUnresolvable, Unread, FInv, PlanOK, Writes, EInv, ConfigsOK
<1>3. DOMAIN payload[m] = WriteFields
  BY <1>2 DEF FInv, PlanOK, CInv, PayloadsOK, Writes
<1>4. PICK V, f : /\ DOMAIN f = V /\ payload' = [payload EXCEPT ![m] = WithValues(payload[m], f)]
                  /\ supplied' = [supplied EXCEPT ![m] = supplied[m] \cup V]
  <2>1. \A t, V, raw : DOMAIN FormValues(t, V, raw) = V
    BY DEF FormValues
  <2>2. PICK V, raw :
           /\ payload' = [payload EXCEPT ![m] = WithValues(@, FormValues(@.table, V, raw))]
           /\ supplied' = [supplied EXCEPT ![m] = @ \cup V]
    BY DEF FillUnresolvable
  <2> QED  BY <2>1, <2>2
<1>5. /\ payload'[m] = WithValues(payload[m], f) /\ supplied'[m] = supplied[m] \cup V
      /\ \A w \in Steps \ {m} : payload'[w] = payload[w] /\ supplied'[w] = supplied[w]
      /\ DOMAIN supplied' = Steps
  BY <1>2, <1>4
<1>6. ASSUME NEW w \in ParsedWrites PROVE Settled(steps'[w].config, payload'[w], supplied'[w])
  <2>1. w \in Writes /\ w \in Steps /\ Settled(steps[w].config, payload[w], supplied[w])
    BY DEF EInv, SettledOK, ParsedWrites, Writes
  <2>2. CASE w # m
    BY <1>2, <1>5, <2>1, <2>2
  <2>3. CASE w = m
    BY <1>2, <1>3, <1>4, <1>5, <2>1, <2>3, SettledLaid
  <2> QED  BY <2>2, <2>3
<1>7. \A w \in Writes : DOMAIN steps'[w].config = ConfigFields
  BY <1>2 DEF EInv, ConfigsOK
<1> QED  BY <1>1, <1>2, <1>5, <1>6, <1>7, PlanSettles

LEMMA OfferSettles ==
    ASSUME FInv, CInv, EInv, OfferOptional
    PROVE  EInv'
<1>1. PlanEffect
  BY OfferOptionalKeeps
<1>2. /\ phase = "optional" /\ phase' = "preflight" /\ said' = said /\ steps' = steps
      /\ Writes \subseteq Steps
  BY DEF OfferOptional, Unread, Writes
<1>3. \A w \in Writes : DOMAIN payload[w] = WriteFields
  BY <1>2 DEF FInv, PlanOK, CInv, PayloadsOK, Writes
<1>4. PICK V :
         /\ payload' = [s \in Steps |->
                IF s \notin Writes THEN payload[s]
                ELSE WithValues(payload[s], [c \in V \cap Offered(s) |->
                                                Typed(ColumnOf(LiveTables, payload[s].table, c))])]
         /\ supplied' = [s \in Steps |-> IF s \in Writes THEN supplied[s] \cup (V \cap Offered(s)) ELSE {}]
  BY DEF OfferOptional
<1>5. ASSUME NEW w \in ParsedWrites PROVE Settled(steps'[w].config, payload'[w], supplied'[w])
  <2>1. w \in Writes /\ w \in Steps /\ Settled(steps[w].config, payload[w], supplied[w])
    BY DEF EInv, SettledOK, ParsedWrites, Writes
  <2>2. PICK f : DOMAIN f = V \cap Offered(w) /\ payload'[w] = WithValues(payload[w], f)
    <3> DEFINE g == [c \in V \cap Offered(w) |-> Typed(ColumnOf(LiveTables, payload[w].table, c))]
    <3>1. payload'[w] = WithValues(payload[w], g) /\ DOMAIN g = V \cap Offered(w)
      BY <1>4, <2>1
    <3> HIDE DEF g
    <3> QED  BY <3>1
  <2>3. supplied'[w] = supplied[w] \cup (V \cap Offered(w))
    BY <1>4, <2>1
  <2> QED  BY <1>2, <1>3, <2>1, <2>2, <2>3, SettledLaid
<1>6. (\A w \in Writes : DOMAIN steps'[w].config = ConfigFields) /\ DOMAIN supplied' = Steps
  BY <1>2, <1>4 DEF EInv, ConfigsOK
<1> QED  BY <1>1, <1>2, <1>5, <1>6, PlanSettles

\* A step that leaves the plan as it is.
LEMMA PlannedSettles ==
    ASSUME EInv, UNCHANGED planned, phase' \in {"preflight", "ready", "refused", "error"} \/ phase' = phase
    PROVE  EInv'
<1>1. /\ steps' = steps /\ next' = next /\ payload' = payload /\ said' = said
      /\ missing' = missing /\ supplied' = supplied
  BY DEF planned
<1>2. Steps' = Steps /\ Writes' = Writes /\ ParsedWrites' = ParsedWrites
  BY <1>1 DEF Steps, Writes, Kind, ParsedWrites, NoPayload
<1>3. ConfigsOK' /\ AskedOK'
  BY <1>1, <1>2 DEF EInv, ConfigsOK, AskedOK
<1>4. SettledOK'
  BY <1>1, <1>2 DEF EInv, SettledOK
<1> QED  BY <1>3, <1>4 DEF EInv

LEMMA LaunchSettles ==
    ASSUME FInv, CInv, EInv, ExecuteAsIs \/ Preflight
    PROVE  EInv'
<1>1. PlanEffect
  BY LaunchKeeps
<1>2. /\ phase' \in {"preflight", "ready", "refused"}
      /\ UNCHANGED <<steps, payload, said, supplied>>
  BY DEF ExecuteAsIs, Preflight, Unread
<1>3. \A w \in ParsedWrites : Settled(steps'[w].config, payload'[w], supplied'[w])
  BY <1>2 DEF EInv, SettledOK
<1>4. (\A w \in Writes : DOMAIN steps'[w].config = ConfigFields) /\ DOMAIN supplied' = Steps
  BY <1>2 DEF EInv, ConfigsOK
<1> QED  BY <1>1, <1>2, <1>3, <1>4, PlanSettles

LEMMA RunStepSettles ==
    ASSUME EInv, NEW s \in Steps, RunStep(s)
    PROVE  EInv'
<1>1. UNCHANGED planned /\ (phase' = phase \/ phase' = "error")
  <2>1. CASE RunQuery(s)
    BY <2>1 DEF RunQuery
  <2>2. CASE RunTransform(s)
    BY <2>2 DEF RunTransform, Throws
  <2>3. CASE RunLLM(s)
    BY <2>3 DEF RunLLM
  <2>4. CASE RunHttp(s)
    BY <2>4 DEF RunHttp, Throws
  <2>5. CASE RunMerge(s)
    BY <2>5 DEF RunMerge
  <2>6. CASE RunWrite(s)
    BY <2>6 DEF RunWrite, Throws
  <2> QED  BY <2>1, <2>2, <2>3, <2>4, <2>5, <2>6 DEF RunStep
<1> QED  BY <1>1, PlannedSettles

LEMMA NextSettles ==
    ASSUME FInv, CInv, EInv, [Next]_vars
    PROVE  EInv'
<1>1. CASE EnrichFails
  BY <1>1, FailedSettled DEF EnrichFails, running
<1>2. CASE UNCHANGED vars
  <2>1. UNCHANGED planned /\ phase' = phase
    BY <1>2 DEF vars, planned
  <2> QED  BY <2>1, PlannedSettles
<1> QED
  BY <1>1, <1>2, EnrichStepSettles, RunStepSettles, CheckSettles, SkipFormSettles, FillFormSettles,
     FillUnresolvableSettles, OfferSettles, LaunchSettles DEF Next

LEMMA EnrichmentInvariance == Spec => [](FInv /\ CInv /\ EInv)
<1>1. Init => CInv /\ EInv
  BY InitCInv, InitEInv
<1>2. FInv /\ CInv /\ EInv /\ [Next]_vars => CInv' /\ EInv'
  BY NextColumns, NextSettles
<1> QED  BY <1>1, <1>2, FlowInvariance, PTL DEF Spec

\* The precedence that enrichWriteNode promises holds to the end, for every
\* schema, config and answer: what the planner sets itself is what is written
\* whatever the model answered, and a literal of the step is kept, unless the
\* column does not take the value or the user typed another.
THEOREM PrecedenceIsKept == Spec => []PrecedenceKept
<1>1. EInv => SessionApplied
  BY DEF EInv, SettledOK, Settled, AutoSettled, SessionApplied
<1>2. EInv => LiteralKept
  BY DEF EInv, SettledOK, Settled, LiteralsSettled, LiteralKept
<1>3. EInv => PrecedenceKept
  BY <1>1, <1>2 DEF PrecedenceKept
<1> QED  BY <1>3, EnrichmentInvariance, PTL

\* For every schema, config and answer: the validation before the execution
\* refuses a text that the cleaning left only in the columns and for the texts
\* that the cleaning overlooks (so never in a column of texts, and no word in
\* one of whole numbers without a CHECK), and a form that is filled in completes its step: no plan is dropped
\* after the user answered.
THEOREM ChecksDoAgree == Spec => []ChecksAgree
<1>1. ASSUME NEW p, NEW c, c \in DOMAIN p.static, p.static[c].k \in {"text", "digits"},
             ~Overlooked(p.table, c, p.static[c]), Accepted(p.table, c, p.static[c])
      PROVE  c \notin RefusedValues(p)
  <2>1. ~MistypedValue(p.table, c, p.static[c])
    <3>1. sqlTypeToJsType(TypeOf(p.table, c)) = "string"
      BY <1>1 DEF Accepted, TypeOf, sqlTypeToJsType, NumberTypes, IntTypes
    <3> QED  BY <1>1, <3>1 DEF MistypedValue, JsType
  <2>2. ~OutsideEnum(p.table, c, p.static[c])
    BY <1>1 DEF Accepted, OutsideEnum
  <2> QED  BY <2>1, <2>2 DEF RefusedValues
<1>2. EInv => TextsAccepted
  BY <1>1 DEF EInv, SettledOK, Settled, WordsSettled, TextsAccepted
<1>3. EInv => AskedOnce
  BY DEF EInv, AskedOK, AskedOnce
<1>4. EInv => ChecksAgree
  BY <1>2, <1>3 DEF ChecksAgree
<1> QED  BY <1>4, EnrichmentInvariance, PTL
=============================================================================
