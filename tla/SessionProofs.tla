---------------------------- MODULE SessionProofs ----------------------------
(***************************************************************************)
(* Theorems about SessionHistory, for every length of a session.           *)
(***************************************************************************)
EXTENDS SessionHistory, SequenceTheorems, TLAPS

\* The turns of a snapshot tell about turns made so far, in order.
CallOK(c) ==
    /\ InOrder(c.keep)
    /\ \A j \in DOMAIN c.keep : Before(c.sum, c.keep[j])
    /\ c.sum \cup Covered(c.keep) \subseteq 1..added
    /\ ~overlap /\ ~failed => c.sum \cup Covered(c.keep) = 1..added

IInv ==
    /\ TypeOK
    /\ InOrder(turns)
    /\ Covered(turns) \subseteq 1..added
    /\ CompleteUnlessOverlap
    /\ \A c \in calls : CallOK(c)

\* Appending the next turn keeps the history in order.
LEMMA AppendTurn ==
    ASSUME NEW s \in Seq(Turn), NEW m \in Nat, InOrder(s), Covered(s) \subseteq 1..m
    PROVE  LET r == Append(s, {m + 1})
           IN  /\ r \in Seq(Turn) /\ InOrder(r)
               /\ Covered(r) = Covered(s) \cup {m + 1}
<1> DEFINE r == Append(s, {m + 1})
<1>1. /\ r \in Seq(Turn) /\ DOMAIN r = DOMAIN s \cup {Len(s) + 1}
      /\ r[Len(s) + 1] = {m + 1} /\ \A i \in DOMAIN s : r[i] = s[i]
  BY DEF Turn
<1> HIDE DEF r
<1>2. Covered(r) = Covered(s) \cup {m + 1}
  BY <1>1 DEF Covered
<1>3. InOrder(r)
  <2> SUFFICES ASSUME NEW i \in DOMAIN r, NEW j \in DOMAIN r, i < j,
                      NEW x \in r[i], NEW y \in r[j]
               PROVE  x < y
    BY DEF InOrder, Before
  <2>1. i \in DOMAIN s /\ r[i] = s[i]
    BY <1>1
  <2>2. CASE j \in DOMAIN s
    BY <1>1, <2>1, <2>2 DEF InOrder, Before
  <2>3. CASE j = Len(s) + 1
    <3>1. x \in 1..m
      BY <2>1 DEF Covered
    <3> QED
      BY <1>1, <2>3, <3>1
  <2> QED
    BY <1>1, <2>2, <2>3
<1> QED
  BY <1>1, <1>2, <1>3 DEF r

\* What the snapshot of a summarisation covers.
LEMMA SnapshotFacts ==
    ASSUME NEW s \in Seq(Turn), InOrder(s), Len(s) > MaxTurns
    PROVE  LET c == Snapshot(s)
           IN  /\ c \in Call /\ InOrder(c.keep)
               /\ \A j \in DOMAIN c.keep : Before(c.sum, c.keep[j])
               /\ c.sum \cup Covered(c.keep) = Covered(s)
<1> DEFINE K == SummarizedTurns
           a == SubSeq(s, 1, K)
           b == SubSeq(s, K + 1, Len(s))
<1>1. K \in Nat /\ K < Len(s) /\ Len(s) \in Nat /\ MaxTurns \in Nat
  BY SessionAssumption
<1>2. /\ a \in Seq(Turn) /\ DOMAIN a = 1..K /\ \A i \in 1..K : a[i] = s[i]
  BY <1>1
<1>3. /\ b \in Seq(Turn) /\ DOMAIN b = 1..(Len(s) - K)
      /\ \A i \in 1..(Len(s) - K) : b[i] = s[K + i]
  BY <1>1
<1> HIDE DEF a, b
<1>4. InOrder(b)
  <2> SUFFICES ASSUME NEW i \in DOMAIN b, NEW j \in DOMAIN b, i < j
               PROVE  Before(b[i], b[j])
    BY DEF InOrder
  <2>1. K + i \in DOMAIN s /\ K + j \in DOMAIN s /\ K + i < K + j
    BY <1>1, <1>3
  <2> QED
    BY <1>3, <2>1 DEF InOrder
<1>5. \A j \in DOMAIN b : Before(Covered(a), b[j])
  <2> SUFFICES ASSUME NEW j \in DOMAIN b, NEW i \in DOMAIN a
               PROVE  Before(a[i], b[j])
    BY DEF Before, Covered
  <2>1. i \in DOMAIN s /\ K + j \in DOMAIN s /\ i < K + j
    BY <1>1, <1>2, <1>3
  <2> QED
    BY <1>2, <1>3, <2>1 DEF InOrder
<1>6. Covered(a) \cup Covered(b) = Covered(s)
  <2>1. \A i \in DOMAIN s : (i \in 1..K) \/ (i - K \in 1..(Len(s) - K) /\ i = K + (i - K))
    BY <1>1
  <2>2. Covered(s) \subseteq Covered(a) \cup Covered(b)
    <3> SUFFICES ASSUME NEW i \in DOMAIN s
                 PROVE  (\E k \in DOMAIN a : a[k] = s[i]) \/ (\E k \in DOMAIN b : b[k] = s[i])
      BY DEF Covered
    <3>1. CASE i \in 1..K
      BY <1>2, <3>1
    <3>2. CASE i - K \in 1..(Len(s) - K) /\ i = K + (i - K)
      BY <1>3, <3>2
    <3> QED
      BY <2>1, <3>1, <3>2
  <2>3. Covered(a) \subseteq Covered(s) /\ Covered(b) \subseteq Covered(s)
    <3>1. \A i \in DOMAIN a : i \in DOMAIN s /\ a[i] = s[i]
      BY <1>1, <1>2
    <3>2. \A i \in DOMAIN b : K + i \in DOMAIN s /\ b[i] = s[K + i]
      BY <1>1, <1>3
    <3>3. Covered(a) \subseteq Covered(s)
      BY <3>1 DEF Covered
    <3>4. Covered(b) \subseteq Covered(s)
      BY <3>2 DEF Covered
    <3> QED
      BY <3>3, <3>4
  <2> QED
    BY <2>2, <2>3
<1>7. Covered(a) \in Turn
  <2>1. \A i \in DOMAIN a : a[i] \in Turn
    BY <1>2, ElementOfSeq, LenProperties
  <2>2. \A i \in DOMAIN a : a[i] \subseteq Nat
    BY <2>1 DEF Turn
  <2>3. \A x \in Covered(a) : x \in Nat
    BY <2>2 DEF Covered
  <2> QED
    BY <2>3 DEF Turn
<1>8. Snapshot(s) = [sum |-> Covered(a), keep |-> b]
  BY DEF Snapshot, a, b
<1> QED
  BY <1>3, <1>4, <1>5, <1>6, <1>7, <1>8 DEF Call

\* addTurn keeps the invariant.
LEMMA AddTurnKeeps ==
    ASSUME IInv, addTurn
    PROVE  IInv'
<1> DEFINE r == Append(turns, {added + 1})
           c == Snapshot(r)
<1>1. /\ TypeOK /\ InOrder(turns) /\ Covered(turns) \subseteq 1..added
      /\ CompleteUnlessOverlap /\ \A d \in calls : CallOK(d)
      /\ added \in Nat /\ turns \in Seq(Turn) /\ calls \subseteq Call
  BY DEF IInv, TypeOK
<1>2. /\ turns' = r /\ added' = added + 1 /\ failed' = failed
      /\ overlap' = (overlap \/ calls # {})
      /\ calls' = calls \/ (Len(r) > MaxTurns /\ calls' = calls \cup {c})
  BY DEF addTurn
<1>3. r \in Seq(Turn) /\ InOrder(r) /\ Covered(r) = Covered(turns) \cup {added + 1}
  BY <1>1, AppendTurn
<1> HIDE DEF r
<1>4. 1..(added + 1) = (1..added) \cup {added + 1}
  BY <1>1
<1>5. ~overlap' /\ ~failed' => Covered(r) = 1..(added + 1)
  BY <1>1, <1>2, <1>3, <1>4 DEF CompleteUnlessOverlap
<1>6. Len(r) > MaxTurns =>
         /\ c \in Call /\ InOrder(c.keep)
         /\ \A j \in DOMAIN c.keep : Before(c.sum, c.keep[j])
         /\ c.sum \cup Covered(c.keep) = Covered(r)
  BY <1>3, SnapshotFacts
<1> HIDE DEF c
<1>7. calls' \subseteq Call
  BY <1>1, <1>2, <1>6
<1>8. TypeOK'
  BY <1>1, <1>2, <1>3, <1>7 DEF TypeOK
<1>9. InOrder(turns') /\ Covered(turns') \subseteq 1..added' /\ CompleteUnlessOverlap'
  BY <1>1, <1>2, <1>3, <1>4, <1>5 DEF CompleteUnlessOverlap
<1>10. ASSUME NEW d \in calls' PROVE CallOK(d)'
  <2>1. CASE d \in calls
    <3>1. overlap'
      BY <1>2, <2>1
    <3> QED
      BY <1>1, <1>2, <1>4, <2>1, <3>1 DEF CallOK
  <2>2. CASE Len(r) > MaxTurns /\ d = c
    BY <1>1, <1>2, <1>3, <1>4, <1>5, <1>6, <2>2 DEF CallOK
  <2> QED
    BY <1>2, <2>1, <2>2
<1> QED
  BY <1>8, <1>9, <1>10 DEF IInv

\* A history rebuilt from a snapshot: a first turn u, then the kept turns.
LEMMA RebuiltHistory ==
    ASSUME NEW c \in Call, NEW u \in Turn, u \subseteq c.sum, InOrder(c.keep),
           \A j \in DOMAIN c.keep : Before(c.sum, c.keep[j])
    PROVE  LET r == <<u>> \o c.keep
           IN  r \in Seq(Turn) /\ InOrder(r) /\ Covered(r) = u \cup Covered(c.keep)
<1> DEFINE k == c.keep
           r == <<u>> \o k
<1>1. k \in Seq(Turn)
  BY DEF Call
<1>2. /\ r \in Seq(Turn) /\ DOMAIN r = 1..(Len(k) + 1) /\ Len(k) \in Nat
      /\ DOMAIN k = 1..Len(k)
      /\ r[1] = u /\ \A i \in 2..(Len(k) + 1) : r[i] = k[i - 1]
  BY <1>1
<1> HIDE DEF r, k
<1>3. InOrder(r)
  <2> SUFFICES ASSUME NEW i \in DOMAIN r, NEW j \in DOMAIN r, i < j
               PROVE  Before(r[i], r[j])
    BY DEF InOrder
  <2>1. j - 1 \in DOMAIN k /\ r[j] = k[j - 1]
    BY <1>2
  <2>2. CASE i = 1
    BY <1>2, <2>1, <2>2 DEF Before, k
  <2>3. CASE i # 1
    <3>1. i - 1 \in DOMAIN k /\ r[i] = k[i - 1] /\ i - 1 < j - 1
      BY <1>2, <2>3
    <3> QED
      BY <2>1, <3>1 DEF InOrder, k
  <2> QED
    BY <2>2, <2>3
<1>4. Covered(r) = u \cup Covered(k)
  <2>1. u \subseteq Covered(r)
    BY <1>2 DEF Covered
  <2>2. Covered(k) \subseteq Covered(r)
    <3> SUFFICES ASSUME NEW i \in DOMAIN k PROVE k[i] \subseteq Covered(r)
      BY DEF Covered
    <3>1. i + 1 \in DOMAIN r /\ r[i + 1] = k[i]
      BY <1>2
    <3> QED
      BY <3>1 DEF Covered
  <2>3. Covered(r) \subseteq u \cup Covered(k)
    <3> SUFFICES ASSUME NEW i \in DOMAIN r PROVE r[i] \subseteq u \cup Covered(k)
      BY DEF Covered
    <3>1. CASE i = 1
      BY <1>2, <3>1
    <3>2. CASE i # 1
      <4>1. i - 1 \in DOMAIN k /\ r[i] = k[i - 1]
        BY <1>2, <3>2
      <4> QED
        BY <4>1 DEF Covered
    <3> QED
      BY <3>1, <3>2
  <2> QED
    BY <2>1, <2>2, <2>3
<1> QED
  BY <1>2, <1>3, <1>4 DEF r, k

\* The end of a summarisation, however it ends, keeps the invariant.
LEMMA SummaryKeeps ==
    ASSUME IInv, NEW c \in calls,
           SummaryResolves(c) \/ SummaryUnavailable(c) \/ SummaryRejected(c)
    PROVE  IInv'
<1>1. /\ c \in Call /\ CallOK(c) /\ \A d \in calls : CallOK(d)
      /\ calls \subseteq Call /\ added \in Nat /\ overlap \in BOOLEAN /\ failed \in BOOLEAN
      /\ added' = added /\ overlap' = overlap /\ calls' = calls \ {c}
      /\ failed' = failed \/ failed' = TRUE
  BY DEF IInv, TypeOK, SummaryResolves, SummaryUnavailable, SummaryRejected
<1>2. /\ turns' \in Seq(Turn) /\ InOrder(turns')
      /\ Covered(turns') \subseteq c.sum \cup Covered(c.keep)
      /\ ~failed' => Covered(turns') = c.sum \cup Covered(c.keep)
  <2>1. CASE SummaryResolves(c)
    <3>1. c.sum \in Turn
      BY <1>1 DEF Call
    <3> QED
      BY <1>1, <2>1, <3>1, RebuiltHistory DEF SummaryResolves, CallOK
  <2>2. CASE SummaryUnavailable(c)
    <3>1. {} \in Turn /\ {} \subseteq c.sum
      BY DEF Turn
    <3>2. turns' = <<{}>> \o c.keep /\ failed' = TRUE
      BY <2>2 DEF SummaryUnavailable
    <3>3. InOrder(c.keep) /\ \A j \in DOMAIN c.keep : Before(c.sum, c.keep[j])
      BY <1>1 DEF CallOK
    <3>4. turns' \in Seq(Turn) /\ InOrder(turns') /\ Covered(turns') = {} \cup Covered(c.keep)
      BY <1>1, <3>1, <3>2, <3>3, RebuiltHistory
    <3> QED
      BY <3>2, <3>4
  <2>3. CASE SummaryRejected(c)
    BY <1>1, <2>3 DEF SummaryRejected, CallOK, Call
  <2> QED
    BY <2>1, <2>2, <2>3
<1>3. TypeOK'
  BY <1>1, <1>2 DEF TypeOK
<1>4. Covered(turns') \subseteq 1..added' /\ CompleteUnlessOverlap'
  BY <1>1, <1>2 DEF CallOK, CompleteUnlessOverlap
<1>5. \A d \in calls' : CallOK(d)'
  BY <1>1 DEF CallOK
<1> QED
  BY <1>2, <1>3, <1>4, <1>5 DEF IInv

-----------------------------------------------------------------------------
\* The invariant holds in every reachable state.
LEMMA Invariance == Spec => []IInv
<1>1. Init => IInv
  <2> SUFFICES ASSUME Init PROVE IInv
    OBVIOUS
  <2>1. TypeOK
    <3>1. overlap \in BOOLEAN /\ failed \in BOOLEAN
      BY Zenon DEF Init
    <3>2. turns \in Seq(Turn) /\ added \in Nat /\ calls \subseteq Call
      BY DEF Init
    <3> QED
      BY <3>1, <3>2 DEF TypeOK
  <2>2. turns = <<>> /\ added = 0 /\ calls = {}
    BY DEF Init
  <2>3. DOMAIN turns = {}
    BY <2>2
  <2>4. Covered(turns) = {} /\ InOrder(turns)
    BY <2>3 DEF Covered, InOrder
  <2> QED
    BY <2>1, <2>2, <2>4, 1..0 = {} DEF IInv, CompleteUnlessOverlap
<1>2. IInv /\ [Next]_vars => IInv'
  <2> SUFFICES ASSUME IInv, [Next]_vars PROVE IInv'
    OBVIOUS
  <2>1. CASE addTurn
    BY <2>1, AddTurnKeeps
  <2>2. CASE \E c \in calls : SummaryResolves(c) \/ SummaryUnavailable(c) \/ SummaryRejected(c)
    BY <2>2, SummaryKeeps
  <2>3. CASE UNCHANGED vars
    BY <2>3 DEF vars, IInv, TypeOK, CallOK, CompleteUnlessOverlap
  <2> QED
    BY <2>1, <2>2, <2>3 DEF Next
<1> QED
  BY <1>1, <1>2, PTL DEF Spec

\* getHistory never shows a turn twice or out of order, however many
\* summarisations overlap and in whatever order they end.
THEOREM HistoryChronological == Spec => []Chronological
<1>1. IInv => Chronological
  BY DEF IInv, Chronological
<1> QED
  BY <1>1, Invariance, PTL

\* A session whose summarisations never overlap an addTurn and never fail
\* tells about all of its turns.
THEOREM HistoryComplete == Spec => []CompleteUnlessOverlap
<1>1. IInv => CompleteUnlessOverlap
  BY DEF IInv
<1> QED
  BY <1>1, Invariance, PTL

=============================================================================
