----------------------------- MODULE HttpProofs -----------------------------
(***************************************************************************)
(* The HTTP node keeps to its limits and returns complete and ordered      *)
(* output for every payload: any number of rows, workers, retries, chunks  *)
(* and any interval.                                                       *)
(*                                                                         *)
(* The queue is always the tail of 1, 2, ..., N, so an item is taken or    *)
(* not by its number alone.  A taken item is with one worker or stored,    *)
(* never both, and the requests sent for it follow from where it is.       *)
(***************************************************************************)
EXTENDS HttpNode, FiniteSetTheorems, SequenceTheorems, TLAPS

-----------------------------------------------------------------------------
(* The inductive invariant.                                                *)

Workers == IF job.batch THEN 1 ELSE job.concurrency
N == Items(job)
Taken == N - Len(queue)
Sole == job.batch \/ job.concurrency = 1

Holding == {"sleep", "fetch", "backoff", "threw"}
Fields == {"pc", "item", "attempt", "wait"}
OutRow == [row : Nat, ok : BOOLEAN, null : BOOLEAN]

Types ==
    /\ job \in Jobs
    /\ launched \in 0..Workers
    /\ DOMAIN worker = 1..Workers
    /\ \A w \in 1..Workers : /\ DOMAIN worker[w] = Fields
                             /\ worker[w].item \in Nat /\ worker[w].attempt \in Nat
    /\ queue \in Seq(Nat) /\ Len(queue) <= N
    /\ age \in Nat /\ since \in Nat /\ close \in BOOLEAN
    /\ sent \in [1..N -> Nat]
    /\ results \in Seq(OutRow)

\* The queue is what is left of the items, in their order.
QueueOK == \A i \in DOMAIN queue : queue[i] = Taken + i

\* Where a worker is, and what was sent for the item it holds.
WorkerOK(w) ==
    /\ worker[w].pc \in Holding \cup {"new", "done"}
    /\ worker[w].pc = "new" <=> w > launched
    /\ worker[w].pc \in Holding => worker[w].item \in 1..Taken
    /\ worker[w].pc \notin Holding => worker[w].item = 0
    /\ worker[w].pc = "done" => queue = <<>>
    /\ worker[w].pc = "sleep" => sent[worker[w].item] = 0
    /\ worker[w].pc \in {"fetch", "backoff"} => sent[worker[w].item] = worker[w].attempt + 1
    /\ worker[w].pc = "fetch" => worker[w].attempt <= (IF job.batch THEN 0 ELSE job.retries)
    /\ worker[w].pc = "backoff" => ~job.batch /\ worker[w].attempt < job.retries
    /\ Sole /\ worker[w].pc \in Holding => worker[w].item = Taken

WorkersOK == \A w \in 1..Workers : WorkerOK(w)

\* No item is with two workers.
Apart ==
    \A v, w \in 1..Workers :
        worker[v].item = worker[w].item /\ worker[w].item # 0 => v = w

Limit == IF job.batch THEN 1 ELSE job.retries + 1

SentOK ==
    \A i \in 1..N : /\ sent[i] <= Limit
                    /\ i > Taken => sent[i] = 0

\* Per row: what is stored was taken, is with no worker, and was asked for as
\* often as it had to be.
StoredOK ==
    ~job.batch =>
        \A i \in DOMAIN results :
            /\ results[i].row \in 1..Taken
            /\ \A w \in 1..Workers : worker[w].item # results[i].row
            /\ ~results[i].ok => results[i].null \/ sent[results[i].row] = job.retries + 1

\* Per row and in object mode: a row that was taken is with a worker or in the
\* output, once.
RowsOnce ==
    ~job.batch /\ ~job.array =>
        /\ \A i, j \in DOMAIN results : results[i].row = results[j].row => i = j
        /\ \A r \in 1..Taken : \/ \E w \in 1..Workers : worker[w].item = r
                               \/ \E i \in DOMAIN results : results[i].row = r

\* The rows of the first k chunks.
UpTo(k) ==
    IF k = 0 THEN 0
    ELSE IF job.chunk = 0 \/ k * job.chunk > job.rows THEN job.rows ELSE k * job.chunk

\* The chunks whose answers are stored.
Stored == IF worker[1].item = 0 THEN Taken ELSE Taken - 1

\* In batch mode the output is that of the stored chunks.
BatchOK ==
    job.batch =>
        /\ \A i \in DOMAIN results : results[i].ok /\ results[i].row <= UpTo(Stored)
        /\ ~job.array => /\ Len(results) = UpTo(Stored)
                         /\ \A i \in DOMAIN results : results[i].row = i

\* The node returns when all its workers are done; without rows it never begins.
OutcomeOK ==
    /\ outcome = "returned" => /\ \A w \in 1..Workers : worker[w].pc = "done"
                               /\ launched = Workers /\ Workers > 0
    /\ results # <<>> => launched > 0

\* The limiter of one worker without retries: a request was sent no later than
\* lastCallTime says, and a pause is long enough.
PaceOK ==
    ~job.batch /\ job.concurrency = 1 /\ job.retries = 0 =>
        /\ ~close
        /\ job.interval > 0 => since >= age
        /\ worker[1].pc = "sleep" => worker[1].wait \in Nat /\ age + worker[1].wait >= job.interval

Going ==
    /\ QueueOK /\ WorkersOK /\ Apart /\ SentOK /\ StoredOK /\ RowsOnce /\ BatchOK
    /\ OutcomeOK /\ PaceOK /\ OrderKept

\* Without rows nothing ever happens.
Empty ==
    /\ outcome = "returned" /\ launched = 0 /\ results = <<>> /\ ~close
    /\ \A i \in 1..N : sent[i] = 0
    /\ \A w \in 1..Workers : worker[w].pc = "new"

HInv == Types /\ IF job.rows = 0 THEN Empty ELSE Going


-----------------------------------------------------------------------------
(* The payload.                                                            *)

\* What every payload has.
LEMMA JobFacts ==
    ASSUME job \in Jobs
    PROVE  /\ job.rows \in Nat /\ job.chunk \in Nat /\ job.concurrency \in Nat
           /\ job.interval \in Nat /\ job.retries \in Nat
           /\ job.batch \in BOOLEAN /\ job.array \in BOOLEAN
           /\ Workers \in Nat
BY JobsAssumption DEF Workers

\* The payload does not change, nor what is computed from it.
LEMMA JobSame ==
    ASSUME UNCHANGED job
    PROVE  /\ N' = N /\ Workers' = Workers /\ Limit' = Limit /\ (Sole' <=> Sole)
           /\ \A k : UpTo(k)' = UpTo(k)
BY DEF N, Items, Chunks, Workers, Limit, Sole, UpTo

\* Division rounds down.
LEMMA DivFacts ==
    ASSUME NEW a \in Nat, NEW b \in Nat, b > 0
    PROVE  /\ a \div b \in Nat
           /\ (a \div b) * b <= a /\ a < (a \div b) * b + b
OBVIOUS

LEMMA ItemsCounted ==
    ASSUME job \in Jobs
    PROVE  N \in Nat
<1>1. job.rows \in Nat /\ job.chunk \in Nat
  BY JobFacts
<1>2. CASE job.chunk # 0
  <2>1. PICK a \in Nat, b \in Nat : a = job.rows + job.chunk - 1 /\ b = job.chunk /\ b > 0
    BY <1>1, <1>2
  <2>2. a \div b \in Nat
    BY <2>1, DivFacts
  <2> QED  BY <1>1, <1>2, <2>1, <2>2 DEF N, Items, Chunks
<1> QED  BY <1>1, <1>2 DEF N, Items, Chunks

\* A product grows with its first factor.
LEMMA ProductGrows ==
    ASSUME NEW a \in Nat, NEW b \in Nat, NEW c \in Nat, a <= b
    PROVE  a * c <= b * c /\ a * c \in Nat /\ b * c \in Nat
OBVIOUS

\* The chunks cover the rows, and none is empty.
LEMMA ChunksCover ==
    ASSUME job \in Jobs, job.rows # 0, job.batch
    PROVE  /\ N \in Nat /\ N > 0
           /\ UpTo(N) = job.rows
           /\ \A k \in 1..N : UpTo(k - 1) < UpTo(k)
<1> DEFINE R == job.rows
           C == job.chunk
<1>1. R \in Nat /\ C \in Nat /\ R > 0 /\ N = Chunks(job)
  BY JobFacts DEF N, Items
<1>2. CASE C = 0
  BY <1>1, <1>2 DEF Chunks, UpTo
<1>3. CASE C # 0
  <2>1. N = (R + C - 1) \div C
    BY <1>1, <1>3 DEF Chunks
  <2> HIDE DEF R, C
  <2>2. R + C - 1 \in Nat /\ C > 0
    BY <1>1, <1>3
  <2>3. N \in Nat /\ N * C <= R + C - 1 /\ R + C - 1 < N * C + C
    <3>1. PICK a \in Nat, b \in Nat : a = R + C - 1 /\ b = C
      BY <1>1, <2>2
    <3>2. b > 0 /\ N = a \div b
      BY <2>1, <2>2, <3>1
    <3>3. N \in Nat /\ N * b <= a /\ a < N * b + b
      BY <3>2, DivFacts
    <3> QED  BY <3>1, <3>3
  <2>4. N * C \in Nat /\ N * C >= R
    BY <1>1, <2>3
  <2>5. N > 0
    <3>1. N = 0 => N * C = 0
      BY <1>1
    <3> QED  BY <1>1, <2>3, <2>4, <3>1
  <2>6. ASSUME NEW k \in 1..N
        PROVE  (k - 1) * C \in Nat /\ (k - 1) * C < R /\ k * C = (k - 1) * C + C /\ k * C \in Nat
    <3>1. k - 1 \in Nat /\ N - 1 \in Nat /\ k - 1 <= N - 1
      BY <2>3
    <3>2. (k - 1) * C <= (N - 1) * C /\ (k - 1) * C \in Nat
      BY <1>1, <3>1, ProductGrows
    <3>3. N * C = (N - 1) * C + C /\ k * C = (k - 1) * C + C
      BY <1>1, <2>3
    <3> QED  BY <1>1, <2>3, <2>4, <3>1, <3>2, <3>3
  <2>7. \A k \in 1..N : UpTo(k - 1) < UpTo(k)
    <3> SUFFICES ASSUME NEW k \in 1..N PROVE UpTo(k - 1) < UpTo(k)
      OBVIOUS
    <3>1. UpTo(k - 1) = (k - 1) * C
      BY <1>1, <1>3, <2>6 DEF UpTo, R, C
    <3>2. UpTo(k) = IF k * C > R THEN R ELSE k * C
      BY <1>1, <1>3, <2>6 DEF UpTo, R, C
    <3> QED  BY <1>1, <2>2, <2>6, <3>1, <3>2
  <2>8. UpTo(N) = R
    BY <1>1, <1>3, <2>4, <2>5 DEF UpTo, R, C
  <2> QED  BY <2>3, <2>5, <2>7, <2>8 DEF R
<1> QED  BY <1>2, <1>3


\* The rows of a chunk follow those of the chunks before it.
LEMMA ChunkRowsFacts ==
    ASSUME job \in Jobs, job.rows # 0, job.batch, NEW k \in 1..N
    PROVE  /\ ChunkRows(k) \in Seq(Nat)
           /\ Len(ChunkRows(k)) = UpTo(k) - UpTo(k - 1)
           /\ \A j \in 1..(UpTo(k) - UpTo(k - 1)) : ChunkRows(k)[j] = UpTo(k - 1) + j
<1> DEFINE R == job.rows
           C == job.chunk
           s == [i \in 1..R |-> i]
<1>1. R \in Nat /\ C \in Nat /\ R > 0 /\ k \in Nat
  BY JobFacts, ChunksCover
<1>2. s \in Seq(Nat) /\ Len(s) = R /\ \A i \in 1..R : s[i] = i
  BY <1>1
<1>3. UpTo(k - 1) < UpTo(k)
  BY ChunksCover
<1>4. CASE C = 0
  <2>1. N = 1
    BY <1>4 DEF N, Items, Chunks
  <2>2. k = 1 /\ ChunkRows(k) = s
    BY <1>4, <2>1 DEF ChunkRows, Rows
  <2>3. UpTo(k) = R /\ UpTo(k - 1) = 0
    BY <1>4, <2>2 DEF UpTo
  <2> HIDE DEF s, R
  <2> QED  BY <1>1, <1>2, <2>2, <2>3
<1>5. CASE C # 0
  <2> DEFINE m == (k - 1) * C + 1
             n == IF k * C < R THEN k * C ELSE R
  <2>1. ChunkRows(k) = SubSeq(s, m, n)
    BY <1>5 DEF ChunkRows, Rows
  <2>2. (k - 1) * C \in Nat /\ k * C \in Nat /\ k * C = (k - 1) * C + C
    BY <1>1
  <2>3. UpTo(k) = n
    BY <1>1, <1>5, <2>2 DEF UpTo
  <2>4. UpTo(k - 1) = (k - 1) * C
    <3>1. CASE k = 1
      BY <1>1, <3>1 DEF UpTo
    <3>2. CASE k # 1
      <4>1. k - 1 # 0 /\ UpTo(k) <= R
        BY <1>1, <2>2, <2>3, <3>2
      <4>2. UpTo(k - 1) = IF (k - 1) * C > R THEN R ELSE (k - 1) * C
        BY <1>5, <4>1 DEF UpTo
      <4> HIDE DEF n
      <4> QED  BY <1>1, <1>3, <2>2, <2>3, <4>1, <4>2 DEF n
    <3> QED  BY <3>1, <3>2
  <2>5. m - 1 = UpTo(k - 1) /\ m - 1 < n /\ n <= R /\ m \in Nat /\ n \in Nat /\ m > 0
    BY <1>1, <1>3, <2>2, <2>3, <2>4
  <2> HIDE DEF m, n, s, R, C
  <2>6. m \in 1..(Len(s) + 1) /\ n \in (m - 1)..Len(s)
    BY <1>1, <1>2, <2>5
  <2>7. /\ SubSeq(s, m, n) \in Seq(Nat) /\ Len(SubSeq(s, m, n)) = n - m + 1
        /\ \A i \in 1..(n - m + 1) : SubSeq(s, m, n)[i] = s[m + i - 1]
    BY <1>2, <2>6, SubSeqProperties
  <2>8. \A i \in 1..(n - m + 1) : m + i - 1 \in 1..R /\ m + i - 1 = UpTo(k - 1) + i
    BY <1>1, <2>5
  <2>9. n - m + 1 = UpTo(k) - UpTo(k - 1)
    BY <2>3, <2>5
  <2> QED  BY <1>2, <2>1, <2>7, <2>8, <2>9
<1> QED  BY <1>4, <1>5

\* An answer to a chunk gives rows of that chunk, in their order; in object mode
\* one for each.
LEMMA ExpansionFacts ==
    ASSUME job \in Jobs, job.rows # 0, job.batch, NEW k \in 1..N, NEW from \in Expansions(ChunkRows(k))
    PROVE  /\ from \in Seq(Nat)
           /\ \A i \in DOMAIN from : from[i] > UpTo(k - 1) /\ from[i] <= UpTo(k)
           /\ \A i, j \in DOMAIN from : i < j => from[i] <= from[j]
           /\ ~job.array => /\ Len(from) = UpTo(k) - UpTo(k - 1)
                            /\ \A i \in DOMAIN from : from[i] = UpTo(k - 1) + i
<1> DEFINE c == ChunkRows(k)
           a == UpTo(k - 1)
           b == UpTo(k)
<1>1. a \in Nat /\ b \in Nat /\ a < b
  <2>1. a < b /\ k \in Nat /\ k - 1 \in Nat /\ k > 0
    BY ChunksCover
  <2>2. job.rows \in Nat /\ job.chunk \in Nat
    BY JobFacts
  <2>3. k * job.chunk \in Nat /\ (k - 1) * job.chunk \in Nat
    BY <2>1, <2>2
  <2> QED  BY <2>1, <2>2, <2>3 DEF UpTo
<1>2. c \in Seq(Nat) /\ Len(c) = b - a /\ \A j \in 1..(b - a) : c[j] = a + j
  BY ChunkRowsFacts
<1>3. from \in Expansions(c)
  OBVIOUS
<1> HIDE DEF c, a, b
<1>4. \A j \in DOMAIN c : c[j] > a /\ c[j] <= b
  BY <1>1, <1>2
<1>5. CASE ~job.array
  <2>1. from = c
    BY <1>3, <1>5 DEF Expansions
  <2>2. \A i, j \in DOMAIN from : i < j => from[i] <= from[j]
    BY <1>1, <1>2, <2>1
  <2> QED  BY <1>1, <1>2, <1>4, <2>1, <2>2 DEF a, b
<1>6. CASE job.array
  <2>1. PICK n \in 0..(Len(c) * MaxItems) : from \in [1..n -> ToSet(c)]
    BY <1>3, <1>6 DEF Expansions
  <2>2. n \in Nat
    OBVIOUS
  <2>3. \A x \in ToSet(c) : x \in Nat /\ x > a /\ x <= b
    BY <1>2, <1>4 DEF ToSet
  <2>4. from \in Seq(Nat) /\ \A i \in DOMAIN from : from[i] > a /\ from[i] <= b
    BY <2>1, <2>2, <2>3
  <2>5. \A i, j \in DOMAIN from : i < j => from[i] <= from[j]
    BY <1>3, <1>6 DEF Expansions
  <2> QED  BY <1>6, <2>4, <2>5 DEF a, b
<1> QED  BY <1>5, <1>6, JobFacts


-----------------------------------------------------------------------------
(* Steps in which a worker keeps its item.                                 *)

\* Worker w becomes new.
Turns(w, new) ==
    /\ DOMAIN worker' = DOMAIN worker
    /\ worker'[w] = new
    /\ \A v \in 1..Workers : v # w => worker'[v] = worker[v]

LEMMA ExceptTurns ==
    ASSUME Types, NEW w \in 1..Workers, NEW new, worker' = [worker EXCEPT ![w] = new]
    PROVE  Turns(w, new)
BY DEF Types, Turns

\* Types of a step that changes one worker and, perhaps, what was sent.
LEMMA TypesKept ==
    ASSUME Types, NEW w \in 1..Workers, NEW new, Turns(w, new),
           DOMAIN new = Fields, new.item \in Nat, new.attempt \in Nat,
           UNCHANGED job, launched' \in 0..Workers, queue' \in Seq(Nat), Len(queue') <= N,
           age' \in Nat, since' \in Nat, close' \in BOOLEAN, sent' \in [1..N -> Nat],
           results' \in Seq(OutRow)
    PROVE  Types'
<1>1. N' = N /\ Workers' = Workers
  BY JobSame
<1>2. DOMAIN worker' = 1..Workers
  BY DEF Turns, Types
<1>3. \A v \in 1..Workers : DOMAIN worker'[v] = Fields /\ worker'[v].item \in Nat /\ worker'[v].attempt \in Nat
  BY DEF Turns, Types
<1> QED  BY <1>1, <1>2, <1>3 DEF Types

\* A request is sent for the item that is held, or the worker waits or throws.
LEMMA HoldStep ==
    ASSUME Types, Going, NEW w \in 1..Workers, NEW new, Turns(w, new),
           worker[w].pc \in Holding, new.pc \in Holding, new.item = worker[w].item,
           UNCHANGED <<job, launched, queue, results>>,
           sent' \in [1..N -> Nat], sent'[new.item] <= Limit,
           \A i \in 1..N : i # new.item => sent'[i] = sent[i],
           outcome' \in {outcome, "threw"},
           WorkerOK(w)', PaceOK'
    PROVE  Going'
<1>1. N' = N /\ Workers' = Workers /\ Limit' = Limit /\ (Sole' <=> Sole) /\ \A k : UpTo(k)' = UpTo(k)
  BY JobSame
<1>2. Taken' = Taken /\ Taken \in 0..N /\ N \in Nat
  <2>1. N \in Nat /\ Len(queue) \in 0..N
    BY ItemsCounted DEF Types
  <2> QED  BY <1>1, <2>1 DEF Taken
<1>3. new.item \in 1..Taken
  BY DEF Going, WorkersOK, WorkerOK
<1>4. \A v \in 1..Workers : worker'[v].item = worker[v].item
  BY DEF Turns
<1>5. \A v \in 1..Workers : worker[v].item = worker[w].item => v = w
  BY <1>3 DEF Going, Apart
<1>6. WorkersOK'
  <2>1. SUFFICES ASSUME NEW v \in 1..Workers, v # w PROVE WorkerOK(v)'
    BY <1>1 DEF WorkersOK
  <2>2. worker'[v] = worker[v] /\ WorkerOK(v) /\ worker[v].item # new.item
    BY <1>5, <2>1 DEF Turns, Going, WorkersOK
  <2>3. worker[v].pc \in Holding => worker[v].item \in 1..N
    BY <1>2, <2>2 DEF WorkerOK
  <2>4. worker[v].pc \in Holding => sent'[worker[v].item] = sent[worker[v].item]
    BY <2>2, <2>3
  <2>5. {"sleep", "fetch", "backoff"} \subseteq Holding
    BY DEF Holding
  <2> QED  BY <1>1, <1>2, <2>2, <2>4, <2>5 DEF WorkerOK
<1>7. QueueOK' /\ Apart'
  BY <1>1, <1>2, <1>4 DEF Going, QueueOK, Apart
<1>8. SentOK'
  BY <1>1, <1>2, <1>3 DEF Going, SentOK
<1>9. StoredOK'
  <2>1. SUFFICES ASSUME ~job.batch, NEW i \in DOMAIN results
                 PROVE  /\ results[i].row \in 1..Taken
                        /\ \A v \in 1..Workers : worker'[v].item # results[i].row
                        /\ ~results[i].ok => results[i].null \/ sent'[results[i].row] = job.retries + 1
    BY <1>1, <1>2 DEF StoredOK
  <2>2. /\ results[i].row \in 1..Taken
        /\ \A v \in 1..Workers : worker[v].item # results[i].row
        /\ ~results[i].ok => results[i].null \/ sent[results[i].row] = job.retries + 1
    BY <2>1 DEF Going, StoredOK
  <2>3. results[i].row \in 1..N /\ results[i].row # new.item
    BY <1>2, <2>2
  <2> QED  BY <1>4, <2>2, <2>3
<1>10. RowsOnce'
  <2>1. SUFFICES ASSUME ~job.batch, ~job.array
                 PROVE  /\ \A i, j \in DOMAIN results : results[i].row = results[j].row => i = j
                        /\ \A r \in 1..Taken : \/ \E v \in 1..Workers : worker'[v].item = r
                                               \/ \E i \in DOMAIN results : results[i].row = r
    BY <1>1, <1>2 DEF RowsOnce
  <2>2. /\ \A i, j \in DOMAIN results : results[i].row = results[j].row => i = j
        /\ \A r \in 1..Taken : \/ \E v \in 1..Workers : worker[v].item = r
                               \/ \E i \in DOMAIN results : results[i].row = r
    BY <2>1 DEF Going, RowsOnce
  <2> QED  BY <1>4, <2>2
<1>11. BatchOK'
  <2>1. SUFFICES ASSUME job.batch PROVE BatchOK'
    BY DEF BatchOK
  <2>2. Workers = 1
    BY <2>1 DEF Workers
  <2>3. Stored' = Stored
    BY <1>2, <1>4, <2>2 DEF Stored
  <2>4. UpTo(Stored)' = UpTo(Stored)
    BY <2>3 DEF UpTo
  <2> QED  BY <2>4 DEF Going, BatchOK
<1>12. OutcomeOK'
  <2>1. outcome # "returned"
    BY DEF Going, OutcomeOK, Holding
  <2> QED  BY <1>1, <2>1 DEF Going, OutcomeOK
<1>13. OrderKept'
  BY DEF Going, OrderKept
<1> QED  BY <1>6, <1>7, <1>8, <1>9, <1>10, <1>11, <1>12, <1>13 DEF Going


\* What Request does: the worker throws, or a request is under way.
Sends(w, item, attempt, new) ==
    /\ Turns(w, new) /\ DOMAIN new = Fields /\ new.item = item /\ new.attempt \in Nat
    /\ \/ /\ new.pc = "threw" /\ outcome' \in {outcome, "threw"}
          /\ UNCHANGED <<since, sent, close>>
       \/ /\ new.pc = "fetch" /\ new.attempt = attempt
          /\ sent' = [sent EXCEPT ![item] = @ + 1]
          /\ since' = 0 /\ close' \in BOOLEAN
          /\ close' => (close \/ since < job.interval)
          /\ outcome' = outcome

LEMMA RequestSends ==
    ASSUME Types, NEW w \in 1..Workers, NEW item, NEW attempt \in Nat, Request(w, item, attempt)
    PROVE  \E new : Sends(w, item, attempt, new)
<1>1. CASE Unresolved(item)
  <2> DEFINE new == [Idle EXCEPT !.pc = "threw", !.item = item]
  <2>1. DOMAIN new = Fields /\ new.item = item /\ new.attempt = 0 /\ new.pc = "threw"
    BY DEF Idle, Fields
  <2>2. worker' = [worker EXCEPT ![w] = new] /\ outcome' \in {outcome, "threw"}
        /\ UNCHANGED <<since, sent, close>>
    BY <1>1 DEF Request
  <2> HIDE DEF new
  <2>3. Turns(w, new)
    BY <2>2, ExceptTurns
  <2>4. new.attempt \in Nat
    BY <2>1
  <2>5. Sends(w, item, attempt, new)
    BY <2>1, <2>2, <2>3, <2>4, Zenon DEF Sends
  <2> QED  BY <2>5
<1>2. CASE ~Unresolved(item)
  <2> DEFINE new == [pc |-> "fetch", item |-> item, attempt |-> attempt, wait |-> 0]
  <2>1. DOMAIN new = Fields /\ new.item = item /\ new.attempt = attempt /\ new.pc = "fetch"
    BY DEF Fields
  <2>2. /\ worker' = [worker EXCEPT ![w] = new]
        /\ sent' = [sent EXCEPT ![item] = @ + 1]
        /\ since' = 0 /\ close' = (close \/ since < job.interval)
        /\ outcome' = outcome
    BY <1>2 DEF Request
  <2> HIDE DEF new
  <2>3. Turns(w, new)
    BY <2>2, ExceptTurns
  <2>4. close' \in BOOLEAN /\ (close' => (close \/ since < job.interval))
    <3>1. (close \/ since < job.interval) \in BOOLEAN
      OBVIOUS
    <3> QED  BY <2>2, <3>1, Zenon
  <2>5. Sends(w, item, attempt, new)
    BY <2>1, <2>2, <2>3, <2>4, Zenon DEF Sends
  <2> QED  BY <2>5
<1> QED  BY <1>1, <1>2

\* A worker sends a request for the item it holds, within the limit.
LEMMA SendStep ==
    ASSUME Types, Going, NEW w \in 1..Workers, NEW attempt \in Nat,
           worker[w].pc \in {"sleep", "backoff"},
           sent[worker[w].item] = attempt, attempt < Limit,
           Request(w, worker[w].item, attempt), age' \in Nat,
           UNCHANGED <<job, launched, queue, results>>,
           ~job.batch /\ job.concurrency = 1 /\ job.retries = 0 =>
                /\ age' = 0
                /\ job.interval > 0 => since >= job.interval
    PROVE  Types' /\ Going'
<1>1. PICK new : Sends(w, worker[w].item, attempt, new)
  BY RequestSends
<1>2. /\ WorkerOK(w) /\ worker[w].pc \in Holding /\ new.pc \in Holding /\ new.pc \in {"fetch", "threw"}
      /\ worker'[w] = new /\ Turns(w, new) /\ new.item = worker[w].item
      /\ DOMAIN new = Fields /\ new.attempt \in Nat
  BY <1>1 DEF Going, WorkersOK, Holding, Sends, Turns
<1>3. N' = N /\ Workers' = Workers /\ Limit' = Limit /\ (Sole' <=> Sole)
  BY JobSame
<1>4. /\ N \in Nat /\ Taken' = Taken /\ Taken \in 0..N
      /\ new.item \in 1..N /\ new.item \in 1..Taken
  <2>1. N \in Nat /\ Len(queue) \in 0..N
    BY ItemsCounted DEF Types
  <2>2. new.item \in 1..Taken
    BY <1>2 DEF WorkerOK
  <2> QED  BY <1>3, <2>1, <2>2 DEF Taken
<1>5. Limit \in Nat /\ (job.batch => Limit = 1) /\ (~job.batch => Limit = job.retries + 1)
      /\ job.interval \in Nat /\ job.retries \in Nat
  BY JobFacts DEF Types, Limit
<1>6. /\ sent' \in [1..N -> Nat]
      /\ \A i \in 1..N : i # new.item => sent'[i] = sent[i]
      /\ new.pc = "fetch" => sent'[new.item] = attempt + 1
      /\ sent'[new.item] <= Limit
  <2>1. sent \in [1..N -> Nat] /\ sent[new.item] = attempt
    BY <1>2 DEF Types
  <2>2. CASE new.pc = "threw"
    <3>1. sent' = sent
      BY <1>1, <2>2 DEF Sends
    <3> QED  BY <1>5, <2>1, <2>2, <3>1
  <2>3. CASE new.pc = "fetch"
    <3>1. sent' = [sent EXCEPT ![new.item] = @ + 1]
      BY <1>1, <1>2, <2>3 DEF Sends
    <3> QED  BY <1>4, <1>5, <2>1, <3>1
  <2> QED  BY <1>2, <2>2, <2>3
<1>7. since' \in Nat /\ close' \in BOOLEAN
  <2>1. since \in Nat /\ close \in BOOLEAN /\ 0 \in Nat
    BY DEF Types
  <2> QED  BY <1>1, <2>1, Zenon DEF Sends
<1>8. Types'
  <2>1. new.item \in Nat
    BY <1>4
  <2> QED  BY <1>2, <1>6, <1>7, <2>1, TypesKept DEF Types
<1>9. WorkerOK(w)'
  <2>1. ~(w > launched) /\ (Sole => worker[w].item = Taken)
    BY <1>2 DEF WorkerOK, Holding
  <2>2. new.pc = "fetch" => new.attempt = attempt
    BY <1>1 DEF Sends
  <2>3. new.pc \notin {"new", "done", "sleep", "backoff"}
    BY <1>2
  <2>4. new.pc = "fetch" => /\ sent'[new.item] = new.attempt + 1
                            /\ new.attempt <= (IF job.batch THEN 0 ELSE job.retries)
    BY <1>2, <1>4, <1>5, <1>6, <2>2
  <2>5. worker'[w] = new /\ launched' = launched
    BY <1>2, <2>3 DEF Turns
  <2> QED  BY <1>2, <1>3, <1>4, <2>1, <2>3, <2>4, <2>5 DEF WorkerOK, Holding
<1>10. PaceOK'
  <2>1. SUFFICES ASSUME ~job.batch, job.concurrency = 1, job.retries = 0
                 PROVE  ~close' /\ (job.interval > 0 => since' >= age') /\ worker'[1].pc # "sleep"
    BY DEF PaceOK
  <2>2. w = 1
    BY <2>1 DEF Workers
  <2>3. ~close
    BY <2>1 DEF Going, PaceOK
  <2>4. age' = 0 /\ (job.interval > 0 => since >= job.interval) /\ since \in Nat
    BY <2>1 DEF Types
  <2>5. ~(since < job.interval)
    BY <1>5, <2>4
  <2>6. ~close'
    BY <1>1, <2>3, <2>5, Zenon DEF Sends
  <2>7. since' >= 0
    BY <1>7
  <2> QED  BY <1>2, <2>2, <2>4, <2>6, <2>7
<1>11. outcome' \in {outcome, "threw"}
  BY <1>1 DEF Sends
<1> QED  BY <1>2, <1>6, <1>8, <1>9, <1>10, <1>11, HoldStep

\* The pause of the limiter is over.
LEMMA WakeStep ==
    ASSUME Types, Going, NEW w \in 1..Workers, Wake(w)
    PROVE  Types' /\ Going'
<1>1. /\ worker[w].pc = "sleep" /\ worker[w].wait = 0 /\ age' = 0 /\ Request(w, worker[w].item, 0)
      /\ UNCHANGED <<job, launched, queue, results>>
  BY DEF Wake
<1>2. sent[worker[w].item] = 0
  BY <1>1 DEF Going, WorkersOK, WorkerOK
<1>3. 0 < Limit
  BY JobFacts DEF Types, Limit
<1>4. ASSUME ~job.batch, job.concurrency = 1, job.retries = 0, job.interval > 0
      PROVE  since >= job.interval
  <2>1. w = 1
    BY <1>4 DEF Workers
  <2>2. since >= age /\ age + worker[1].wait >= job.interval
    BY <1>1, <1>4, <2>1 DEF Going, PaceOK
  <2>3. age \in Nat /\ since \in Nat /\ job.interval \in Nat
    BY JobFacts DEF Types
  <2> QED  BY <1>1, <2>1, <2>2, <2>3
<1> QED  BY <1>1, <1>2, <1>3, <1>4, SendStep

\* The back-off is over.
LEMMA ResumeStep ==
    ASSUME Types, Going, NEW w \in 1..Workers, Resume(w)
    PROVE  Types' /\ Going'
<1>1. /\ worker[w].pc = "backoff" /\ Request(w, worker[w].item, worker[w].attempt + 1)
      /\ UNCHANGED <<job, launched, queue, age, results>>
  BY DEF Resume
<1>2. /\ sent[worker[w].item] = worker[w].attempt + 1 /\ ~job.batch
      /\ worker[w].attempt < job.retries
  BY <1>1 DEF Going, WorkersOK, WorkerOK
<1>3. PICK a \in Nat : a = worker[w].attempt
  BY DEF Types
<1>4. job.retries \in Nat /\ age' \in Nat
  BY <1>1, JobFacts DEF Types
<1>5. a + 1 \in Nat /\ a + 1 < Limit /\ job.retries # 0
  BY <1>2, <1>3, <1>4 DEF Limit
<1> QED  BY <1>1, <1>2, <1>3, <1>4, <1>5, SendStep


\* A failed attempt that is tried again: the worker backs off.
LEMMA BackoffStep ==
    ASSUME Types, Going, NEW w \in 1..Workers,
           ~job.batch, worker[w].pc = "fetch", worker[w].attempt < job.retries,
           worker' = [worker EXCEPT ![w].pc = "backoff",
                                    ![w].wait = job.backoff * 2 ^ worker[w].attempt],
           UNCHANGED <<job, launched, queue, age, since, sent, close, results, outcome>>
    PROVE  Types' /\ Going'
<1>1. PICK new : new = worker'[w]
  OBVIOUS
<1>2. DOMAIN worker[w] = Fields /\ worker[w].item \in Nat /\ worker[w].attempt \in Nat /\ w \in DOMAIN worker
  BY DEF Types
<1>3. /\ DOMAIN new = Fields /\ new.pc = "backoff" /\ new.item = worker[w].item
      /\ new.attempt = worker[w].attempt
  BY <1>1, <1>2 DEF Fields
<1>4. Turns(w, new)
  BY <1>1 DEF Types, Turns
<1>5. Types'
  BY <1>2, <1>3, <1>4, TypesKept DEF Types
<1>6. N' = N /\ Workers' = Workers /\ Limit' = Limit /\ (Sole' <=> Sole)
  BY JobSame
<1>7. Taken' = Taken
  BY <1>6 DEF Taken
<1>8. WorkerOK(w) /\ worker[w].pc \in Holding /\ new.pc \in Holding
  BY <1>3 DEF Going, WorkersOK, Holding
<1>9. WorkerOK(w)'
  BY <1>1, <1>3, <1>6, <1>7, <1>8 DEF WorkerOK, Holding
<1>10. PaceOK'
  BY <1>2, JobFacts DEF PaceOK, Types
<1>11. new.item \in 1..N /\ sent \in [1..N -> Nat] /\ sent[new.item] <= Limit
  <2>1. N \in Nat /\ Len(queue) \in 0..N
    BY ItemsCounted DEF Types
  <2>2. new.item \in 1..Taken
    BY <1>3, <1>8 DEF WorkerOK
  <2> QED  BY <2>1, <2>2 DEF Taken, Types, Going, SentOK
<1> QED  BY <1>3, <1>4, <1>5, <1>8, <1>9, <1>10, <1>11, HoldStep

\* A failed chunk: the node throws.
LEMMA BatchFailedStep ==
    ASSUME Types, Going, NEW w \in 1..Workers, BatchFailed(w)
    PROVE  Types' /\ Going'
<1> DEFINE new == [Idle EXCEPT !.pc = "threw", !.item = worker[w].item]
<1>1. /\ job.batch /\ worker[w].pc = "fetch" /\ worker' = [worker EXCEPT ![w] = new]
      /\ outcome' \in {outcome, "threw"}
      /\ UNCHANGED <<job, launched, queue, age, since, sent, close, results>>
  BY DEF BatchFailed
<1>2. worker[w].item \in Nat
  BY DEF Types
<1>3. DOMAIN new = Fields /\ new.pc = "threw" /\ new.item = worker[w].item /\ new.attempt = 0
  BY DEF Idle, Fields
<1> HIDE DEF new
<1>4. Turns(w, new) /\ worker'[w] = new
  BY <1>1, ExceptTurns DEF Turns
<1>5. Types'
  BY <1>1, <1>2, <1>3, <1>4, TypesKept DEF Types
<1>6. N' = N /\ Workers' = Workers /\ Limit' = Limit /\ (Sole' <=> Sole)
  BY <1>1, JobSame
<1>7. Taken' = Taken
  BY <1>1, <1>6 DEF Taken
<1>8. WorkerOK(w) /\ worker[w].pc \in Holding /\ new.pc \in Holding
  BY <1>1, <1>3 DEF Going, WorkersOK, Holding
<1>9. WorkerOK(w)'
  BY <1>1, <1>3, <1>4, <1>6, <1>7, <1>8 DEF WorkerOK, Holding
<1>10. PaceOK'
  BY <1>1 DEF PaceOK
<1>11. new.item \in 1..N /\ sent \in [1..N -> Nat] /\ sent[new.item] <= Limit
  <2>1. N \in Nat /\ Len(queue) \in 0..N
    BY ItemsCounted DEF Types
  <2>2. new.item \in 1..Taken
    BY <1>3, <1>8 DEF WorkerOK
  <2> QED  BY <2>1, <2>2 DEF Taken, Types, Going, SentOK
<1> QED  BY <1>1, <1>3, <1>4, <1>5, <1>8, <1>9, <1>10, <1>11, HoldStep

\* Time passes.
LEMMA TickStep ==
    ASSUME Types, Going, Tick
    PROVE  Types' /\ Going'
<1>1. /\ age' = Older(age) /\ since' = Older(since)
      /\ worker' = [w \in Worker |-> [worker[w] EXCEPT !.wait = IF @ > 0 THEN @ - 1 ELSE 0]]
      /\ UNCHANGED <<job, launched, queue, sent, close, results, outcome>>
  BY DEF Tick
<1>2. N' = N /\ Workers' = Workers /\ Limit' = Limit /\ (Sole' <=> Sole) /\ \A k : UpTo(k)' = UpTo(k)
  BY <1>1, JobSame
<1>3. Taken' = Taken
  BY <1>1, <1>2 DEF Taken
<1>4. DOMAIN worker = 1..Workers /\ DOMAIN worker' = 1..Workers
  BY <1>1 DEF Types, Worker
<1>5. ASSUME NEW w \in 1..Workers
      PROVE  /\ DOMAIN worker'[w] = Fields /\ worker'[w].pc = worker[w].pc
             /\ worker'[w].item = worker[w].item /\ worker'[w].attempt = worker[w].attempt
             /\ worker'[w].wait = IF worker[w].wait > 0 THEN worker[w].wait - 1 ELSE 0
  <2>1. worker'[w] = [worker[w] EXCEPT !.wait = IF @ > 0 THEN @ - 1 ELSE 0]
    BY <1>1, <1>4 DEF Worker
  <2>2. DOMAIN worker[w] = Fields
    BY DEF Types
  <2> QED  BY <2>1, <2>2 DEF Fields
<1>6. job.interval \in Nat /\ age \in Nat /\ since \in Nat
  BY JobFacts DEF Types
<1>7. Types'
  <2>1. age' \in Nat /\ since' \in Nat
    BY <1>1, <1>6 DEF Older
  <2> QED  BY <1>1, <1>2, <1>4, <1>5, <2>1 DEF Types
<1>8. QueueOK' /\ SentOK'
  BY <1>1, <1>2, <1>3 DEF Going, QueueOK, SentOK
<1>9. WorkersOK'
  <2>1. SUFFICES ASSUME NEW w \in 1..Workers PROVE WorkerOK(w)'
    BY <1>2 DEF WorkersOK
  <2>2. WorkerOK(w)
    BY DEF Going, WorkersOK
  <2> QED  BY <1>1, <1>2, <1>3, <1>5, <2>2 DEF WorkerOK
<1>10. Apart' /\ StoredOK' /\ RowsOnce'
  <2>1. \A w \in 1..Workers : worker'[w].item = worker[w].item
    BY <1>5
  <2>2. Apart'
    BY <1>2, <2>1 DEF Going, Apart
  <2>3. StoredOK'
    BY <1>1, <1>2, <1>3, <2>1 DEF Going, StoredOK
  <2>4. RowsOnce'
    <3>1. SUFFICES ASSUME ~job.batch, ~job.array PROVE RowsOnce'
      BY <1>1 DEF RowsOnce
    <3>2. /\ \A i, j \in DOMAIN results : results[i].row = results[j].row => i = j
          /\ \A r \in 1..Taken : \/ \E w \in 1..Workers : worker[w].item = r
                                 \/ \E i \in DOMAIN results : results[i].row = r
      BY <3>1 DEF Going, RowsOnce
    <3>3. ASSUME NEW r \in 1..Taken
          PROVE  \/ \E w \in 1..Workers : worker'[w].item = r
                 \/ \E i \in DOMAIN results : results[i].row = r
      <4>1. CASE \E w \in 1..Workers : worker[w].item = r
        BY <2>1, <4>1
      <4> QED  BY <3>2, <4>1
    <3>4. results' = results
      BY <1>1
    <3> QED  BY <1>2, <1>3, <3>2, <3>3, <3>4 DEF RowsOnce
  <2> QED  BY <2>2, <2>3, <2>4
<1>11. BatchOK'
  <2>1. SUFFICES ASSUME job.batch PROVE BatchOK'
    BY <1>1 DEF BatchOK
  <2>2. 1 \in 1..Workers
    BY <2>1 DEF Workers
  <2>3. Stored' = Stored
    BY <1>3, <1>5, <2>2 DEF Stored
  <2>4. UpTo(Stored)' = UpTo(Stored)
    BY <1>1, <2>3 DEF UpTo
  <2> QED  BY <1>1, <2>4 DEF Going, BatchOK
<1>12. OutcomeOK'
  BY <1>1, <1>2, <1>5 DEF Going, OutcomeOK
<1>13. OrderKept'
  BY <1>1 DEF Going, OrderKept
<1>14. PaceOK'
  <2>1. SUFFICES ASSUME ~job.batch, job.concurrency = 1, job.retries = 0
                 PROVE  /\ ~close /\ (job.interval > 0 => since' >= age')
                        /\ worker'[1].pc = "sleep" =>
                              worker'[1].wait \in Nat /\ age' + worker'[1].wait >= job.interval
    BY <1>1 DEF PaceOK
  <2>2. 1 \in 1..Workers
    BY <2>1 DEF Workers
  <2>3. /\ ~close /\ (job.interval > 0 => since >= age)
        /\ worker[1].pc = "sleep" =>
               worker[1].wait \in Nat /\ age + worker[1].wait >= job.interval
    BY <2>1 DEF Going, PaceOK
  <2>4. job.interval > 0 => since' >= age'
    BY <1>1, <1>6, <2>3 DEF Older
  <2>5. ASSUME worker'[1].pc = "sleep"
        PROVE  worker'[1].wait \in Nat /\ age' + worker'[1].wait >= job.interval
    <3>1. worker[1].pc = "sleep"
      BY <1>5, <2>2, <2>5
    <3>2. PICK t \in Nat : t = worker[1].wait /\ age + t >= job.interval
      BY <2>3, <3>1
    <3>3. worker'[1].wait = IF t > 0 THEN t - 1 ELSE 0
      BY <1>5, <2>2, <3>2
    <3>4. age' = IF age < job.interval THEN age + 1 ELSE age
      BY <1>1 DEF Older
    <3> QED  BY <1>6, <3>2, <3>3, <3>4
  <2> QED  BY <2>3, <2>4, <2>5
<1> QED  BY <1>7, <1>8, <1>9, <1>10, <1>11, <1>12, <1>13, <1>14 DEF Going

\* The node returns, or throws for want of a good row.
LEMMA ReturnStep ==
    ASSUME Types, Going, Return
    PROVE  Types' /\ Going'
<1>1. /\ ~Launching /\ \A w \in Worker : worker[w].pc = "done"
      /\ outcome' = IF ~job.batch /\ \A i \in DOMAIN results : ~results[i].ok
                    THEN "threw" ELSE "returned"
      /\ UNCHANGED <<job, launched, queue, worker, age, since, sent, close, results>>
  BY DEF Return
<1>2. N' = N /\ Workers' = Workers /\ Limit' = Limit /\ (Sole' <=> Sole) /\ \A k : UpTo(k)' = UpTo(k)
  BY <1>1, JobSame
<1>3. Taken' = Taken
  BY <1>1, <1>2 DEF Taken
<1>4. Types'
  BY <1>1, <1>2 DEF Types
<1>5. QueueOK' /\ SentOK' /\ Apart' /\ StoredOK' /\ RowsOnce'
  BY <1>1, <1>2, <1>3 DEF Going, QueueOK, SentOK, Apart, StoredOK, RowsOnce
<1>6. WorkersOK'
  BY <1>1, <1>2, <1>3 DEF Going, WorkersOK, WorkerOK
<1>7. BatchOK'
  <2>1. Stored' = Stored
    BY <1>1, <1>3 DEF Stored
  <2>2. UpTo(Stored)' = UpTo(Stored)
    BY <1>1, <2>1 DEF UpTo
  <2> QED  BY <1>1, <2>2 DEF Going, BatchOK
<1>8. PaceOK' /\ OrderKept'
  BY <1>1 DEF Going, PaceOK, OrderKept
<1>9. Workers \in Nat /\ Worker = 1..Workers /\ Cardinality(Worker) = Workers
  <2>1. Workers \in Nat /\ Worker = 1..Workers
    BY JobFacts DEF Types, Worker
  <2>2. Cardinality(1..Workers) = Workers
    BY <2>1, FS_Interval
  <2> QED  BY <2>1, <2>2
<1>10. launched = Workers
  BY <1>1, <1>9 DEF Launching, Types
<1>11. OutcomeOK'
  <2>1. SUFFICES ASSUME outcome' = "returned" PROVE Workers > 0
    BY <1>1, <1>2, <1>9, <1>10 DEF Going, OutcomeOK
  <2>2. CASE job.batch
    BY <2>2 DEF Workers
  <2>3. CASE ~job.batch
    <3>1. PICK i \in DOMAIN results : results[i].ok
      BY <1>1, <2>1, <2>3
    <3>2. results # <<>>
      BY <3>1
    <3> QED  BY <1>9, <1>10, <3>2 DEF Going, OutcomeOK
  <2> QED  BY <2>2, <2>3
<1> QED  BY <1>4, <1>5, <1>6, <1>7, <1>8, <1>11 DEF Going



-----------------------------------------------------------------------------
(* Steps in which a worker takes its next item.                            *)

\* What Take does: the worker is done, or it has the next item and waits for the
\* limiter, has a request under way, or throws.
Takes(w, new) ==
    /\ Turns(w, new) /\ DOMAIN new = Fields /\ new.attempt \in Nat
    /\ \/ /\ queue = <<>> /\ new.pc = "done" /\ new.item = 0
          /\ UNCHANGED <<queue, age, since, sent, close, outcome>>
       \/ /\ queue # <<>> /\ queue' = Tail(queue) /\ new.item = Head(queue)
          /\ \/ /\ new.pc = "sleep" /\ age < job.interval /\ new.wait = job.interval - age
                /\ UNCHANGED <<age, since, sent, close, outcome>>
             \/ /\ Sends(w, new.item, 0, new)
                /\ age' \in {0, age}
                /\ ~job.batch /\ job.interval > 0 => age' = 0 /\ ~(age < job.interval)

LEMMA TakeTakes ==
    ASSUME Types, NEW w \in 1..Workers, NEW out, Take(w, out)
    PROVE  \E new : Takes(w, new)
<1>1. CASE queue = <<>>
  <2> DEFINE new == [Idle EXCEPT !.pc = "done"]
  <2>1. DOMAIN new = Fields /\ new.pc = "done" /\ new.item = 0 /\ new.attempt = 0
    BY DEF Idle, Fields
  <2>2. worker' = [worker EXCEPT ![w] = new] /\ UNCHANGED <<queue, age, since, sent, close, outcome>>
    BY <1>1 DEF Take
  <2> HIDE DEF new
  <2>3. Turns(w, new)
    BY <2>2, ExceptTurns
  <2>4. new.attempt \in Nat
    BY <2>1
  <2>5. Takes(w, new)
    BY <1>1, <2>1, <2>2, <2>3, <2>4, Zenon DEF Takes
  <2> QED  BY <2>5
<1>2. CASE queue # <<>>
  <2> DEFINE limited == job.interval > 0 /\ (job.batch => out # <<>>)
  <2>1. PICK item : item = Head(queue)
    OBVIOUS
  <2>2. CASE limited /\ age < job.interval
    <3> DEFINE new == [pc |-> "sleep", item |-> item, attempt |-> 0, wait |-> job.interval - age]
    <3>1. /\ DOMAIN new = Fields /\ new.pc = "sleep" /\ new.item = item /\ new.attempt = 0
          /\ new.wait = job.interval - age
      BY DEF Fields
    <3>2. /\ worker' = [worker EXCEPT ![w] = new] /\ queue' = Tail(queue)
          /\ UNCHANGED <<age, since, sent, close, outcome>>
      BY <1>2, <2>1, <2>2 DEF Take
    <3> HIDE DEF new
    <3>3. Turns(w, new)
      BY <3>2, ExceptTurns
    <3>4. new.attempt \in Nat
      BY <3>1
    <3>5. Takes(w, new)
      BY <1>2, <2>1, <2>2, <3>1, <3>2, <3>3, <3>4, Zenon DEF Takes
    <3> QED  BY <3>5
  <2>3. CASE ~(limited /\ age < job.interval)
    <3>1. /\ queue' = Tail(queue) /\ age' = (IF limited THEN 0 ELSE age)
          /\ Request(w, item, 0)
      BY <1>2, <2>1, <2>3 DEF Take
    <3>2. PICK new : Sends(w, item, 0, new)
      BY <3>1, RequestSends
    <3>3. Turns(w, new) /\ DOMAIN new = Fields /\ new.item = item /\ new.attempt \in Nat
      BY <3>2 DEF Sends
    <3>4. Sends(w, new.item, 0, new)
      BY <3>2, <3>3
    <3>5. age' \in {0, age} /\ (~job.batch /\ job.interval > 0 => age' = 0 /\ ~(age < job.interval))
      BY <2>3, <3>1
    <3>6. Takes(w, new)
      BY <1>2, <2>1, <3>1, <3>3, <3>4, <3>5, Zenon DEF Takes
    <3> QED  BY <3>6
  <2> QED  BY <2>2, <2>3
<1> QED  BY <1>1, <1>2

\* The queue moves on by the item that was taken.
Moves(w, new) ==
    /\ Taken \in 0..N /\ Taken' \in 0..N
    /\ \/ queue = <<>> /\ queue' = <<>> /\ Taken = N /\ Taken' = Taken
          /\ new.pc = "done" /\ new.item = 0 /\ sent' = sent
       \/ queue # <<>> /\ Taken' = Taken + 1 /\ new.item = Taken + 1
          /\ new.pc \in {"sleep", "fetch", "threw"}
    /\ queue' \in Seq(Nat) /\ Len(queue') <= N
    /\ QueueOK'
    /\ sent' \in [1..N -> Nat]
    /\ \A i \in 1..N : i # new.item => sent'[i] = sent[i]
    /\ new.pc = "sleep" => sent'[new.item] = 0
    /\ new.pc = "fetch" => sent'[new.item] = 1 /\ new.attempt = 0
    /\ new.item # 0 => sent'[new.item] <= 1
    /\ age' \in Nat /\ since' \in Nat /\ close' \in BOOLEAN
    /\ outcome' \in {outcome, "threw"}

LEMMA TakesMoves ==
    ASSUME Types, Going, NEW w \in 1..Workers, NEW new, Takes(w, new), UNCHANGED job
    PROVE  Moves(w, new)
<1>1. /\ N' = N /\ N \in Nat /\ Len(queue) \in 0..N /\ queue \in Seq(Nat)
      /\ Taken \in 0..N
  BY JobSame, ItemsCounted DEF Types, Taken
<1>2. \A i \in 1..N : i > Taken => sent[i] = 0
  BY DEF Going, SentOK
<1>3. /\ sent \in [1..N -> Nat] /\ age \in Nat /\ since \in Nat /\ close \in BOOLEAN
      /\ 0 \in Nat
  BY DEF Types
<1>4. CASE queue = <<>>
  <2>1. /\ new.pc = "done" /\ new.item = 0
        /\ UNCHANGED <<queue, age, since, sent, close, outcome>>
    BY <1>4 DEF Takes
  <2>2. Taken = N /\ Taken' = Taken
    BY <1>1, <1>4, <2>1 DEF Taken
  <2>3. QueueOK'
    BY <1>4, <2>1 DEF QueueOK
  <2> QED  BY <1>1, <1>3, <1>4, <2>1, <2>2, <2>3 DEF Moves
<1>5. CASE queue # <<>>
  <2>0. \A i \in 1..Len(queue) : queue[i] = Taken + i
    <3>1. QueueOK
      BY DEF Going
    <3>2. DOMAIN queue = 1..Len(queue)
      BY <1>1
    <3> QED  BY <3>1, <3>2, Zenon DEF QueueOK
  <2>1. /\ queue' = Tail(queue) /\ new.item = Head(queue)
    BY <1>5 DEF Takes
  <2>2. /\ queue' \in Seq(Nat) /\ Len(queue') = Len(queue) - 1 /\ Len(queue) > 0
        /\ \A i \in 1..Len(queue') : queue'[i] = queue[i + 1]
    BY <1>1, <1>5, <2>1
  <2>3. Taken' = Taken + 1 /\ Taken' \in 0..N
    BY <1>1, <2>2 DEF Taken
  <2>4. new.item = Taken + 1 /\ new.item \in 1..N
    <3>1. queue[1] = Taken + 1
      BY <1>1, <2>0, <2>2
    <3> QED  BY <1>1, <2>1, <2>2, <2>3, <3>1
  <2>5. QueueOK'
    <3>1. SUFFICES ASSUME NEW i \in 1..Len(queue') PROVE queue'[i] = Taken' + i
      BY <2>2 DEF QueueOK
    <3>2. i + 1 \in 1..Len(queue) /\ i \in Nat
      BY <1>1, <2>2
    <3>3. queue[i + 1] = Taken + (i + 1)
      BY <2>0, <3>2
    <3> QED  BY <1>1, <2>2, <2>3, <3>2, <3>3
  <2>6. CASE /\ new.pc = "sleep" /\ UNCHANGED <<age, since, sent, close, outcome>>
    <3>1. sent'[new.item] = 0
      BY <1>1, <1>2, <2>4, <2>6
    <3> QED  BY <1>1, <1>3, <1>5, <2>2, <2>3, <2>4, <2>5, <2>6, <3>1 DEF Moves
  <2>7. CASE Sends(w, new.item, 0, new) /\ age' \in {0, age}
    <3>1. sent[new.item] = 0
      BY <1>1, <1>2, <2>4
    <3>2. age' \in Nat
      BY <1>3, <2>7
    <3>3. CASE new.pc = "threw"
      <4>1. UNCHANGED <<since, sent, close>> /\ outcome' \in {outcome, "threw"}
        BY <2>7, <3>3 DEF Sends
      <4> QED  BY <1>1, <1>3, <1>5, <2>2, <2>3, <2>4, <2>5, <3>1, <3>2, <3>3, <4>1 DEF Moves
    <3>4. CASE new.pc = "fetch"
      <4>1. /\ new.attempt = 0 /\ sent' = [sent EXCEPT ![new.item] = @ + 1]
            /\ since' = 0 /\ close' \in BOOLEAN /\ outcome' = outcome
        BY <2>7, <3>4 DEF Sends
      <4>2. /\ sent' \in [1..N -> Nat] /\ sent'[new.item] = 1
            /\ \A i \in 1..N : i # new.item => sent'[i] = sent[i]
        BY <1>1, <1>3, <2>4, <3>1, <4>1
      <4>3. new.item \in 1..N
        BY <1>1, <2>4
      <4>4. /\ new.pc = "sleep" => sent'[new.item] = 0
            /\ new.item # 0 => sent'[new.item] <= 1
        BY <3>4, <4>2
      <4>5. since' \in Nat /\ outcome' \in {outcome, "threw"}
        BY <1>3, <4>1
      <4>6. Taken' = Taken + 1 /\ new.item = Taken + 1 /\ queue # <<>>
        BY <1>5, <2>3, <2>4
      <4>7. Taken \in 0..N /\ Taken' \in 0..N
        BY <1>1, <2>3
      <4>8. queue' \in Seq(Nat) /\ Len(queue') <= N /\ QueueOK'
        BY <1>1, <1>5, <2>2, <2>3, <2>5
      <4> QED  BY <3>2, <3>4, <4>1, <4>2, <4>4, <4>5, <4>6, <4>7, <4>8 DEF Moves
    <3> QED  BY <2>7, <3>3, <3>4 DEF Sends
  <2> QED  BY <1>5, <2>6, <2>7 DEF Takes
<1> QED  BY <1>4, <1>5


\* What every step that takes an item keeps, whatever it stores.
LEMMA TakeStep ==
    ASSUME Types, Going, NEW w \in 1..Workers, NEW new, Takes(w, new), UNCHANGED job,
           worker[w].pc \in {"new", "fetch"},
           launched' \in 0..Workers, w <= launched',
           \A v \in 1..Workers : v # w => (v > launched' <=> v > launched),
           results' \in Seq(OutRow)
    PROVE  /\ Types' /\ QueueOK' /\ WorkersOK' /\ Apart' /\ SentOK' /\ OutcomeOK' /\ PaceOK'
<1>1. /\ N' = N /\ Workers' = Workers /\ Limit' = Limit /\ (Sole' <=> Sole)
      /\ N \in Nat /\ Workers \in Nat
  BY JobSame, ItemsCounted, JobFacts DEF Types
<1>2. Moves(w, new) /\ Turns(w, new) /\ worker'[w] = new /\ DOMAIN new = Fields /\ new.attempt \in Nat
  BY TakesMoves DEF Takes, Turns
<1>3. /\ Taken \in 0..N /\ Taken' \in 0..N /\ Taken' >= Taken
      /\ new.item = 0 \/ (new.item = Taken + 1 /\ Taken' = Taken + 1)
      /\ new.item \in Nat
      /\ new.pc \in {"done", "sleep", "fetch", "threw"}
      /\ new.pc = "done" <=> new.item = 0
      /\ new.item = 0 => queue' = <<>>
  BY <1>1, <1>2 DEF Moves
<1>4. \A i \in 1..N : i # new.item => sent'[i] = sent[i]
  BY <1>2 DEF Moves
<1>5. Limit \in Nat /\ Limit >= 1 /\ job.retries \in Nat /\ job.interval \in Nat
      /\ (Sole => Workers = 1)
  BY JobFacts DEF Types, Limit, Sole, Workers
<1>6. Types'
  BY <1>1, <1>2, <1>3, TypesKept DEF Moves, Types
<1>7. QueueOK'
  BY <1>2 DEF Moves
<1>8. \A v \in 1..Workers : /\ worker[v].item \in 0..Taken
                            /\ v # w => worker'[v] = worker[v]
  <2>1. SUFFICES ASSUME NEW v \in 1..Workers PROVE worker[v].item \in 0..Taken
    BY <1>2 DEF Turns
  <2>2. WorkerOK(v)
    BY DEF Going, WorkersOK
  <2> QED  BY <1>3, <2>2 DEF WorkerOK
<1>9. WorkersOK'
  <2>1. SUFFICES ASSUME NEW v \in 1..Workers PROVE WorkerOK(v)'
    BY <1>1 DEF WorkersOK
  <2>2. CASE v # w
    <3>1. worker'[v] = worker[v] /\ WorkerOK(v)
      BY <1>8, <2>2 DEF Going, WorkersOK
    <3>2. ~Sole
      BY <1>5, <2>2
    <3>3. worker[v].pc \in Holding => /\ worker[v].item \in 1..N /\ worker[v].item \in 1..Taken'
                                      /\ worker[v].item # new.item
      BY <1>1, <1>3, <3>1 DEF WorkerOK
    <3>4. worker[v].pc \in Holding => sent'[worker[v].item] = sent[worker[v].item]
      BY <1>4, <3>3
    <3>5. worker[v].pc = "done" => queue' = <<>>
      BY <1>2, <3>1 DEF WorkerOK, Moves
    <3>6. worker[v].pc = "new" <=> v > launched'
      BY <2>2, <3>1 DEF WorkerOK
    <3>7. {"sleep", "fetch", "backoff"} \subseteq Holding
      BY DEF Holding
    <3> QED  BY <1>1, <3>1, <3>2, <3>3, <3>4, <3>5, <3>6, <3>7 DEF WorkerOK
  <2>3. CASE v = w
    <3>1. worker'[v] = new /\ ~(v > launched')
      BY <1>1, <1>2, <2>3
    <3>2. /\ new.pc = "sleep" => sent'[new.item] = 0
          /\ new.pc = "fetch" => sent'[new.item] = 1 /\ new.attempt = 0
      BY <1>2 DEF Moves
    <3>3. new.pc \in Holding => new.item \in 1..Taken' /\ new.item = Taken'
      BY <1>3 DEF Holding
    <3>4. new.pc \notin Holding => new.item = 0
      BY <1>3 DEF Holding
    <3> QED  BY <1>1, <1>3, <1>5, <3>1, <3>2, <3>3, <3>4 DEF WorkerOK, Holding
  <2> QED  BY <2>2, <2>3
<1>10. Apart'
  <2>1. SUFFICES ASSUME NEW u \in 1..Workers, NEW v \in 1..Workers,
                        worker'[u].item = worker'[v].item, worker'[v].item # 0
                 PROVE  u = v
    BY <1>1 DEF Apart
  <2>2. \A x \in 1..Workers : x # w => worker'[x].item \in 0..Taken
    BY <1>8
  <2>3. new.item \notin 1..Taken
    BY <1>3
  <2>4. (u = w /\ v = w) \/ (u # w /\ v # w)
    BY <1>2, <1>3, <2>1, <2>2, <2>3
  <2> QED  BY <1>8, <2>1, <2>4 DEF Going, Apart
<1>11. SentOK'
  <2>1. SUFFICES ASSUME NEW i \in 1..N
                 PROVE  sent'[i] <= Limit /\ (i > Taken' => sent'[i] = 0)
    BY <1>1 DEF SentOK
  <2>2. sent[i] <= Limit /\ (i > Taken => sent[i] = 0)
    BY DEF Going, SentOK
  <2>3. CASE i # new.item
    BY <1>3, <1>4, <2>2, <2>3
  <2>4. CASE i = new.item
    <3>1. sent'[i] <= 1 /\ sent'[i] \in Nat
      BY <1>2, <2>4 DEF Moves
    <3> QED  BY <1>3, <1>5, <2>4, <3>1
  <2> QED  BY <2>3, <2>4
<1>12. OutcomeOK'
  <2>1. outcome # "returned"
    BY DEF Going, OutcomeOK
  <2>2. outcome' # "returned"
    BY <1>2, <2>1 DEF Moves
  <2>3. launched' > 0
    BY <1>1
  <2> QED  BY <2>2, <2>3 DEF OutcomeOK
<1>13. PaceOK'
  <2>1. SUFFICES ASSUME ~job.batch, job.concurrency = 1, job.retries = 0
                 PROVE  /\ ~close' /\ (job.interval > 0 => since' >= age')
                        /\ worker'[1].pc = "sleep" =>
                              worker'[1].wait \in Nat /\ age' + worker'[1].wait >= job.interval
    BY DEF PaceOK
  <2>2. w = 1 /\ worker'[1] = new
    BY <1>2, <2>1 DEF Workers
  <2>3. ~close /\ (job.interval > 0 => since >= age) /\ age \in Nat /\ since \in Nat
    BY <2>1 DEF Going, PaceOK, Types
  <2>4. CASE new.pc = "done"
    <3>1. UNCHANGED <<age, since, close>>
      BY <1>3, <2>4 DEF Takes, Sends
    <3> QED  BY <2>2, <2>3, <2>4, <3>1
  <2>5. CASE new.pc = "sleep"
    <3>1. UNCHANGED <<age, since, close>> /\ age < job.interval /\ new.wait = job.interval - age
      BY <2>5 DEF Takes, Sends
    <3> QED  BY <1>5, <2>2, <2>3, <2>5, <3>1
  <2>6. CASE new.pc \in {"fetch", "threw"}
    <3>1. /\ Sends(w, new.item, 0, new)
          /\ job.interval > 0 => age' = 0 /\ ~(age < job.interval)
      BY <2>1, <2>6 DEF Takes
    <3>2. ~(since < job.interval)
      BY <1>5, <2>3, <3>1
    <3>3. ~close'
      BY <2>3, <3>1, <3>2, Zenon DEF Sends
    <3>4. since' \in Nat
      BY <1>2 DEF Moves
    <3> QED  BY <2>2, <2>6, <3>1, <3>3, <3>4
  <2> QED  BY <1>3, <2>4, <2>5, <2>6
<1> QED  BY <1>6, <1>7, <1>9, <1>10, <1>11, <1>12, <1>13


\* Where the items are after a worker has taken its next one.
LEMMA TakenItems ==
    ASSUME Types, Going, NEW w \in 1..Workers, NEW new, Takes(w, new), UNCHANGED job
    PROVE  /\ N' = N /\ Workers' = Workers /\ (Sole' <=> Sole) /\ N \in Nat
           /\ Taken \in 0..N /\ Taken' \in 0..N /\ Taken' >= Taken
           /\ (new.item = 0 /\ Taken' = Taken) \/ (new.item = Taken + 1 /\ Taken' = Taken + 1)
           /\ worker'[w].item = new.item
           /\ \A v \in 1..Workers : v # w => worker'[v].item = worker[v].item
           /\ \A v \in 1..Workers : worker[v].item \in 0..Taken
           /\ \A i \in 1..Taken : sent'[i] = sent[i]
<1>1. N' = N /\ Workers' = Workers /\ (Sole' <=> Sole) /\ N \in Nat
  BY JobSame, ItemsCounted DEF Types
<1>2. Moves(w, new) /\ Turns(w, new)
  BY TakesMoves DEF Takes
<1>3. /\ Taken \in 0..N /\ Taken' \in 0..N
      /\ (new.item = 0 /\ Taken' = Taken) \/ (new.item = Taken + 1 /\ Taken' = Taken + 1)
      /\ \A i \in 1..N : i # new.item => sent'[i] = sent[i]
  BY <1>2 DEF Moves
<1>4. Taken' >= Taken
  BY <1>3
<1>5. \A i \in 1..Taken : sent'[i] = sent[i]
  BY <1>1, <1>3
<1>6. \A v \in 1..Workers : worker[v].item \in 0..Taken
  <2>1. SUFFICES ASSUME NEW v \in 1..Workers PROVE worker[v].item \in 0..Taken
    OBVIOUS
  <2>2. WorkerOK(v)
    BY DEF Going, WorkersOK
  <2> QED  BY <1>3, <2>2 DEF WorkerOK
<1> QED  BY <1>1, <1>2, <1>3, <1>4, <1>5, <1>6 DEF Turns

\* A worker starts: nothing is stored.
LEMMA LaunchStep ==
    ASSUME Types, Going, Launch
    PROVE  Types' /\ Going'
<1>1. /\ Launching /\ launched' = launched + 1 /\ Take(launched + 1, results)
      /\ UNCHANGED <<job, results>>
  BY DEF Launch
<1>2. Workers \in Nat /\ launched \in 0..Workers /\ Worker = 1..Workers
  BY JobFacts DEF Types, Worker
<1>3. Cardinality(1..Workers) = Workers
  BY <1>2, FS_Interval
<1>4. launched < Workers
  BY <1>1, <1>2, <1>3 DEF Launching
<1>5. PICK w \in 1..Workers : w = launched + 1
  BY <1>2, <1>4
<1>6. PICK new : Takes(w, new)
  BY <1>1, <1>5, TakeTakes
<1>7. worker[w].pc = "new" /\ worker[w].item = 0
  <2>1. w > launched /\ WorkerOK(w)
    BY <1>2, <1>5 DEF Going, WorkersOK
  <2> QED  BY <2>1 DEF WorkerOK, Holding
<1>8. /\ launched' \in 0..Workers /\ w <= launched' /\ results' \in Seq(OutRow)
      /\ \A v \in 1..Workers : v # w => (v > launched' <=> v > launched)
  <2>1. results' \in Seq(OutRow)
    BY <1>1 DEF Types
  <2> QED  BY <1>1, <1>2, <1>4, <1>5, <2>1
<1>9. Types' /\ QueueOK' /\ WorkersOK' /\ Apart' /\ SentOK' /\ OutcomeOK' /\ PaceOK'
  BY <1>1, <1>6, <1>7, <1>8, TakeStep
<1>10. /\ N' = N /\ Workers' = Workers /\ (Sole' <=> Sole) /\ N \in Nat
       /\ Taken \in 0..N /\ Taken' \in 0..N /\ Taken' >= Taken
       /\ (new.item = 0 /\ Taken' = Taken) \/ (new.item = Taken + 1 /\ Taken' = Taken + 1)
       /\ worker'[w].item = new.item
       /\ \A v \in 1..Workers : v # w => worker'[v].item = worker[v].item
       /\ \A i \in 1..Taken : sent'[i] = sent[i]
  BY <1>1, <1>6, TakenItems
<1>11. StoredOK'
  <2>1. SUFFICES ASSUME ~job.batch, NEW i \in DOMAIN results
                 PROVE  /\ results[i].row \in 1..Taken'
                        /\ \A v \in 1..Workers : worker'[v].item # results[i].row
                        /\ ~results[i].ok => results[i].null \/ sent'[results[i].row] = job.retries + 1
    BY <1>1, <1>10 DEF StoredOK
  <2>2. /\ results[i].row \in 1..Taken
        /\ \A v \in 1..Workers : worker[v].item # results[i].row
        /\ ~results[i].ok => results[i].null \/ sent[results[i].row] = job.retries + 1
    BY <2>1 DEF Going, StoredOK
  <2>3. new.item # results[i].row
    BY <1>10, <2>2
  <2>4. results[i].row \in 1..Taken'
    BY <1>10, <2>2
  <2> QED  BY <1>10, <2>2, <2>3, <2>4
<1>12. RowsOnce'
  <2>1. SUFFICES ASSUME ~job.batch, ~job.array, NEW r \in 1..Taken'
                 PROVE  \/ \E v \in 1..Workers : worker'[v].item = r
                        \/ \E i \in DOMAIN results : results[i].row = r
    BY <1>1, <1>10 DEF Going, RowsOnce
  <2>2. CASE r \in 1..Taken
    <3>1. CASE \E i \in DOMAIN results : results[i].row = r
      BY <3>1
    <3>2. CASE \E v \in 1..Workers : worker[v].item = r
      <4>1. PICK v \in 1..Workers : worker[v].item = r
        BY <3>2
      <4>2. v # w
        BY <1>7, <2>2, <4>1
      <4> QED  BY <1>10, <4>1, <4>2
    <3> QED  BY <2>1, <2>2, <3>1, <3>2 DEF Going, RowsOnce
  <2>3. CASE r \notin 1..Taken
    BY <1>10, <2>3
  <2> QED  BY <2>2, <2>3
<1>13. BatchOK'
  <2>1. SUFFICES ASSUME job.batch PROVE BatchOK'
    BY <1>1 DEF BatchOK
  <2>2. w = 1
    BY <2>1 DEF Workers
  <2>3. Stored' = Stored
    <3>1. Stored = Taken
      BY <1>7, <2>2 DEF Stored
    <3>2. Stored' = IF worker'[1].item = 0 THEN Taken' ELSE Taken' - 1
      BY DEF Stored
    <3>3. worker'[1].item = new.item
      BY <1>10, <2>2
    <3>4. Taken \in Nat /\ ((new.item = 0 /\ Taken' = Taken) \/ (new.item = Taken + 1 /\ Taken' = Taken + 1))
      BY <1>10
    <3> QED  BY <3>1, <3>2, <3>3, <3>4
  <2>4. UpTo(Stored)' = UpTo(Stored)
    BY <1>1, <2>3 DEF UpTo
  <2> QED  BY <1>1, <2>4 DEF Going, BatchOK
<1>14. OrderKept'
  BY <1>1 DEF Going, OrderKept
<1> QED  BY <1>9, <1>11, <1>12, <1>13, <1>14 DEF Going

\* The output grows at its end.
LEMMA Appended ==
    ASSUME NEW s \in Seq(OutRow), NEW t \in Seq(OutRow), NEW u, u = s \o t
    PROVE  /\ u \in Seq(OutRow) /\ Len(u) = Len(s) + Len(t)
           /\ DOMAIN u = 1..(Len(s) + Len(t)) /\ DOMAIN s = 1..Len(s) /\ DOMAIN t = 1..Len(t)
           /\ Len(s) \in Nat /\ Len(t) \in Nat
           /\ \A i \in DOMAIN s : i \in DOMAIN u /\ u[i] = s[i]
           /\ \A i \in DOMAIN u : i \notin DOMAIN s => i - Len(s) \in DOMAIN t /\ u[i] = t[i - Len(s)]
<1>1. /\ s \o t \in Seq(OutRow) /\ Len(s \o t) = Len(s) + Len(t)
      /\ \A i \in 1..(Len(s) + Len(t)) : (s \o t)[i] = IF i <= Len(s) THEN s[i] ELSE t[i - Len(s)]
  BY ConcatProperties
<1>2. Len(s) \in Nat /\ Len(t) \in Nat /\ DOMAIN s = 1..Len(s) /\ DOMAIN t = 1..Len(t)
  OBVIOUS
<1>3. DOMAIN u = 1..(Len(s) + Len(t)) /\ u \in Seq(OutRow) /\ Len(u) = Len(s) + Len(t)
  BY <1>1
<1>4. \A i \in DOMAIN s : i \in DOMAIN u /\ u[i] = s[i]
  BY <1>1, <1>2, <1>3
<1>5. \A i \in DOMAIN u : i \notin DOMAIN s => i - Len(s) \in DOMAIN t /\ u[i] = t[i - Len(s)]
  BY <1>1, <1>2, <1>3
<1> QED  BY <1>2, <1>3, <1>4, <1>5

\* Per row: the worker stores the rows of its answer and goes on.
LEMMA StoreStep ==
    ASSUME Types, Going, NEW w \in 1..Workers, worker[w].pc = "fetch", ~job.batch,
           NEW rows \in Seq(OutRow), Store(w, rows),
           \A i \in DOMAIN rows :
                /\ rows[i].row = worker[w].item
                /\ ~rows[i].ok => rows[i].null \/ sent[rows[i].row] = job.retries + 1,
           ~job.array => Len(rows) = 1
    PROVE  Types' /\ Going'
<1>1. /\ results' = results \o rows /\ Take(w, results') /\ UNCHANGED <<job, launched>>
  BY DEF Store
<1>2. PICK new : Takes(w, new)
  BY <1>1, TakeTakes
<1>3. PICK L \in Nat : L = Len(results)
  BY DEF Types
<1>4. /\ results' \in Seq(OutRow)
      /\ DOMAIN results = 1..L
      /\ \A i \in DOMAIN results : i \in DOMAIN results' /\ results'[i] = results[i]
      /\ \A i \in DOMAIN results' : /\ i \in Nat
                                    /\ i \notin DOMAIN results => i - L \in DOMAIN rows /\ results'[i] = rows[i - L]
      /\ DOMAIN results' = 1..(L + Len(rows)) /\ Len(rows) \in Nat
  <2>1. results \in Seq(OutRow)
    BY DEF Types
  <2> QED  BY <1>1, <1>3, <2>1, Appended
<1>5. launched \in 0..Workers /\ w <= launched /\ Workers \in Nat /\ worker[w].pc \in Holding
  <2>1. WorkerOK(w) /\ Workers \in Nat /\ launched \in 0..Workers
    BY JobFacts DEF Going, WorkersOK, Types
  <2> QED  BY <2>1 DEF WorkerOK, Holding
<1>6. Types' /\ QueueOK' /\ WorkersOK' /\ Apart' /\ SentOK' /\ OutcomeOK' /\ PaceOK'
  BY <1>1, <1>2, <1>4, <1>5, TakeStep
<1>7. /\ N' = N /\ Workers' = Workers /\ (Sole' <=> Sole) /\ N \in Nat
      /\ Taken \in 0..N /\ Taken' \in 0..N /\ Taken' >= Taken
      /\ (new.item = 0 /\ Taken' = Taken) \/ (new.item = Taken + 1 /\ Taken' = Taken + 1)
      /\ worker'[w].item = new.item
      /\ \A v \in 1..Workers : v # w => worker'[v].item = worker[v].item
      /\ \A i \in 1..Taken : sent'[i] = sent[i]
  BY <1>1, <1>2, TakenItems
<1>8. PICK d \in 1..Taken : d = worker[w].item
  BY <1>5 DEF Going, WorkersOK, WorkerOK
<1>9. d # 0 /\ d # new.item /\ d \in 1..Taken'
  BY <1>7
<1>10. \A v \in 1..Workers : v # w => worker[v].item # d
  BY <1>8, <1>9 DEF Going, Apart
<1>11. \A v \in 1..Workers : worker'[v].item # d
  BY <1>7, <1>9, <1>10
<1>12. \A i \in DOMAIN results :
         /\ results[i].row \in 1..Taken
         /\ \A v \in 1..Workers : worker[v].item # results[i].row
         /\ ~results[i].ok => results[i].null \/ sent[results[i].row] = job.retries + 1
  BY DEF Going, StoredOK
<1>13. \A i \in DOMAIN results : results[i].row # d
  BY <1>8, <1>12
<1>14. \A i \in DOMAIN results' : i \notin DOMAIN results =>
         /\ results'[i].row = d
         /\ ~results'[i].ok => results'[i].null \/ sent[d] = job.retries + 1
  BY <1>4, <1>8
<1>15. StoredOK'
  <2>1. SUFFICES ASSUME NEW i \in DOMAIN results'
                 PROVE  /\ results'[i].row \in 1..Taken'
                        /\ \A v \in 1..Workers : worker'[v].item # results'[i].row
                        /\ ~results'[i].ok => results'[i].null \/ sent'[results'[i].row] = job.retries + 1
    BY <1>1, <1>7 DEF StoredOK
  <2>2. CASE i \in DOMAIN results
    <3>1. results'[i] = results[i] /\ results[i].row \in 1..Taken
      BY <1>4, <1>12, <2>2
    <3>2. new.item # results[i].row /\ results[i].row \in 1..Taken'
      BY <1>7, <3>1
    <3> QED  BY <1>7, <1>12, <2>2, <3>1, <3>2
  <2>3. CASE i \notin DOMAIN results
    BY <1>7, <1>9, <1>11, <1>14, <2>3
  <2> QED  BY <2>2, <2>3
<1>16. RowsOnce'
  <2>1. SUFFICES ASSUME ~job.array PROVE RowsOnce'
    BY <1>1 DEF RowsOnce
  <2>2. DOMAIN results' = 1..(L + 1) /\ DOMAIN results = 1..L
    BY <1>4, <2>1
  <2>3. L + 1 \in DOMAIN results' /\ results'[L + 1].row = d
    BY <1>3, <1>14, <2>2
  <2>4. \A i, j \in DOMAIN results' : results'[i].row = results'[j].row => i = j
    <3>1. SUFFICES ASSUME NEW i \in DOMAIN results', NEW j \in DOMAIN results',
                          results'[i].row = results'[j].row
                   PROVE  i = j
      OBVIOUS
    <3>2. CASE i \in DOMAIN results /\ j \in DOMAIN results
      BY <1>4, <2>1, <3>1, <3>2 DEF Going, RowsOnce
    <3>3. CASE i \notin DOMAIN results /\ j \notin DOMAIN results
      BY <1>3, <2>2, <3>3
    <3>4. CASE i \in DOMAIN results /\ j \notin DOMAIN results
      BY <1>4, <1>13, <1>14, <3>1, <3>4
    <3>5. CASE i \notin DOMAIN results /\ j \in DOMAIN results
      BY <1>4, <1>13, <1>14, <3>1, <3>5
    <3> QED  BY <3>2, <3>3, <3>4, <3>5
  <2>5. ASSUME NEW r \in 1..Taken'
        PROVE  \/ \E v \in 1..Workers : worker'[v].item = r
               \/ \E i \in DOMAIN results' : results'[i].row = r
    <3>1. CASE r = d
      BY <2>3, <3>1
    <3>2. CASE r \notin 1..Taken
      <4>1. r = new.item
        BY <1>7, <3>2
      <4> QED  BY <1>7, <4>1
    <3>3. CASE r # d /\ r \in 1..Taken
      <4>1. CASE \E i \in DOMAIN results : results[i].row = r
        BY <1>4, <4>1
      <4>2. CASE \E v \in 1..Workers : worker[v].item = r
        <5>1. PICK v \in 1..Workers : worker[v].item = r
          BY <4>2
        <5>2. v # w
          BY <1>8, <3>3, <5>1
        <5> QED  BY <1>7, <5>1, <5>2
      <4> QED  BY <2>1, <3>3, <4>1, <4>2 DEF Going, RowsOnce
    <3> QED  BY <3>1, <3>2, <3>3
  <2> QED  BY <1>1, <1>7, <2>4, <2>5 DEF RowsOnce
<1>17. BatchOK'
  BY <1>1 DEF BatchOK
<1>18. OrderKept'
  <2>1. SUFFICES ASSUME job.concurrency = 1, NEW i \in DOMAIN results', NEW j \in DOMAIN results', i < j
                 PROVE  results'[i].row <= results'[j].row
    BY <1>1 DEF OrderKept
  <2>2. d = Taken
    BY <1>5, <1>8, <2>1 DEF Going, WorkersOK, WorkerOK, Sole
  <2>3. CASE j \in DOMAIN results
    <3>1. i \in DOMAIN results
      BY <1>3, <1>4, <2>1, <2>3
    <3> QED  BY <1>4, <2>1, <2>3, <3>1 DEF Going, OrderKept
  <2>4. CASE j \notin DOMAIN results /\ i \in DOMAIN results
    <3>1. results'[j].row = d /\ results'[i] = results[i] /\ results[i].row \in 1..Taken
      BY <1>4, <1>12, <1>14, <2>4
    <3> QED  BY <1>7, <2>2, <3>1
  <2>5. CASE j \notin DOMAIN results /\ i \notin DOMAIN results
    BY <1>7, <1>14, <2>5
  <2> QED  BY <2>3, <2>4, <2>5
<1> QED  BY <1>6, <1>15, <1>16, <1>17, <1>18 DEF Going


\* A sum of rows read so far only grows.
LEMMA UpToNat ==
    ASSUME job \in Jobs, NEW k \in Nat
    PROVE  UpTo(k) \in Nat
<1>1. job.rows \in Nat /\ job.chunk \in Nat
  BY JobFacts
<1>2. k * job.chunk \in Nat
  BY <1>1
<1> QED  BY <1>1, <1>2 DEF UpTo

\* The output of an answer to a chunk.
GoodRows(from) == [i \in DOMAIN from |-> Row(from[i], TRUE, FALSE)]

\* In batch mode: the loop stores the rows of a chunk and goes on.
LEMMA BatchStoreStep ==
    ASSUME Types, Going, job.rows # 0, NEW w \in 1..Workers, worker[w].pc = "fetch", job.batch,
           NEW from \in Expansions(ChunkRows(worker[w].item)),
           NEW rows, rows = GoodRows(from), Store(w, rows)
    PROVE  Types' /\ Going'
<1>1. /\ results' = results \o rows /\ Take(w, results') /\ UNCHANGED <<job, launched>>
  BY DEF Store
<1>2. PICK new : Takes(w, new)
  BY <1>1, TakeTakes
<1>3. Workers = 1 /\ w = 1 /\ job \in Jobs /\ Sole
  BY DEF Workers, Types, Sole
<1>4. WorkerOK(w) /\ worker[w].pc \in Holding
  BY DEF Going, WorkersOK, Holding
<1>5. launched \in 0..Workers /\ w <= launched
  BY <1>3, <1>4 DEF WorkerOK, Types, Holding
<1>6. /\ N' = N /\ Workers' = Workers /\ (Sole' <=> Sole) /\ N \in Nat
      /\ Taken \in 0..N /\ Taken' \in 0..N /\ Taken' >= Taken
      /\ (new.item = 0 /\ Taken' = Taken) \/ (new.item = Taken + 1 /\ Taken' = Taken + 1)
      /\ worker'[w].item = new.item
  BY <1>1, <1>2, TakenItems
<1>7. PICK d \in 1..N : d = worker[w].item /\ d = Taken /\ d \in Nat /\ d - 1 \in Nat
  BY <1>3, <1>4, <1>6 DEF WorkerOK
<1>8. PICK a \in Nat, b \in Nat : a = UpTo(d - 1) /\ b = UpTo(d)
  BY <1>3, <1>7, UpToNat
<1>9. a < b
  BY <1>3, <1>8, ChunksCover
<1>10. /\ from \in Seq(Nat)
       /\ \A i \in DOMAIN from : from[i] > a /\ from[i] <= b
       /\ \A i, j \in DOMAIN from : i < j => from[i] <= from[j]
       /\ ~job.array => Len(from) = b - a /\ \A i \in DOMAIN from : from[i] = a + i
  <2>1. from \in Expansions(ChunkRows(d))
    BY <1>7
  <2> QED  BY <1>3, <1>8, <2>1, ExpansionFacts
<1>11. /\ DOMAIN rows = DOMAIN from /\ DOMAIN from = 1..Len(from) /\ Len(from) \in Nat
       /\ \A i \in DOMAIN from : rows[i].row = from[i] /\ rows[i].ok
  BY <1>10 DEF Row, GoodRows
<1>12. rows \in Seq(OutRow) /\ Len(rows) = Len(from)
  <2>1. \A i \in 1..Len(from) : rows[i] \in OutRow
    BY <1>10, <1>11 DEF Row, GoodRows, OutRow
  <2>2. rows \in [1..Len(from) -> OutRow]
    BY <1>11, <2>1 DEF GoodRows
  <2> QED  BY <1>11, <2>2
<1>13. PICK L \in Nat : L = Len(results)
  BY DEF Types
<1>14. /\ results' \in Seq(OutRow)
       /\ DOMAIN results = 1..L
       /\ \A i \in DOMAIN results : i \in DOMAIN results' /\ results'[i] = results[i]
       /\ \A i \in DOMAIN results' : i \notin DOMAIN results => i - L \in DOMAIN rows /\ results'[i] = rows[i - L]
       /\ DOMAIN results' = 1..(L + Len(from)) /\ Len(results') = L + Len(from)
  <2>1. results \in Seq(OutRow)
    BY DEF Types
  <2>2. /\ results' \in Seq(OutRow)
        /\ DOMAIN results = 1..Len(results)
        /\ \A i \in DOMAIN results : i \in DOMAIN results' /\ results'[i] = results[i]
        /\ \A i \in DOMAIN results' : i \notin DOMAIN results =>
                i - Len(results) \in DOMAIN rows /\ results'[i] = rows[i - Len(results)]
        /\ DOMAIN results' = 1..(Len(results) + Len(rows)) /\ Len(results') = Len(results) + Len(rows)
    <3>1. rows \in Seq(OutRow) /\ results' = results \o rows
      BY <1>1, <1>12
    <3> QED  BY <2>1, <3>1, Appended
  <2> QED  BY <1>12, <1>13, <2>2
<1>15. Types' /\ QueueOK' /\ WorkersOK' /\ Apart' /\ SentOK' /\ OutcomeOK' /\ PaceOK'
  <2>1. \A v \in 1..Workers : v # w => (v > launched' <=> v > launched)
    BY <1>1
  <2> QED  BY <1>1, <1>2, <1>5, <1>14, <2>1, TakeStep
<1>16. Stored = d - 1 /\ Stored' = d
  <2>1. Stored = d - 1
    BY <1>3, <1>7 DEF Stored
  <2>2. Stored' = IF worker'[1].item = 0 THEN Taken' ELSE Taken' - 1
    BY DEF Stored
  <2>3. worker'[1].item = new.item
    BY <1>3, <1>6
  <2>4. d \in Nat /\ ((new.item = 0 /\ Taken' = d) \/ (new.item = d + 1 /\ Taken' = d + 1))
    BY <1>6, <1>7
  <2>5. Stored' = d
    BY <2>2, <2>3, <2>4
  <2> QED  BY <2>1, <2>5
<1>17. UpTo(Stored) = a /\ UpTo(Stored)' = b
  <2>1. UpTo(Stored)' = UpTo(d)
    BY <1>1, <1>16 DEF UpTo
  <2> QED  BY <1>8, <1>16, <2>1
<1>18. \A i \in DOMAIN results : /\ results[i].ok /\ results[i].row <= a
                                 /\ results[i].row \in Nat
  <2>1. \A i \in DOMAIN results : results[i] \in OutRow
    BY <1>13, <1>14 DEF Types
  <2> QED  BY <1>17, <2>1 DEF Going, BatchOK, OutRow
<1>19. \A i \in DOMAIN results' : i \notin DOMAIN results =>
          /\ i - L \in DOMAIN from /\ results'[i].row = from[i - L] /\ results'[i].ok
          /\ results'[i].row > a /\ results'[i].row <= b /\ results'[i].row \in Nat
  <2>1. \A k \in DOMAIN from : from[k] \in Nat
    BY <1>10
  <2> QED  BY <1>10, <1>11, <1>14, <2>1
<1>20. BatchOK'
  <2>1. \A i \in DOMAIN results' : results'[i].ok /\ results'[i].row <= b
    <3>1. SUFFICES ASSUME NEW i \in DOMAIN results' PROVE results'[i].ok /\ results'[i].row <= b
      OBVIOUS
    <3>2. CASE i \in DOMAIN results
      <4>1. results'[i] = results[i]
        BY <1>14, <3>2
      <4> QED  BY <1>9, <1>18, <3>2, <4>1
    <3>3. CASE i \notin DOMAIN results
      BY <1>19, <3>3
    <3> QED  BY <3>2, <3>3
  <2>2. ASSUME ~job.array
        PROVE  Len(results') = b /\ \A i \in DOMAIN results' : results'[i].row = i
    <3>1. L = a /\ \A i \in DOMAIN results : results[i].row = i
      BY <1>13, <1>17, <2>2 DEF Going, BatchOK
    <3>2. Len(results') = b
      BY <1>9, <1>10, <1>14, <2>2, <3>1
    <3>3. SUFFICES ASSUME NEW i \in DOMAIN results' PROVE results'[i].row = i
      BY <3>2
    <3>4. CASE i \in DOMAIN results
      BY <1>14, <3>1, <3>4
    <3>5. CASE i \notin DOMAIN results
      <4>1. i - L \in DOMAIN from /\ results'[i].row = from[i - L] /\ i \in Nat
        BY <1>11, <1>14, <1>19, <3>5
      <4>2. from[i - L] = a + (i - L)
        BY <1>10, <2>2, <4>1
      <4> QED  BY <3>1, <4>1, <4>2
    <3> QED  BY <3>4, <3>5
  <2> QED  BY <1>1, <1>17, <2>1, <2>2 DEF BatchOK
<1>21. StoredOK' /\ RowsOnce'
  BY <1>1 DEF StoredOK, RowsOnce
<1>22. OrderKept'
  <2>1. SUFFICES ASSUME NEW i \in DOMAIN results', NEW j \in DOMAIN results', i < j
                 PROVE  results'[i].row <= results'[j].row
    BY DEF OrderKept
  <2>2. CASE j \in DOMAIN results
    <3>1. i \in DOMAIN results
      BY <1>11, <1>14, <2>1, <2>2
    <3> QED  BY <1>14, <2>1, <2>2, <3>1 DEF Going, OrderKept
  <2>3. CASE j \notin DOMAIN results /\ i \in DOMAIN results
    <3>1. results'[i] = results[i] /\ results[i].row <= a /\ results[i].row \in Nat
      BY <1>14, <1>18, <2>3
    <3>2. results'[j].row > a /\ results'[j].row \in Nat
      BY <1>19, <2>3
    <3> QED  BY <3>1, <3>2
  <2>4. CASE j \notin DOMAIN results /\ i \notin DOMAIN results
    <3>1. /\ i - L \in DOMAIN from /\ results'[i].row = from[i - L]
          /\ j - L \in DOMAIN from /\ results'[j].row = from[j - L]
      BY <1>19, <2>4
    <3>2. i - L < j - L
      BY <1>11, <1>14, <2>1
    <3> QED  BY <1>10, <3>1, <3>2
  <2> QED  BY <2>2, <2>3, <2>4
<1> QED  BY <1>15, <1>20, <1>21, <1>22 DEF Going



-----------------------------------------------------------------------------
(* The answers, and the whole node.                                        *)

\* fetchSingleRow, an answer: all its rows are rows of the item.
LEMMA AnsweredStep ==
    ASSUME Types, Going, NEW w \in 1..Workers, NEW n \in Nat, NEW null \in BOOLEAN,
           Answered(w, n, null)
    PROVE  Types' /\ Going'
<1>1. ~job.batch /\ worker[w].pc = "fetch"
  BY DEF Answered
<1>2. PICK r \in Nat : r = worker[w].item
  BY DEF Types
<1>3. CASE null /\ worker[w].attempt > 0
  <2> DEFINE rows == <<Row(r, FALSE, TRUE)>>
  <2>1. Store(w, rows)
    BY <1>2, <1>3 DEF Answered
  <2>2. rows \in Seq(OutRow) /\ Len(rows) = 1 /\ DOMAIN rows = {1} /\ rows[1].row = r /\ rows[1].null
    BY DEF Row, OutRow
  <2> HIDE DEF rows
  <2> QED  BY <1>1, <1>2, <2>1, <2>2, StoreStep
<1>4. CASE ~(null /\ worker[w].attempt > 0)
  <2>1. PICK rows : rows = Output(r, n, null)
    OBVIOUS
  <2>2. Store(w, rows)
    BY <1>2, <1>4, <2>1 DEF Answered
  <2>3. PICK m \in Nat : rows = [i \in 1..m |-> Row(r, TRUE, null)] /\ (~job.array => m = 1)
    BY <2>1 DEF Output
  <2>4. \A i \in 1..m : rows[i] \in OutRow /\ rows[i].row = r /\ rows[i].ok
    BY <2>3 DEF Row, OutRow
  <2>5. rows \in Seq(OutRow) /\ Len(rows) = m /\ DOMAIN rows = 1..m
    <3>1. DOMAIN rows = 1..m /\ rows = [i \in 1..m |-> rows[i]]
      BY <2>3, Zenon
    <3>2. rows \in [1..m -> OutRow]
      BY <2>4, <3>1, Zenon
    <3> QED  BY <3>1, <3>2
  <2> QED  BY <1>1, <1>2, <2>2, <2>3, <2>4, <2>5, StoreStep
<1> QED  BY <1>3, <1>4

\* fetchSingleRow, a failed attempt: an error row has had all its attempts.
LEMMA FailedStep ==
    ASSUME Types, Going, NEW w \in 1..Workers, Failed(w)
    PROVE  Types' /\ Going'
<1>1. ~job.batch /\ worker[w].pc = "fetch"
  BY DEF Failed
<1>2. CASE worker[w].attempt < job.retries
  <2>1. /\ worker' = [worker EXCEPT ![w].pc = "backoff",
                                    ![w].wait = job.backoff * 2 ^ worker[w].attempt]
        /\ UNCHANGED <<job, launched, queue, age, since, sent, close, results, outcome>>
    BY <1>2 DEF Failed
  <2> QED  BY <1>1, <1>2, <2>1, BackoffStep
<1>3. CASE ~(worker[w].attempt < job.retries)
  <2>1. PICK r \in Nat : r = worker[w].item
    BY DEF Types
  <2> DEFINE rows == <<Row(r, FALSE, FALSE)>>
  <2>2. Store(w, rows)
    BY <1>3, <2>1 DEF Failed
  <2>3. rows \in Seq(OutRow) /\ Len(rows) = 1 /\ DOMAIN rows = {1} /\ rows[1].row = r
    BY DEF Row, OutRow
  <2>4. sent[r] = job.retries + 1
    <3>1. /\ sent[r] = worker[w].attempt + 1 /\ worker[w].attempt <= job.retries
      BY <1>1, <2>1 DEF Going, WorkersOK, WorkerOK
    <3>2. worker[w].attempt \in Nat /\ job.retries \in Nat
      BY JobFacts DEF Types
    <3> QED  BY <1>3, <3>1, <3>2
  <2> HIDE DEF rows
  <2> QED  BY <1>1, <2>1, <2>2, <2>3, <2>4, StoreStep
<1> QED  BY <1>2, <1>3

\* Every step of a node that has rows keeps the invariant.
LEMMA GoingStep ==
    ASSUME Types, Going, job.rows # 0, Next
    PROVE  Types' /\ Going'
<1>1. Worker = 1..Workers
  BY DEF Types, Worker
<1>2. CASE Launch
  BY <1>2, LaunchStep
<1>3. CASE Return
  BY <1>3, ReturnStep
<1>4. CASE Tick
  BY <1>4, TickStep
<1>5. ASSUME NEW w \in 1..Workers, Wake(w) PROVE Types' /\ Going'
  BY <1>5, WakeStep
<1>6. ASSUME NEW w \in 1..Workers, Resume(w) PROVE Types' /\ Going'
  BY <1>6, ResumeStep
<1>7. ASSUME NEW w \in 1..Workers, Answers(w) PROVE Types' /\ Going'
  <2>1. ASSUME NEW n \in 0..MaxItems, Answered(w, n, FALSE) PROVE Types' /\ Going'
    <3>1. n \in Nat
      BY JobsAssumption
    <3> QED  BY <2>1, <3>1, AnsweredStep
  <2>2. CASE Answered(w, 1, TRUE)
    BY <2>2, AnsweredStep
  <2>3. CASE Failed(w)
    BY <2>3, FailedStep
  <2>4. CASE BatchAnswered(w)
    <3>1. job.batch /\ worker[w].pc = "fetch"
      BY <2>4 DEF BatchAnswered
    <3>2. PICK from \in Expansions(ChunkRows(worker[w].item)) : Store(w, GoodRows(from))
      BY <2>4 DEF BatchAnswered, GoodRows
    <3> QED  BY <3>1, <3>2, BatchStoreStep
  <2>5. CASE BatchFailed(w)
    BY <2>5, BatchFailedStep
  <2> QED  BY <1>7, <2>1, <2>2, <2>3, <2>4, <2>5 DEF Answers
<1> QED  BY <1>1, <1>2, <1>3, <1>4, <1>5, <1>6, <1>7 DEF Next

\* A node without rows takes no step.
LEMMA EmptyRests ==
    ASSUME Types, Empty
    PROVE  ~Next
<1>1. Worker = 1..Workers
  BY DEF Types, Worker
<1>2. ~Launch /\ ~Return
  BY DEF Empty, Launch, Return
<1>3. \A w \in Worker : worker[w].pc = "new"
  BY <1>1 DEF Empty
<1>4. ~Tick
  BY <1>3 DEF Tick, Busy
<1>5. ASSUME NEW w \in Worker PROVE ~Wake(w) /\ ~Resume(w) /\ ~Answers(w)
  BY <1>3 DEF Wake, Resume, Answers, Answered, Failed, BatchAnswered, BatchFailed
<1> QED  BY <1>2, <1>4, <1>5 DEF Next

LEMMA InitHolds ==
    ASSUME Init
    PROVE  HInv
<1>1. /\ job \in Jobs /\ launched = 0 /\ age = job.interval /\ since = job.interval
      /\ worker = [w \in 1..Workers |-> Idle] /\ sent = [i \in 1..N |-> 0]
      /\ close = FALSE /\ results = <<>>
      /\ queue = IF job.rows = 0 THEN <<>> ELSE [i \in 1..N |-> i]
      /\ outcome = IF job.rows = 0 THEN "returned" ELSE "running"
  BY DEF Init, Workers, N
<1>2. /\ N \in Nat /\ Workers \in Nat /\ job.interval \in Nat /\ job.rows \in Nat
  BY <1>1, ItemsCounted, JobFacts
<1>3. queue \in Seq(Nat) /\ Len(queue) <= N
      /\ (job.rows # 0 => Len(queue) = N /\ \A i \in 1..N : queue[i] = i)
  <2>1. CASE job.rows = 0
    BY <1>1, <1>2, <2>1
  <2>2. CASE job.rows # 0
    <3>1. queue = [i \in 1..N |-> i]
      BY <1>1, <2>2
    <3> QED  BY <1>2, <2>2, <3>1
  <2> QED  BY <2>1, <2>2
<1>4. \A w \in 1..Workers : /\ worker[w].pc = "new" /\ worker[w].item = 0 /\ worker[w].attempt = 0
                            /\ DOMAIN worker[w] = Fields
  BY <1>1 DEF Idle, Fields
<1>5. Types
  <2>1. DOMAIN worker = 1..Workers /\ sent \in [1..N -> Nat] /\ results \in Seq(OutRow)
    BY <1>1
  <2>2. close \in BOOLEAN
    BY <1>1
  <2> QED  BY <1>1, <1>2, <1>3, <1>4, <2>1, <2>2 DEF Types
<1>6. CASE job.rows = 0
  BY <1>1, <1>4, <1>5, <1>6 DEF HInv, Empty
<1>7. CASE job.rows # 0
  <2>1. Taken = 0
    BY <1>2, <1>3, <1>7 DEF Taken
  <2>2. QueueOK
    <3>1. DOMAIN queue = 1..N
      BY <1>2, <1>3, <1>7
    <3> QED  BY <1>3, <1>7, <2>1, <3>1 DEF QueueOK
  <2>3. WorkersOK
    BY <1>1, <1>2, <1>4, <2>1 DEF WorkersOK, WorkerOK, Holding
  <2>4. Apart /\ StoredOK
    BY <1>1, <1>4 DEF Apart, StoredOK
  <2>5. SentOK
    <3>1. Limit \in Nat
      BY <1>1, JobFacts DEF Limit
    <3> QED  BY <1>1, <3>1 DEF SentOK
  <2>6. RowsOnce
    BY <1>1, <2>1 DEF RowsOnce
  <2>7. BatchOK
    <3>1. job.batch => Stored = 0
      BY <1>4, <2>1 DEF Stored, Workers
    <3>2. job.batch => UpTo(Stored) = 0
      BY <3>1 DEF UpTo
    <3> QED  BY <1>1, <3>2 DEF BatchOK
  <2>8. OutcomeOK /\ OrderKept
    BY <1>1, <1>7 DEF OutcomeOK, OrderKept
  <2>9. PaceOK
    BY <1>1, <1>2, <1>4 DEF PaceOK, Workers
  <2> QED  BY <1>5, <1>7, <2>2, <2>3, <2>4, <2>5, <2>6, <2>7, <2>8, <2>9 DEF HInv, Going
<1> QED  BY <1>6, <1>7

LEMMA StepHolds ==
    ASSUME HInv, [Next]_vars
    PROVE  HInv'
<1>1. CASE Next
  <2>1. CASE job.rows = 0
    BY <1>1, <2>1, EmptyRests DEF HInv
  <2>2. CASE job.rows # 0
    <3>1. Types /\ Going
      BY <2>2 DEF HInv
    <3>2. UNCHANGED job
      BY <1>1 DEF Next, Launch, Return, Tick, Wake, Resume, Answers, Answered, Failed, BatchAnswered,
                  BatchFailed, Store
    <3> QED  BY <1>1, <2>2, <3>1, <3>2, GoingStep DEF HInv
  <2> QED  BY <2>1, <2>2
<1>2. CASE UNCHANGED vars
  <2>1. UNCHANGED <<job, launched, queue, worker, age, since, sent, close, results, outcome>>
    BY <1>2 DEF vars
  <2>2. N' = N /\ Workers' = Workers /\ Limit' = Limit /\ (Sole' <=> Sole)
    BY <2>1, JobSame
  <2>3. Taken' = Taken
    BY <2>1, <2>2 DEF Taken
  <2>4. Types'
    BY <2>1, <2>2 DEF HInv, Types
  <2>5. Empty => Empty'
    BY <2>1, <2>2 DEF Empty
  <2>6. Going => Going'
    <3>1. SUFFICES ASSUME Going PROVE Going'
      OBVIOUS
    <3>2. QueueOK' /\ SentOK' /\ Apart' /\ StoredOK' /\ RowsOnce'
      BY <2>1, <2>2, <2>3, <3>1 DEF Going, QueueOK, SentOK, Apart, StoredOK, RowsOnce
    <3>3. WorkersOK'
      BY <2>1, <2>2, <2>3, <3>1 DEF Going, WorkersOK, WorkerOK
    <3>4. BatchOK'
      <4>1. Stored' = Stored
        BY <2>1, <2>3 DEF Stored
      <4>2. UpTo(Stored)' = UpTo(Stored)
        BY <2>1, <4>1 DEF UpTo
      <4> QED  BY <2>1, <3>1, <4>2 DEF Going, BatchOK
    <3>5. OutcomeOK' /\ PaceOK' /\ OrderKept'
      BY <2>1, <2>2, <3>1 DEF Going, OutcomeOK, PaceOK, OrderKept
    <3> QED  BY <3>2, <3>3, <3>4, <3>5 DEF Going
  <2> QED  BY <2>1, <2>4, <2>5, <2>6 DEF HInv
<1> QED  BY <1>1, <1>2

\* The inductive invariant holds in every state of an execution of the node.
THEOREM HttpInvariance == Spec => []HInv
<1>1. Init => HInv
  BY InitHolds
<1>2. HInv /\ [Next]_vars => HInv'
  BY StepHolds
<1> QED  BY <1>1, <1>2, PTL DEF Spec

LEMMA LimitsFollow ==
    ASSUME HInv
    PROVE  RequestsWithinLimits
<1>1. Types /\ DOMAIN sent = 1..N /\ job.retries \in Nat
  BY JobFacts DEF HInv, Types
<1>2. CASE job.rows = 0
  <2>1. Empty
    BY <1>2 DEF HInv
  <2> QED  BY <1>1, <2>1 DEF Empty, RequestsWithinLimits, AttemptsExact, SoleWorkerPaced
<1>3. CASE job.rows # 0
  <2>1. Going
    BY <1>3 DEF HInv
  <2>2. \A i \in DOMAIN sent : sent[i] <= Limit
    BY <1>1, <2>1 DEF Going, SentOK
  <2>3. \A i \in DOMAIN results :
           ~results[i].ok => results[i].null \/ sent[results[i].row] = job.retries + 1
    BY <2>1 DEF Going, StoredOK, BatchOK
  <2>4. SoleWorkerPaced
    BY <2>1 DEF Going, PaceOK, SoleWorkerPaced
  <2> QED  BY <2>2, <2>3, <2>4 DEF RequestsWithinLimits, AttemptsExact, Limit
<1> QED  BY <1>2, <1>3

LEMMA OutputFollows ==
    ASSUME HInv
    PROVE  OutputComplete
<1>1. Types /\ job \in Jobs /\ Worker = 1..Workers
  BY DEF HInv, Types, Worker
<1>2. job.rows \in Nat /\ Workers \in Nat /\ N \in Nat
  BY <1>1, JobFacts, ItemsCounted
<1>3. OrderKept
  BY DEF HInv, Empty, Going, OrderKept
<1>4. ReturnsComplete
  <2>1. SUFFICES ASSUME outcome = "returned", job.rows > 0
                 PROVE  /\ queue = <<>>
                        /\ \A w \in Worker : ~Busy(w)
                        /\ ~job.array => \A r \in Rows :
                               Cardinality({i \in DOMAIN results : results[i].row = r}) = 1
    BY DEF ReturnsComplete
  <2>2. Going
    BY <1>2, <2>1 DEF HInv
  <2>3. (\A w \in 1..Workers : worker[w].pc = "done") /\ Workers > 0
    BY <2>1, <2>2 DEF Going, OutcomeOK
  <2>4. \A w \in 1..Workers : worker[w].item = 0 /\ queue = <<>>
    BY <2>2, <2>3 DEF Going, WorkersOK, WorkerOK, Holding
  <2>5. 1 \in 1..Workers
    BY <1>2, <2>3
  <2>6. queue = <<>> /\ \A w \in Worker : ~Busy(w)
    BY <1>1, <2>3, <2>4, <2>5 DEF Busy
  <2>7. Taken = N
    BY <1>2, <2>6 DEF Taken
  <2>8. ASSUME ~job.array, NEW r \in Rows
        PROVE  Cardinality({i \in DOMAIN results : results[i].row = r}) = 1
    <3>1. r \in 1..job.rows
      BY DEF Rows
    <3>2. \E k \in DOMAIN results : /\ results[k].row = r
                                    /\ \A i \in DOMAIN results : results[i].row = r => i = k
      <4>1. CASE job.batch
        <5>1. Stored = N
          BY <2>4, <2>5, <2>7 DEF Stored
        <5>2. UpTo(N) = job.rows
          BY <1>1, <1>2, <2>1, <4>1, ChunksCover
        <5>3. Len(results) = job.rows /\ \A i \in DOMAIN results : results[i].row = i
          BY <2>2, <2>8, <4>1, <5>1, <5>2 DEF Going, BatchOK
        <5>4. DOMAIN results = 1..Len(results)
          BY <1>1 DEF Types
        <5> QED  BY <3>1, <5>3, <5>4
      <4>2. CASE ~job.batch
        <5>1. N = job.rows
          BY <4>2 DEF N, Items
        <5>2. /\ \A i, j \in DOMAIN results : results[i].row = results[j].row => i = j
              /\ \A q \in 1..Taken : \/ \E w \in 1..Workers : worker[w].item = q
                                     \/ \E i \in DOMAIN results : results[i].row = q
          BY <2>2, <2>8, <4>2 DEF Going, RowsOnce
        <5>3. r \in 1..Taken /\ r # 0
          BY <2>7, <3>1, <5>1
        <5>4. PICK k \in DOMAIN results : results[k].row = r
          BY <2>4, <5>2, <5>3
        <5> QED  BY <5>2, <5>4
      <4> QED  BY <4>1, <4>2
    <3>3. PICK k \in DOMAIN results : /\ results[k].row = r
                                      /\ \A i \in DOMAIN results : results[i].row = r => i = k
      BY <3>2
    <3>4. {i \in DOMAIN results : results[i].row = r} = {k}
      BY <3>3
    <3> QED  BY <3>4, FS_Singleton
  <2> QED  BY <2>6, <2>8
<1> QED  BY <1>3, <1>4 DEF OutputComplete

\* No row is asked for more often than the payload allows, an error row was
\* given up only after all attempts, and one worker without retries keeps the
\* interval of the limiter, for every payload (fetchSingleRow, rateLimiter).
THEOREM RequestsStayWithinLimits == Spec => []RequestsWithinLimits
<1>1. HInv => RequestsWithinLimits
  BY LimitsFollow
<1> QED  BY <1>1, HttpInvariance, PTL

\* A node that returns has one output row for each input row in object mode, with
\* nothing under way, and in the order of the input where one loop made them, for
\* every payload (executeWithConcurrency and the batch loop of execute).
THEOREM OutputIsComplete == Spec => []OutputComplete
<1>1. HInv => OutputComplete
  BY OutputFollows
<1> QED  BY <1>1, HttpInvariance, PTL
=============================================================================
