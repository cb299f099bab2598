------------------------------ MODULE HttpNode ------------------------------
(***************************************************************************)
(* One execution of an HTTP node (nodes/definitions/http-node.ts).  Per    *)
(* row: a pool of workers takes rows from a shared queue, with one rate    *)
(* limiter between them, and each request is retried with a growing        *)
(* back-off.  In batch mode one loop sends the rows chunk by chunk.        *)
(*                                                                         *)
(* The code between two awaits runs without interruption, so a step is     *)
(* such a stretch: storing one answer and starting the next request is one *)
(* step.  A request has no timeout.  Time passes in units; a timer fires   *)
(* at its time or later.                                                   *)
(***************************************************************************)
EXTENDS Integers, Sequences, FiniteSets, SequencesExt

CONSTANTS
    Jobs,       \* the payloads and inputs to execute
    MaxWorkers, \* bound: the largest concurrency of a job
    MaxItems    \* bound: items per row of an answer in array mode

ASSUME JobsAssumption ==
    /\ MaxWorkers \in Nat \ {0} /\ MaxItems \in Nat
    /\ \A j \in Jobs :
                    /\ j.rows \in Nat /\ j.chunk \in Nat /\ j.concurrency \in 0..MaxWorkers
                    /\ j.interval \in Nat /\ j.retries \in Nat /\ j.backoff \in Nat
                    /\ j.batch \in BOOLEAN /\ j.array \in BOOLEAN /\ j.bad \subseteq 1..j.rows

VARIABLES
    job,        \* the job
    launched,   \* workers started so far
    queue,      \* rows (chunks, in batch mode) not yet taken
    worker,     \* the workers: the state of their loops
    age,        \* time since lastCallTime, up to the interval
    since,      \* time since the last request was sent, up to the interval
    sent,       \* requests sent for each row or chunk
    close,      \* some request was sent less than an interval after another
    results,    \* the output rows
    outcome     \* "running", "returned" or "threw"

vars == <<job, launched, queue, worker, age, since, sent, close, results, outcome>>

Rows == 1..job.rows
Worker == DOMAIN worker
Idle == [pc |-> "new", item |-> 0, attempt |-> 0, wait |-> 0]
Busy(w) == worker[w].pc \in {"sleep", "fetch", "backoff"}

\* chunk(): the rows of the k-th chunk; without a size there is one chunk.
ChunkRows(k) ==
    IF job.chunk = 0 THEN [i \in Rows |-> i]
    ELSE SubSeq([i \in Rows |-> i], (k - 1) * job.chunk + 1,
                IF k * job.chunk < job.rows THEN k * job.chunk ELSE job.rows)

Chunks(j) == IF j.chunk = 0 THEN 1 ELSE (j.rows + j.chunk - 1) \div j.chunk

Items(j) == IF j.batch THEN Chunks(j) ELSE j.rows

\* execute(): no rows, no work.  The workers are created and run, one after the
\* other, up to their first await.
Init ==
    /\ job \in Jobs
    /\ launched = 0
    /\ queue = IF job.rows = 0 THEN <<>> ELSE [i \in 1..Items(job) |-> i]
    /\ worker = [w \in 1..(IF job.batch THEN 1 ELSE job.concurrency) |-> Idle]
    /\ age = job.interval
    /\ since = job.interval
    /\ sent = [i \in 1..Items(job) |-> 0]
    /\ close = FALSE
    /\ results = <<>>
    /\ outcome = IF job.rows = 0 THEN "returned" ELSE "running"

\* The URL is built from the row, or from the first row of the chunk; one that
\* does not resolve throws before anything is sent.
Unresolved(item) ==
    IF job.batch THEN ChunkRows(item)[1] \in job.bad ELSE item \in job.bad

\* A worker (or the batch loop) sends its request, or throws; a throw rejects
\* the node at once, and the other workers go on.
Request(w, item, attempt) ==
    IF Unresolved(item)
    THEN /\ worker' = [worker EXCEPT ![w] = [Idle EXCEPT !.pc = "threw", !.item = item]]
         /\ outcome' = IF outcome = "running" THEN "threw" ELSE outcome
         /\ UNCHANGED <<since, sent, close>>
    ELSE /\ worker' = [worker EXCEPT ![w] =
                            [pc |-> "fetch", item |-> item, attempt |-> attempt, wait |-> 0]]
         /\ sent' = [sent EXCEPT ![item] = @ + 1]
         /\ since' = 0
         /\ close' = (close \/ since < job.interval)
         /\ UNCHANGED outcome

\* One turn of the loop of a worker, from taking an item to the next await; out
\* is the output so far.  The batch loop is limited only once it has output.
Take(w, out) ==
    LET item == Head(queue)
        limited == job.interval > 0 /\ (job.batch => out # <<>>)
    IN  IF queue = <<>>
        THEN /\ worker' = [worker EXCEPT ![w] = [Idle EXCEPT !.pc = "done"]]
             /\ UNCHANGED <<queue, age, since, sent, close, outcome>>
        ELSE /\ queue' = Tail(queue)
             /\ IF limited /\ age < job.interval
                THEN /\ worker' = [worker EXCEPT ![w] = [pc |-> "sleep", item |-> item, attempt |-> 0,
                                                         wait |-> job.interval - age]]
                     /\ UNCHANGED <<age, since, sent, close, outcome>>
                ELSE /\ age' = IF limited THEN 0 ELSE age
                     /\ Request(w, item, 0)

Launching == launched < Cardinality(Worker)

Launch ==
    /\ outcome = "running" \/ launched > 0
    /\ Launching
    /\ launched' = launched + 1
    /\ Take(launched + 1, results)
    /\ UNCHANGED <<job, results>>

\* The limiter's pause is over.
Wake(w) ==
    /\ ~Launching
    /\ worker[w].pc = "sleep" /\ worker[w].wait = 0
    /\ age' = 0
    /\ Request(w, worker[w].item, 0)
    /\ UNCHANGED <<job, launched, queue, results>>

\* The back-off is over: the next attempt, past the limiter.
Resume(w) ==
    /\ ~Launching
    /\ worker[w].pc = "backoff" /\ worker[w].wait = 0
    /\ Request(w, worker[w].item, worker[w].attempt + 1)
    /\ UNCHANGED <<job, launched, queue, age, results>>

Row(r, ok, null) == [row |-> r, ok |-> ok, null |-> null]

\* The rows of one answer to one row (processResponse): one in object mode, one
\* per item in array mode.
Output(r, n, null) == [i \in 1..(IF job.array THEN n ELSE 1) |-> Row(r, TRUE, null)]

\* The worker stores its rows and goes on with the queue.
Store(w, rows) ==
    /\ results' = results \o rows
    /\ Take(w, results')
    /\ UNCHANGED <<job, launched>>

\* fetchSingleRow, an answer.  A null body counts as no answer when an earlier
\* attempt failed.
Answered(w, n, null) ==
    /\ ~Launching /\ ~job.batch
    /\ worker[w].pc = "fetch"
    /\ LET r == worker[w].item
       IN  Store(w, IF null /\ worker[w].attempt > 0 THEN <<Row(r, FALSE, TRUE)>>
                    ELSE Output(r, n, null))

\* Mutant: one attempt too few.
FailedEarly(w) ==
    /\ ~Launching /\ ~job.batch
    /\ worker[w].pc = "fetch"
    /\ IF worker[w].attempt + 1 < job.retries
       THEN /\ worker' = [worker EXCEPT ![w].pc = "backoff",
                                        ![w].wait = job.backoff * 2 ^ worker[w].attempt]
            /\ UNCHANGED <<job, launched, queue, age, since, sent, close, results, outcome>>
       ELSE Store(w, <<Row(worker[w].item, FALSE, FALSE)>>)

\* fetchSingleRow, a failed attempt: wait and try again, or give up with an
\* error row.
Failed(w) ==
    /\ ~Launching /\ ~job.batch
    /\ worker[w].pc = "fetch"
    /\ IF worker[w].attempt < job.retries
       THEN /\ worker' = [worker EXCEPT ![w].pc = "backoff",
                                        ![w].wait = job.backoff * 2 ^ worker[w].attempt]
            /\ UNCHANGED <<job, launched, queue, age, since, sent, close, results, outcome>>
       ELSE Store(w, <<Row(worker[w].item, FALSE, FALSE)>>)

\* Which row each output row of a chunk comes from: in object mode every row has
\* one, in array mode as many as its element has items, in the order of the rows.
Expansions(rows) ==
    IF ~job.array THEN {rows}
    ELSE {from \in UNION {[1..n -> ToSet(rows)] : n \in 0..(Len(rows) * MaxItems)} :
            \A i, j \in DOMAIN from : i < j => from[i] <= from[j]}

\* Batch mode, an answer: a row of the chunk without an element of its own is
\* a success with empty fields.  Rows are matched by position.
BatchAnswered(w) ==
    /\ ~Launching /\ job.batch
    /\ worker[w].pc = "fetch"
    /\ \E from \in Expansions(ChunkRows(worker[w].item)) :
            Store(w, [i \in DOMAIN from |-> Row(from[i], TRUE, FALSE)])

\* Batch mode, a failure: no retry, the node throws.
BatchFailed(w) ==
    /\ ~Launching /\ job.batch
    /\ worker[w].pc = "fetch"
    /\ worker' = [worker EXCEPT ![w] = [Idle EXCEPT !.pc = "threw", !.item = worker[w].item]]
    /\ outcome' = IF outcome = "running" THEN "threw" ELSE outcome
    /\ UNCHANGED <<job, launched, queue, age, since, sent, close, results>>

\* Mutant: the node returns with the first worker that ends.
ReturnFirst ==
    /\ outcome = "running" /\ ~Launching
    /\ \E w \in Worker : worker[w].pc = "done"
    /\ outcome' = "returned"
    /\ UNCHANGED <<job, launched, queue, worker, age, since, sent, close, results>>

\* Mutant: the node waits for as many output rows as there were input rows.
ReturnCounted ==
    /\ outcome = "running" /\ ~Launching
    /\ Len(results) = job.rows
    /\ \A w \in Worker : worker[w].pc = "done"
    /\ outcome' = IF ~job.batch /\ \A i \in DOMAIN results : ~results[i].ok
                  THEN "threw" ELSE "returned"
    /\ UNCHANGED <<job, launched, queue, worker, age, since, sent, close, results>>

\* Promise.all: every worker ended.  Without a successful row the node throws,
\* and it does so as well when there is no row at all.
Return ==
    /\ outcome = "running" /\ ~Launching
    /\ \A w \in Worker : worker[w].pc = "done"
    /\ outcome' = IF ~job.batch /\ \A i \in DOMAIN results : ~results[i].ok
                  THEN "threw" ELSE "returned"
    /\ UNCHANGED <<job, launched, queue, worker, age, since, sent, close, results>>

Older(t) == IF t < job.interval THEN t + 1 ELSE t

Tick ==
    /\ ~Launching
    /\ \E w \in Worker : Busy(w)
    /\ \/ age < job.interval \/ since < job.interval
       \/ \E w \in Worker : worker[w].wait > 0
    /\ age' = Older(age)
    /\ since' = Older(since)
    /\ worker' = [w \in Worker |->
            [worker[w] EXCEPT !.wait = IF @ > 0 THEN @ - 1 ELSE 0]]
    /\ UNCHANGED <<job, launched, queue, sent, close, results, outcome>>

Answers(w) ==
    \/ \E n \in 0..MaxItems : Answered(w, n, FALSE)
    \/ Answered(w, 1, TRUE)
    \/ Failed(w)
    \/ BatchAnswered(w)
    \/ BatchFailed(w)

Next ==
    \/ Launch \/ Return \/ Tick
    \/ \E w \in Worker : Wake(w) \/ Resume(w) \/ Answers(w)

\* The event loop runs what is ready, timers fire, and the server answers each
\* request (a request that is never answered holds the node for ever).
Fairness ==
    /\ WF_vars(Launch \/ Return)
    /\ WF_vars(Tick)
    /\ \A w \in 1..MaxWorkers : /\ WF_vars(w \in Worker /\ (Wake(w) \/ Resume(w)))
                                /\ WF_vars(w \in Worker /\ Answers(w))

Spec == Init /\ [][Next]_vars /\ Fairness

-----------------------------------------------------------------------------
TypeOK ==
    /\ job \in Jobs
    /\ launched \in 0..Cardinality(Worker)
    /\ \A i \in DOMAIN queue : queue[i] \in 1..Items(job)
    /\ \A w \in Worker : /\ worker[w].pc \in {"new", "sleep", "fetch", "backoff", "done", "threw"}
                         /\ worker[w].attempt \in 0..job.retries
                         /\ worker[w].wait \in 0..(job.interval + job.backoff * 2 ^ job.retries)
    /\ age \in 0..job.interval /\ since \in 0..job.interval
    /\ \A i \in DOMAIN sent : sent[i] \in Nat
    /\ \A i \in DOMAIN results : results[i].row \in Rows
    /\ outcome \in {"running", "returned", "threw"}

\* A node that returns has left nothing behind: no request under way, no item
\* in the queue and, where an answer is one row, exactly one output row for
\* each input row (executeWithConcurrency with Promise.all, and the batch loop).
ReturnsComplete ==
    outcome = "returned" /\ job.rows > 0 =>
        /\ queue = <<>>
        /\ \A w \in Worker : ~Busy(w)
        /\ ~job.array => \A r \in Rows :
               Cardinality({i \in DOMAIN results : results[i].row = r}) = 1

\* An error row was not given up early and no row is asked for too often: it
\* used all its attempts, unless the answer to a retry was null (the test
\* `lastError && !response` of fetchSingleRow).
AttemptsExact ==
    /\ \A i \in DOMAIN sent : sent[i] <= (IF job.batch THEN 1 ELSE job.retries + 1)
    /\ \A i \in DOMAIN results :
           ~results[i].ok => results[i].null \/ sent[results[i].row] = job.retries + 1

\* One worker, or the batch loop, keeps the order of the input in its output,
\* which the positional matching of batch answers relies on.
OrderKept ==
    job.batch \/ job.concurrency = 1 =>
        \A i, j \in DOMAIN results : i < j => results[i].row <= results[j].row

\* The limiter keeps its interval when there is one worker and no retry: the
\* pause itself counts as a call (lastCallTime is set again after it).
SoleWorkerPaced ==
    ~job.batch /\ job.concurrency = 1 /\ job.retries = 0 => ~close

\* The node ends, and so does every worker, also the ones that go on after
\* another has thrown, if the server answers every request.
Settles == <>[](outcome # "running" /\ \A w \in Worker : ~Busy(w))

\* The output of execute() has the rows it must have, in the order of the input
\* where one worker or the batch loop made it.
OutputComplete == ReturnsComplete /\ OrderKept

\* Requests keep to the payload's limits: the attempts of a row, and the
\* interval where nothing but the limiter spaces the calls.
RequestsWithinLimits == AttemptsExact /\ SoleWorkerPaced
=============================================================================
