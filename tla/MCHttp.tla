------------------------------- MODULE MCHttp -------------------------------
(* Jobs for the HTTP node: up to three workers, with and without the rate  *)
(* limiter, retries, chunks and a row whose URL does not resolve.          *)
EXTENDS HttpNode

Base == [rows |-> 3, batch |-> FALSE, chunk |-> 0, concurrency |-> 1, interval |-> 0,
         retries |-> 0, backoff |-> 1, array |-> FALSE, bad |-> {}]

PerRow == {[Base EXCEPT !.concurrency = c, !.interval = i, !.retries = r, !.bad = b] :
                c \in 0..3, i \in {0, 2}, r \in 0..1, b \in {{}, {2}}}

Batches == {[Base EXCEPT !.batch = TRUE, !.chunk = c, !.interval = i, !.array = a, !.bad = b] :
                c \in 0..3, i \in {0, 2}, a \in BOOLEAN, b \in {{}, {2}}}

MCJobs == PerRow \cup Batches
          \cup {[Base EXCEPT !.rows = 0],
                [Base EXCEPT !.array = TRUE, !.concurrency = 2],
                [Base EXCEPT !.rows = 2, !.retries = 2, !.interval = 1, !.concurrency = 2]}
=============================================================================
