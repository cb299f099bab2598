---------------------------- MODULE PipelineRun ----------------------------
(***************************************************************************)
(* What a run promises of the steps it watches over, whatever the graph:   *)
(* each is begun at most once, ends at most once, is not touched again and *)
(* not touched at all after the run resolved; a run has one outcome, and   *)
(* it resolves only when every step has completed or was skipped.  A run   *)
(* that rejects leaves steps in progress, which still come to their end.   *)
(***************************************************************************)
CONSTANT Step

VARIABLES
    step,      \* the status of every step; "outside" for those not watched
    outcome    \* idle | invalid | running | resolved | rejected

vars == <<step, outcome>>

Status == {"outside", "pending", "running", "completed", "failed", "skipped"}

Init ==
    /\ step = [n \in Step |-> "outside"]
    /\ outcome = "idle"

\* run() refuses an invalid graph, or initialises the nodes.
Refuse == outcome = "idle" /\ outcome' = "invalid" /\ UNCHANGED step

Start ==
    /\ outcome = "idle"
    /\ outcome' = "running"
    /\ step' \in [Step -> {"outside", "pending"}]

Open == outcome \in {"running", "rejected"}

\* executeNode: a step is executed only while it is pending.
Begin(n) ==
    /\ Open
    /\ step[n] = "pending"
    /\ step' = [step EXCEPT ![n] = "running"]
    /\ UNCHANGED outcome

\* Its result, or what its error policy makes of its error.
Finish(n) ==
    /\ Open
    /\ step[n] = "running"
    /\ \E s \in {"completed", "failed", "skipped"} : step' = [step EXCEPT ![n] = s]
    /\ UNCHANGED outcome

\* Pending steps are skipped, those of an untaken branch together.
Skip ==
    /\ Open
    /\ step' \in [Step -> Status]
    /\ \A n \in Step : step'[n] # step[n] => step[n] = "pending" /\ step'[n] = "skipped"
    /\ UNCHANGED outcome

Resolve ==
    /\ outcome = "running"
    /\ \A n \in Step : step[n] \in {"outside", "completed", "skipped"}
    /\ outcome' = "resolved"
    /\ UNCHANGED step

Reject == outcome = "running" /\ outcome' = "rejected" /\ UNCHANGED step

Next ==
    \/ Refuse \/ Start \/ Skip \/ Resolve \/ Reject
    \/ \E n \in Step : Begin(n) \/ Finish(n)

Spec == Init /\ [][Next]_vars
=============================================================================
