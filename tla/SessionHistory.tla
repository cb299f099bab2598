--------------------------- MODULE SessionHistory ---------------------------
(***************************************************************************)
(* SessionManager (session/session-manager.ts): the turns of one chat      *)
(* session and their summarisation.                                        *)
(*                                                                         *)
(* addTurn does not wait for summarizeHistory, so turns are added, and     *)
(* further summarisations started, while the LLM is writing a summary.  A  *)
(* turn is abstracted to the set of user turns it tells about: {i} for the *)
(* i-th addTurn, the union of what it replaces for a summary.              *)
(***************************************************************************)
EXTENDS Integers, Sequences

CONSTANTS
    MaxTurns,         \* the turns a session holds before it is summarised (30)
    SummarizedTurns,  \* how many turns a summary replaces (15)
    TurnBound         \* bound: calls of addTurn

ASSUME SessionAssumption ==
    /\ MaxTurns \in Nat /\ SummarizedTurns \in Nat /\ TurnBound \in Nat
    /\ 0 < SummarizedTurns /\ SummarizedTurns <= MaxTurns

VARIABLES
    turns,    \* session.turns
    added,    \* how many turns addTurn was called with
    calls,    \* the summarizeHistory calls awaiting the LLM: the snapshots
    overlap,  \* history: a turn was added while a call was in progress
    failed    \* history: a summary failed or came back without text

vars == <<turns, added, calls, overlap, failed>>

Covered(s) == UNION {s[i] : i \in DOMAIN s}

-----------------------------------------------------------------------------
Init ==
    /\ turns = <<>>
    /\ added = 0
    /\ calls = {}
    /\ overlap = FALSE
    /\ failed = FALSE

\* Mutants: the boundary turn in both halves; in neither.
SnapshotTwice(s) ==
    [sum  |-> Covered(SubSeq(s, 1, SummarizedTurns)),
     keep |-> SubSeq(s, SummarizedTurns, Len(s))]

SnapshotGap(s) ==
    [sum  |-> Covered(SubSeq(s, 1, SummarizedTurns)),
     keep |-> SubSeq(s, SummarizedTurns + 2, Len(s))]

\* The synchronous part of summarizeHistory, up to its await: what it will
\* summarise and what it will keep.
Snapshot(s) ==
    [sum  |-> Covered(SubSeq(s, 1, SummarizedTurns)),
     keep |-> SubSeq(s, SummarizedTurns + 1, Len(s))]

addTurn ==
    /\ added < TurnBound
    /\ added' = added + 1
    /\ turns' = Append(turns, {added + 1})
    /\ calls' = IF Len(turns') > MaxTurns THEN calls \cup {Snapshot(turns')} ELSE calls
    /\ overlap' = (overlap \/ calls # {})
    /\ UNCHANGED failed

\* The LLM answers with a text.
SummaryResolves(c) ==
    /\ turns' = <<c.sum>> \o c.keep
    /\ calls' = calls \ {c}
    /\ UNCHANGED <<added, overlap, failed>>

\* The LLM answers without a text: a summary that says nothing.
SummaryUnavailable(c) ==
    /\ turns' = <<{}>> \o c.keep
    /\ calls' = calls \ {c}
    /\ failed' = TRUE
    /\ UNCHANGED <<added, overlap>>

\* The call fails: the oldest turns are dropped.
SummaryRejected(c) ==
    /\ turns' = c.keep
    /\ calls' = calls \ {c}
    /\ failed' = TRUE
    /\ UNCHANGED <<added, overlap>>

Next ==
    \/ addTurn
    \/ \E c \in calls : SummaryResolves(c) \/ SummaryUnavailable(c) \/ SummaryRejected(c)

Spec == Init /\ [][Next]_vars

-----------------------------------------------------------------------------
(* Properties.                                                             *)

Turn == SUBSET Nat
Call == [sum : Turn, keep : Seq(Turn)]

\* The history is a sequence of turns, every call holds a snapshot.
TypeOK ==
    /\ turns \in Seq(Turn)
    /\ added \in Nat
    /\ calls \subseteq Call
    /\ overlap \in BOOLEAN /\ failed \in BOOLEAN

Before(A, B) == \A x \in A, y \in B : x < y
InOrder(s) == \A i, j \in DOMAIN s : i < j => Before(s[i], s[j])

\* getHistory shows every user turn at most once and in the order they were
\* made, whatever the order in which overlapping summaries arrive.
Chronological == InOrder(turns)

\* If no turn was added during a summarisation and none failed, the history
\* tells about every turn of the session.
CompleteUnlessOverlap ==
    ~overlap /\ ~failed => Covered(turns) = 1..added
=============================================================================
