---------------------------- MODULE AccessProofs ----------------------------
(***************************************************************************)
(* What AccessControl promises of requests, grants and plans holds for any *)
(* number of users, processes, tables, requests, plans and crashes.        *)
(*                                                                         *)
(* The invariant has two halves.  One follows a request: who works on it,  *)
(* at which of the three statements, and what is still owed to it.  The    *)
(* other follows a plan: never is at every moment part of what the user is *)
(* refused now, so whatever a gate reads now is outside of it.             *)
(***************************************************************************)
EXTENDS AccessControl, TLAPS, NaturalsInduction, WellFoundedInduction

-----------------------------------------------------------------------------
(* The inductive invariant.                                                *)

\* Pcs at which a process works on a request; those of a review; those between
\* the first read of the grants and the validation.
Requesting == {"requested", "approve", "deny", "grant", "approved", "denied"}
Reviewing == Requesting \ {"requested"}
Reading == {"columns", "select", "intent", "validate"}
Planned == {"offered", "incomplete", "running"}

Fields == {"user", "pc", "req", "target", "granted", "unread", "selected", "intent", "owned",
           "never", "plans"}
Request == [user : User, target : Target, status : Statuses]

Shaped(P) ==
    /\ DOMAIN P = Fields
    /\ DOMAIN P.granted = {"tables", "columns"}
    /\ P.user \in User \cup {Nobody}
    /\ P.user = Nobody <=> P.pc \in {"down", "revoking"}

Types ==
    /\ tableGrants \in [User \X Table -> Grant]
    /\ columnGrants \in [User \X Column -> Grant]
    /\ requests \in Seq(Request)
    /\ halfDone \subseteq DOMAIN requests
    /\ revoked \subseteq User \X Table
    /\ DOMAIN proc = Process
    /\ \A p \in Process : Shaped(proc[p])

\* What a process that works on a request knows of it.
WorkOK(P) ==
    /\ P.pc \in Requesting => P.req \in DOMAIN requests
    /\ P.pc \notin Requesting => P.req = 0
    /\ P.pc \in Reviewing => P.target = requests[P.req].target
    /\ P.pc \in {"grant", "approved"} =>
        \/ requests[P.req].status = "approved"
        \/ P.req \in halfDone
    /\ P.pc = "revoking" => P.target \in revoked

WorkKnown == \A p \in Process : WorkOK(proc[p])

WorkingAt(r, pcs) == \E p \in Process : proc[p].req = r /\ proc[p].pc \in pcs

InForce(q) ==
    (IF q.target[2] = "" THEN tableGrants[q.user, q.target[1]] ELSE columnGrants[q.user, q.target])
        = FullGrant

\* The grant of an approved request is there, or somebody is about to write it.
GrantOwed ==
    \A r \in DOMAIN requests :
        requests[r].status = "approved" /\ r \notin halfDone
            /\ <<requests[r].user, requests[r].target[1]>> \notin revoked
        => InForce(requests[r]) \/ WorkingAt(r, {"grant"})

Logged(action, r) == \E e \in audit : e.action = action /\ e.id = r

\* So is the row of the audit log for every statement that was executed.
LogOwed ==
    \A r \in DOMAIN requests : r \notin halfDone =>
        /\ Logged("requested", r) \/ WorkingAt(r, {"requested"})
        /\ requests[r].status = "approved" => Logged("approved", r) \/ WorkingAt(r, {"grant", "approved"})
        /\ requests[r].status = "denied" => Logged("denied", r) \/ WorkingAt(r, {"denied"})

\* never is refused still.
NeverOK(P) ==
    /\ P.user = Nobody => P.never = {}
    /\ P.user \in User => P.never \subseteq Refused(P.user)

NeverNow == \A p \in Process : NeverOK(proc[p])

\* What has been read of the grants, and what is still to be read.
ReadOK(P) ==
    /\ P.pc \notin Reading => P.granted.columns = {}
    /\ P.pc \in Reading => \A t \in P.granted.tables : <<"table", <<t, "">> >> \notin P.never
    /\ P.pc = "columns" =>
        /\ P.unread # {} /\ P.unread \subseteq Table
        /\ \A t \in P.unread : t \in ReadableTables(P.user) \/ <<P.user, t>> \in revoked

GrantsRead == \A p \in Process : ReadOK(proc[p])

AInv ==
    /\ Types
    /\ WorkKnown /\ GrantOwed /\ LogOwed /\ GrantsJustified
    /\ NeverNow /\ GrantsRead /\ PlannedWithinGrants /\ SnapshotSeen


-----------------------------------------------------------------------------
(* How a step changes the processes.                                       *)

\* P is Q, which may have been given something it was refused.
Follows(P, Q) ==
    /\ P.user = Q.user /\ P.pc = Q.pc /\ P.req = Q.req /\ P.target = Q.target
    /\ P.granted = Q.granted /\ P.unread = Q.unread /\ P.intent = Q.intent
    /\ P.never \subseteq Q.never

\* Process p becomes new; the others stay what they are.
Steps(p, new) ==
    /\ DOMAIN proc' = Process
    /\ \A q \in Process : Shaped(proc'[q])
    /\ Follows(proc'[p], new)
    /\ \A q \in Process \ {p} : Follows(proc'[q], proc[q])

\* A step that leaves the grants alone changes one process.
LEMMA BecomeSteps ==
    ASSUME Types, NEW p \in Process, NEW new, Shaped(new), Become(p, new)
    PROVE  /\ Steps(p, new)
           /\ proc'[p] = new
           /\ \A q \in Process \ {p} : proc'[q] = proc[q]
<1>1. DOMAIN proc' = Process /\ proc'[p] = new /\ \A q \in Process \ {p} : proc'[q] = proc[q]
  BY DEF Become, Types
<1>2. \A q \in Process : Shaped(proc'[q])
  BY <1>1 DEF Types
<1> QED  BY <1>1, <1>2 DEF Steps, Follows

\* The process that Watch leaves behind: never is cut down to what is refused.
LEMMA WatchOne ==
    ASSUME NEW P, Shaped(P), NEW R
    PROVE  /\ Shaped([P EXCEPT !.never = @ \cap R])
           /\ Follows([P EXCEPT !.never = @ \cap R], P)
           /\ [P EXCEPT !.never = @ \cap R].never \subseteq R
<1> DEFINE N == [P EXCEPT !.never = @ \cap R]
<1>1. /\ DOMAIN N = Fields
      /\ N.user = P.user /\ N.pc = P.pc /\ N.req = P.req /\ N.target = P.target
      /\ N.granted = P.granted /\ N.unread = P.unread /\ N.intent = P.intent
      /\ N.never = P.never \cap R
  BY DEF Shaped, Fields
<1> HIDE DEF N
<1>2. Shaped(N) /\ Follows(N, P) /\ N.never \subseteq R
  BY <1>1 DEF Shaped, Follows
<1> QED  BY <1>2 DEF N

\* A step that changes grants may give something to every process.
LEMMA WatchSteps ==
    ASSUME Types, NEW p \in Process, NEW new, Shaped(new), Watch(p, new)
    PROVE  /\ Steps(p, new)
           /\ \A q \in Process, u \in User : proc'[q].user = u => proc'[q].never \subseteq Refused(u)'
<1> DEFINE nx(q) == IF q = p THEN new ELSE proc[q]
           R == [u \in User |-> Refused(u)']
<1>1. DOMAIN proc' = Process
  BY DEF Watch
<1>2. ASSUME NEW q \in Process
      PROVE  /\ Shaped(proc'[q]) /\ Follows(proc'[q], nx(q))
             /\ \A u \in User : proc'[q].user = u => proc'[q].never \subseteq Refused(u)'
  <2>1. proc'[q] = IF nx(q).user = Nobody THEN nx(q) ELSE [nx(q) EXCEPT !.never = @ \cap R[nx(q).user]]
    BY DEF Watch
  <2>2. Shaped(nx(q))
    BY DEF Types
  <2>3. CASE nx(q).user = Nobody
    BY <2>1, <2>2, <2>3, AccessAssumption DEF Follows, Nobody
  <2>4. CASE nx(q).user # Nobody
    <3>1. PICK u \in User : nx(q).user = u
      BY <2>2, <2>4 DEF Shaped
    <3>2. R[u] = Refused(u)'
      OBVIOUS
    <3> HIDE DEF nx, R
    <3>3. Shaped(proc'[q]) /\ Follows(proc'[q], nx(q)) /\ proc'[q].never \subseteq R[u]
      BY <2>1, <2>2, <2>4, <3>1, WatchOne
    <3>4. proc'[q].user = u
      BY <3>1, <3>3 DEF Follows
    <3> QED  BY <3>2, <3>3, <3>4
  <2> QED  BY <2>3, <2>4
<1> QED  BY <1>1, <1>2 DEF Steps


-----------------------------------------------------------------------------
(* The half of the invariant that is about requests.                       *)

\* Requests are never lost or changed, but for their status; a status is left
\* behind only by a second reviewer, which the history records.
Onward ==
    /\ requests' \in Seq(Request)
    /\ halfDone' \subseteq DOMAIN requests'
    /\ DOMAIN requests \subseteq DOMAIN requests'
    /\ halfDone \subseteq halfDone'
    /\ revoked \subseteq revoked'
    /\ \A r \in DOMAIN requests :
        /\ requests'[r].user = requests[r].user
        /\ requests'[r].target = requests[r].target
        /\ requests[r].status = "approved" => requests'[r].status = "approved" \/ r \in halfDone'

\* Most steps leave the requests alone.
LEMMA SameOnward ==
    ASSUME Types, UNCHANGED <<requests, halfDone>>, revoked \subseteq revoked'
    PROVE  Onward
BY DEF Types, Onward

\* What the other processes know of their requests stays true.
LEMMA WorkKept ==
    ASSUME WorkKnown, NEW p \in Process, NEW new, Steps(p, new), Onward, WorkOK(proc[p])'
    PROVE  WorkKnown'
<1> SUFFICES ASSUME NEW q \in Process PROVE WorkOK(proc[q])'
  BY DEF WorkKnown
<1>1. CASE q = p
  BY <1>1
<1>2. CASE q # p
  <2>1. /\ proc'[q].pc = proc[q].pc /\ proc'[q].req = proc[q].req
        /\ proc'[q].target = proc[q].target
    BY <1>2 DEF Steps, Follows
  <2>2. WorkOK(proc[q])
    BY DEF WorkKnown
  <2>3. Reviewing \subseteq Requesting /\ {"grant", "approved"} \subseteq Requesting
    BY DEF Reviewing, Requesting
  <2>4. proc[q].pc \in Requesting => proc[q].req \in DOMAIN requests /\ proc[q].req \in DOMAIN requests'
    BY <2>2 DEF WorkOK, Onward
  <2> QED  BY <2>1, <2>2, <2>3, <2>4 DEF WorkOK, Onward
<1> QED  BY <1>1, <1>2

\* A process that is idle or down knows nothing, so there is nothing to keep.
LEMMA WorkNone ==
    ASSUME NEW p \in Process, proc'[p].req = 0, proc'[p].pc \notin Requesting, proc'[p].pc # "revoking"
    PROVE  WorkOK(proc[p])'
<1>1. Reviewing \subseteq Requesting /\ {"grant", "approved"} \subseteq Requesting
  BY DEF Reviewing, Requesting
<1> QED  BY <1>1 DEF WorkOK

\* No grant that is in force is lost but by a revocation.
ForceKept ==
    \A q \in Request : InForce(q) => InForce(q)' \/ <<q.user, q.target[1]>> \in revoked'

\* The process, if it was at work on a request, still is, or the history says so.
WorkStays(p) ==
    \/ proc[p].req = 0
    \/ proc[p].req \in halfDone'
    \/ proc'[p].req = proc[p].req /\ proc'[p].pc = proc[p].pc

\* Somebody at work on a request still is.
LEMMA WorkingKept ==
    ASSUME NEW p \in Process, NEW new, Steps(p, new), WorkStays(p), NEW pcs, NEW r, r # 0,
           r \notin halfDone', WorkingAt(r, pcs)
    PROVE  WorkingAt(r, pcs)'
<1>1. PICK q \in Process : proc[q].req = r /\ proc[q].pc \in pcs
  BY DEF WorkingAt
<1>2. proc'[q].req = r /\ proc'[q].pc \in pcs
  <2>1. CASE q = p
    BY <1>1, <2>1 DEF WorkStays
  <2>2. CASE q # p
    BY <1>1, <2>2 DEF Steps, Follows
  <2> QED  BY <2>1, <2>2
<1> QED  BY <1>2 DEF WorkingAt

\* What is owed to a request stays owed, or is there.
LEMMA OwedKept ==
    ASSUME Types, GrantOwed, LogOwed,
           NEW p \in Process, NEW new, Steps(p, new), WorkStays(p), Onward, ForceKept,
           UNCHANGED requests, audit \subseteq audit'
    PROVE  GrantOwed' /\ LogOwed'
<1>1. \A r \in DOMAIN requests : r # 0 /\ requests[r] \in Request
  BY DEF Types
<1>2. DOMAIN requests' = DOMAIN requests /\ \A r : requests'[r] = requests[r]
  OBVIOUS
<1>3. \A r, pcs : r # 0 /\ r \notin halfDone' /\ WorkingAt(r, pcs) => WorkingAt(r, pcs)'
  BY WorkingKept
<1>4. ASSUME NEW r \in DOMAIN requests, requests[r].status = "approved", r \notin halfDone',
             <<requests[r].user, requests[r].target[1]>> \notin revoked'
      PROVE  InForce(requests[r])' \/ WorkingAt(r, {"grant"})'
  <2>1. InForce(requests[r]) \/ WorkingAt(r, {"grant"})
    BY <1>4 DEF GrantOwed, Onward
  <2>2. InForce(requests[r]) => InForce(requests[r])'
    <3>1. PICK q \in Request : q = requests[r] /\ q = requests'[r]
      BY <1>1, <1>2
    <3>2. InForce(q) => InForce(q)'
      BY <1>4, <3>1 DEF ForceKept
    <3> QED  BY <3>1, <3>2 DEF InForce
  <2> QED  BY <1>1, <1>3, <1>4, <2>1, <2>2
<1>5. GrantOwed'
  BY <1>2, <1>4 DEF GrantOwed
<1>6. \A a, r : Logged(a, r) => Logged(a, r)'
  BY DEF Logged
<1>7. LogOwed'
  BY <1>1, <1>2, <1>3, <1>6 DEF LogOwed, Onward
<1> QED  BY <1>5, <1>7

\* A row of a grant appears for an administrator, or for a decided request.
RowsKept ==
    /\ DOMAIN tableGrants' = DOMAIN tableGrants /\ DOMAIN columnGrants' = DOMAIN columnGrants
    /\ \A x \in DOMAIN tableGrants : tableGrants'[x].row => tableGrants[x].row \/ x[1] \in Admins
    /\ \A x \in DOMAIN columnGrants : columnGrants'[x].row => columnGrants[x].row

Decided(u, target) ==
    \E r \in DOMAIN requests : /\ requests[r].user = u /\ requests[r].target = target
                               /\ requests[r].status = "approved" \/ r \in halfDone

LEMMA DecidedKept ==
    ASSUME Onward, NEW u, NEW target, Decided(u, target)
    PROVE  Decided(u, target)'
BY DEF Onward, Decided

\* What accounts for a grant goes on to do so.
LEMMA JustifiedKept ==
    ASSUME GrantsJustified, Onward, RowsKept
    PROVE  GrantsJustified'
<1>1. /\ \A x \in DOMAIN tableGrants :
            tableGrants[x].row => SeedTable[x].row \/ x[1] \in Admins \/ Decided(x[1], <<x[2], "">>)
      /\ \A x \in DOMAIN columnGrants :
            columnGrants[x].row => SeedColumn[x].row \/ Decided(x[1], x[2])
  BY DEF GrantsJustified, Decided
<1>2. /\ \A x \in DOMAIN tableGrants' :
            tableGrants'[x].row => SeedTable[x].row \/ x[1] \in Admins \/ Decided(x[1], <<x[2], "">>)'
      /\ \A x \in DOMAIN columnGrants' :
            columnGrants'[x].row => SeedColumn[x].row \/ Decided(x[1], x[2])'
  BY <1>1, DecidedKept DEF RowsKept
<1> QED  BY <1>2 DEF GrantsJustified, Decided


-----------------------------------------------------------------------------
(* The half of the invariant that is about plans.                          *)

\* The parts of PlannedWithinGrants and SnapshotSeen for one process.
WithinOK(P) == P.pc \in Planned => Uses(P.intent) \cap P.never = {}
SeenOK(P) == \A c \in P.granted.columns : <<"see", c>> \in P.never => <<P.user, c[1]>> \in revoked

PlanOK(P) == ReadOK(P) /\ WithinOK(P) /\ SeenOK(P)
PlansOK == \A p \in Process : PlanOK(proc[p])

\* The invariant says this of every process.
LEMMA PlansSplit ==
    PlansOK <=> GrantsRead /\ PlannedWithinGrants /\ SnapshotSeen
BY DEF PlansOK, PlanOK, GrantsRead, PlannedWithinGrants, SnapshotSeen, WithinOK, SeenOK, U, Planned

\* A table that could be read is readable still, or was revoked.
ReadableKept ==
    /\ revoked \subseteq revoked'
    /\ \A u \in User, t \in Table :
        t \in ReadableTables(u) => t \in ReadableTables(u)' \/ <<u, t>> \in revoked'

\* The plans of the other processes are as good as before.
LEMMA PlansKept ==
    ASSUME Types, PlansOK, ReadableKept,
           NEW p \in Process, NEW new, Steps(p, new), PlanOK(proc[p])'
    PROVE  PlansOK'
<1> SUFFICES ASSUME NEW q \in Process, q # p PROVE PlanOK(proc[q])'
  BY DEF PlansOK
<1>1. /\ proc'[q].user = proc[q].user /\ proc'[q].pc = proc[q].pc /\ proc'[q].granted = proc[q].granted
      /\ proc'[q].unread = proc[q].unread /\ proc'[q].intent = proc[q].intent
      /\ proc'[q].never \subseteq proc[q].never
  BY DEF Steps, Follows
<1>2. ReadOK(proc[q]) /\ WithinOK(proc[q]) /\ SeenOK(proc[q]) /\ Shaped(proc[q])
  BY DEF PlansOK, PlanOK, Types
<1>3. ASSUME proc[q].pc = "columns", NEW t \in proc[q].unread
      PROVE  t \in ReadableTables(proc[q].user)' \/ <<proc'[q].user, t>> \in revoked'
  <2>1. PICK u \in User : u = proc[q].user /\ u = proc'[q].user
    BY <1>1, <1>2, <1>3 DEF Shaped
  <2>2. t \in Table /\ (t \in ReadableTables(u) \/ <<u, t>> \in revoked)
    BY <1>2, <1>3, <2>1 DEF ReadOK
  <2>3. t \in ReadableTables(u)' \/ <<u, t>> \in revoked'
    BY <2>2 DEF ReadableKept
  <2> QED  BY <2>1, <2>3 DEF ReadableTables, checkTableAccess
<1>4. ReadOK(proc[q])'
  BY <1>1, <1>2, <1>3 DEF ReadOK
<1>5. WithinOK(proc[q])'
  BY <1>1, <1>2 DEF WithinOK
<1>6. SeenOK(proc[q])'
  BY <1>1, <1>2 DEF SeenOK, ReadableKept
<1> QED  BY <1>4, <1>5, <1>6 DEF PlanOK

\* A process without a plan has nothing to keep.
LEMMA PlanNone ==
    ASSUME NEW p \in Process, proc'[p].pc \notin Reading, proc'[p].pc \notin Planned,
           proc'[p].granted.columns = {}
    PROVE  PlanOK(proc[p])'
BY DEF PlanOK, ReadOK, WithinOK, SeenOK, Reading

\* Nobody loses a table when no grant changes.
LEMMA SameReadable ==
    ASSUME UNCHANGED tableGrants, revoked \subseteq revoked'
    PROVE  ReadableKept
BY DEF ReadableKept, ReadableTables, checkTableAccess

\* Unchanged grants refuse what they refused.
LEMMA SameRefused ==
    ASSUME UNCHANGED <<tableGrants, columnGrants>>, NEW u \in User
    PROVE  Refused(u)' = Refused(u)
<1>1. Accessible(u, "read")' = Accessible(u, "read") /\ Accessible(u, "write")' = Accessible(u, "write")
  BY DEF Accessible, checkColumnAccess, checkTableAccess
<1>2. Visible(u)' = Visible(u)
  BY DEF Visible, VisibleColumns, ReadableTables, checkTableAccess
<1>3. ReadableTables(u)' = ReadableTables(u)
  BY DEF ReadableTables, checkTableAccess
<1> QED  BY <1>1, <1>2, <1>3 DEF Refused

\* Priming a term that mentions the user of a process.
LEMMA RefusedOf ==
    ASSUME NEW q \in Process, NEW u, proc'[q].user = u
    PROVE  Refused(u)' = Refused(proc[q].user)'
<1>1. /\ Accessible(u, "read")' = Accessible(proc[q].user, "read")'
      /\ Accessible(u, "write")' = Accessible(proc[q].user, "write")'
  BY DEF Accessible, checkColumnAccess, checkTableAccess
<1>2. ReadableTables(u)' = ReadableTables(proc[q].user)'
  BY DEF ReadableTables, checkTableAccess
<1>3. Visible(u)' = Visible(proc[q].user)'
  BY DEF Visible, VisibleColumns, ReadableTables, checkTableAccess
<1> QED  BY <1>1, <1>2, <1>3 DEF Refused

\* A step without a change of grants keeps NeverNow if its own process does.
LEMMA NeverBecome ==
    ASSUME NeverNow, Types, UNCHANGED <<tableGrants, columnGrants>>, NEW p \in Process,
           \A q \in Process \ {p} : proc'[q] = proc[q],
           proc'[p].user = Nobody => proc'[p].never = {},
           \A u \in User : proc'[p].user = u => proc'[p].never \subseteq Refused(u)
    PROVE  NeverNow'
<1> SUFFICES ASSUME NEW q \in Process PROVE NeverOK(proc[q])'
  BY DEF NeverNow
<1>1. proc'[q].user = Nobody => proc'[q].never = {}
  BY DEF NeverNow, NeverOK
<1>2. ASSUME NEW u \in User, proc'[q].user = u PROVE proc'[q].never \subseteq Refused(u)'
  <2>1. proc'[q].never \subseteq Refused(u)
    BY <1>2 DEF NeverNow, NeverOK
  <2> QED  BY <2>1, SameRefused
<1>3. ASSUME proc'[q].user \in User PROVE proc'[q].never \subseteq Refused(proc[q].user)'
  <2>1. PICK u \in User : proc'[q].user = u
    BY <1>3
  <2>2. proc'[q].never \subseteq Refused(u)'
    BY <1>2, <2>1
  <2>3. Refused(u)' = Refused(proc[q].user)'
    BY <2>1, RefusedOf
  <2> QED  BY <2>2, <2>3
<1> QED  BY <1>1, <1>3 DEF NeverOK

\* Watch keeps it for everybody.
LEMMA NeverWatch ==
    ASSUME NeverNow, NEW p \in Process, NEW new, Steps(p, new),
           new.user = Nobody => new.never = {},
           \A q \in Process, u \in User : proc'[q].user = u => proc'[q].never \subseteq Refused(u)'
    PROVE  NeverNow'
<1> SUFFICES ASSUME NEW q \in Process PROVE NeverOK(proc[q])'
  BY DEF NeverNow
<1>1. proc'[q].user = Nobody => proc'[q].never = {}
  <2>1. CASE q = p
    BY <2>1 DEF Steps, Follows
  <2>2. CASE q # p
    BY <2>2 DEF Steps, Follows, NeverNow, NeverOK
  <2> QED  BY <2>1, <2>2
<1>3. ASSUME proc'[q].user \in User PROVE proc'[q].never \subseteq Refused(proc[q].user)'
  <2>1. PICK u \in User : proc'[q].user = u
    BY <1>3
  <2>2. proc'[q].never \subseteq Refused(u)'
    BY <2>1
  <2>3. Refused(u)' = Refused(proc[q].user)'
    BY <2>1, RefusedOf
  <2> QED  BY <2>2, <2>3
<1> QED  BY <1>1, <1>3 DEF NeverOK


-----------------------------------------------------------------------------
(* Steps that leave grants and requests alone: sessions and plans.         *)

\* A process is back at its start, with or without a user.
AtPrompt(u, n) == [Down EXCEPT !.user = u, !.pc = "idle", !.plans = n]
AtLogin(n) == [Down EXCEPT !.plans = n]

LEMMA AtPromptFields ==
    ASSUME NEW u, NEW n
    PROVE  /\ DOMAIN AtPrompt(u, n) = Fields
           /\ AtPrompt(u, n).user = u /\ AtPrompt(u, n).pc = "idle" /\ AtPrompt(u, n).req = 0
           /\ AtPrompt(u, n).granted = NoSchema /\ AtPrompt(u, n).never = {}
BY DEF AtPrompt, Down, Fields

LEMMA AtLoginFields ==
    ASSUME NEW n
    PROVE  /\ DOMAIN AtLogin(n) = Fields
           /\ AtLogin(n).user = Nobody /\ AtLogin(n).pc = "down" /\ AtLogin(n).req = 0
           /\ AtLogin(n).granted = NoSchema /\ AtLogin(n).never = {}
BY DEF AtLogin, Down, Fields

LEMMA NoSchemaFields ==
    DOMAIN NoSchema = {"tables", "columns"} /\ NoSchema.tables = {} /\ NoSchema.columns = {}
BY DEF NoSchema

\* One process moves, not to the work on a request; a request it leaves is
\* recorded as half done.
LEMMA QuietStep ==
    ASSUME AInv, NEW p \in Process, NEW new, Shaped(new), Become(p, new),
           UNCHANGED <<tableGrants, columnGrants, requests, revoked>>, audit \subseteq audit',
           halfDone' = IF proc[p].req > 0 THEN halfDone \cup {proc[p].req} ELSE halfDone,
           new.req = 0, new.pc \notin Requesting, new.pc # "revoking",
           new.user = Nobody => new.never = {},
           \A u \in User : new.user = u => new.never \subseteq Refused(u),
           PlanOK(proc[p])'
    PROVE  AInv'
<1>1. Types /\ WorkKnown /\ GrantOwed /\ LogOwed /\ GrantsJustified /\ NeverNow /\ PlansOK
  BY PlansSplit DEF AInv
<1>2. /\ Steps(p, new) /\ proc'[p] = new
      /\ \A q \in Process \ {p} : proc'[q] = proc[q]
  BY <1>1, BecomeSteps
<1>3. proc[p].req \in {0} \cup DOMAIN requests
  BY <1>1 DEF WorkKnown, WorkOK
<1>4. DOMAIN requests \subseteq Nat \ {0}
  BY <1>1 DEF Types
<1>5. Onward
  BY <1>1, <1>3, <1>4 DEF Types, Onward
<1>6. Types'
  BY <1>1, <1>2, <1>5 DEF Types, Onward, Steps
<1>7. WorkStays(p)
  BY <1>3, <1>4 DEF WorkStays
<1>8. WorkKnown'
  <2>1. WorkOK(proc[p])'
    BY <1>2, WorkNone
  <2> QED  BY <1>1, <1>2, <1>5, <2>1, WorkKept
<1>9. ForceKept /\ RowsKept
  BY DEF ForceKept, RowsKept, InForce
<1>10. GrantOwed' /\ LogOwed'
  BY <1>1, <1>2, <1>5, <1>7, <1>9, OwedKept
<1>11. GrantsJustified'
  BY <1>1, <1>5, <1>9, JustifiedKept
<1>12. NeverNow'
  BY <1>1, <1>2, NeverBecome
<1>13. PlansOK'
  <2>1. ReadableKept
    BY SameReadable
  <2> QED  BY <1>1, <1>2, <2>1, PlansKept
<1>14. (GrantsRead /\ PlannedWithinGrants /\ SnapshotSeen)'
  BY <1>13, PlansSplit DEF PlansOK, PlanOK, GrantsRead, PlannedWithinGrants, SnapshotSeen, WithinOK, SeenOK, U, Planned
<1> QED  BY <1>6, <1>8, <1>10, <1>11, <1>12, <1>14 DEF AInv

\* Back to the prompt, to the login or to nothing: what a process knew is gone.
LEMMA ResetStep ==
    ASSUME AInv, NEW p \in Process, NEW new, Become(p, new),
           (\E u \in User : \E n : new = AtPrompt(u, n)) \/ (\E n : new = AtLogin(n)),
           UNCHANGED <<tableGrants, columnGrants, requests, revoked>>, audit \subseteq audit',
           halfDone' = IF proc[p].req > 0 THEN halfDone \cup {proc[p].req} ELSE halfDone
    PROVE  AInv'
<1>1. /\ DOMAIN new = Fields /\ new.req = 0 /\ new.granted = NoSchema /\ new.never = {}
      /\ \/ new.user \in User /\ new.pc = "idle"
         \/ new.user = Nobody /\ new.pc = "down"
  BY AtPromptFields, AtLoginFields
<1>2. Shaped(new)
  BY <1>1, NoSchemaFields, AccessAssumption DEF Shaped, Nobody
<1>3. proc'[p] = new
  BY <1>2, BecomeSteps DEF AInv
<1>4. new.pc \notin Reading /\ new.pc \notin Planned /\ new.pc \notin Requesting /\ new.pc # "revoking"
  BY <1>1 DEF Reading, Planned, Requesting
<1>5. PlanOK(proc[p])'
  BY <1>1, <1>3, <1>4, NoSchemaFields, PlanNone
<1> QED  BY <1>1, <1>2, <1>4, <1>5, QuietStep

\* Sessions begin and end, by an exit or by a crash.
LEMMA SessionSteps ==
    ASSUME AInv, NEW p \in Process, (\E u \in User : Login(p, u)) \/ Logout(p) \/ Crash(p)
    PROVE  AInv'
<1>1. At(p, "idle") \/ At(p, "down") => ~(proc[p].req > 0)
  BY DEF AInv, WorkKnown, WorkOK, At, Requesting
<1>2. CASE \E u \in User : Login(p, u)
  <2>1. PICK u \in User : Login(p, u)
    BY <1>2
  <2>2. At(p, "down") /\ Become(p, AtPrompt(u, proc[p].plans))
        /\ UNCHANGED <<tableGrants, columnGrants, requests, audit, crashes, halfDone, revoked>>
    BY <2>1 DEF Login, AtPrompt
  <2> QED  BY <1>1, <2>2, ResetStep
<1>3. CASE Logout(p)
  <2>1. At(p, "idle") /\ Become(p, AtLogin(proc[p].plans))
        /\ UNCHANGED <<tableGrants, columnGrants, requests, audit, crashes, halfDone, revoked>>
    BY <1>3 DEF Logout, AtLogin
  <2> QED  BY <1>1, <2>1, ResetStep
<1>4. CASE Crash(p)
  <2>1. /\ Become(p, AtLogin(proc[p].plans))
        /\ halfDone' = IF proc[p].req > 0 THEN halfDone \cup {proc[p].req} ELSE halfDone
        /\ UNCHANGED <<tableGrants, columnGrants, requests, audit, revoked>>
    BY <1>4 DEF Crash, AtLogin
  <2> QED  BY <2>1, ResetStep
<1> QED  BY <1>2, <1>3, <1>4


\* A plan goes on for the user that began it.
LEMMA PlanStep ==
    ASSUME AInv, NEW p \in Process, NEW new, Become(p, new),
           proc[p].pc \notin Requesting, proc[p].pc \notin {"down", "revoking"},
           DOMAIN new = Fields, DOMAIN new.granted = {"tables", "columns"},
           new.user = proc[p].user, new.req = proc[p].req,
           new.pc \notin Requesting, new.pc \notin {"down", "revoking"},
           new.never = proc[p].never \/ new.never = Refused(proc[p].user),
           PlanOK(new),
           UNCHANGED <<tableGrants, columnGrants, requests, crashes, halfDone, revoked>>, audit \subseteq audit'
    PROVE  AInv'
<1>1. /\ proc[p].req = 0 /\ proc[p].user \in User
      /\ proc[p].never \subseteq Refused(proc[p].user)
  BY DEF AInv, Types, Shaped, WorkKnown, WorkOK, NeverNow, NeverOK
<1>2. Shaped(new)
  BY <1>1, AccessAssumption DEF Shaped, Nobody
<1>3. proc'[p] = new
  BY <1>2, BecomeSteps DEF AInv
<1>4. PlanOK(proc[p])'
  <2>1. ReadOK(proc[p])'
    BY <1>3 DEF PlanOK, ReadOK, ReadableTables, checkTableAccess
  <2>2. WithinOK(proc[p])' /\ SeenOK(proc[p])'
    BY <1>3 DEF PlanOK, WithinOK, SeenOK
  <2> QED  BY <2>1, <2>2 DEF PlanOK
<1>5. new.user = Nobody => new.never = {}
  BY <1>1, AccessAssumption DEF Nobody
<1>6. \A u \in User : new.user = u => new.never \subseteq Refused(u)
  BY <1>1
<1>7. ~(proc[p].req > 0)
  BY <1>1
<1> QED  BY <1>1, <1>2, <1>4, <1>5, <1>6, <1>7, QuietStep

\* A plan ends, well or with an error.
LEMMA RefuseStep ==
    ASSUME AInv, NEW p \in Process, Refuse(p),
           proc[p].pc \notin Requesting, proc[p].pc \notin {"down", "revoking"},
           UNCHANGED <<tableGrants, columnGrants, requests, crashes, halfDone, revoked>>, audit \subseteq audit'
    PROVE  AInv'
<1>1. proc[p].req = 0 /\ proc[p].user \in User
  BY DEF AInv, Types, Shaped, WorkKnown, WorkOK
<1>2. Become(p, AtPrompt(proc[p].user, proc[p].plans))
  BY DEF Refuse, AtPrompt, U
<1>3. ~(proc[p].req > 0)
  BY <1>1
<1> QED  BY <1>1, <1>2, <1>3, ResetStep

\* The mentions are allowed, or the user is told that they are not.
LEMMA CheckMentionsStep ==
    ASSUME AInv, NEW p \in Process, CheckMentions(p)
    PROVE  AInv'
<1>1. /\ proc[p].pc = "idle"
      /\ UNCHANGED <<tableGrants, columnGrants, requests, audit, crashes, halfDone, revoked>>
  BY DEF CheckMentions, At
<1>2. Shaped(proc[p]) /\ ReadOK(proc[p])
  BY DEF AInv, Types, GrantsRead
<1> DEFINE same == [proc[p] EXCEPT !.plans = @ + 1]
           new == [same EXCEPT !.pc = "tables", !.never = Refused(U(p))]
<1>3. Become(p, same) \/ Become(p, new)
  BY DEF CheckMentions
<1>4. /\ DOMAIN same = Fields /\ same.pc = "idle" /\ same.user = proc[p].user
      /\ same.req = proc[p].req /\ same.granted = proc[p].granted /\ same.never = proc[p].never
  BY <1>1, <1>2 DEF Shaped, Fields
<1>5. /\ DOMAIN new = Fields /\ new.pc = "tables" /\ new.user = proc[p].user
      /\ new.req = proc[p].req /\ new.granted = proc[p].granted /\ new.never = Refused(proc[p].user)
  <2> HIDE DEF same
  <2> QED  BY <1>4 DEF Fields, U
<1> HIDE DEF same, new
<1>6. proc[p].granted.columns = {}
  BY <1>1, <1>2 DEF ReadOK, Reading
<1>7. PlanOK(same) /\ PlanOK(new)
  BY <1>4, <1>5, <1>6 DEF PlanOK, ReadOK, WithinOK, SeenOK, Reading, Planned
<1>8. "idle" \notin Requesting /\ "tables" \notin Requesting
  BY DEF Requesting
<1>9. DOMAIN proc[p].granted = {"tables", "columns"}
  BY <1>2 DEF Shaped
<1>10. CASE Become(p, same)
  BY <1>1, <1>4, <1>7, <1>8, <1>9, <1>10, PlanStep
<1>11. CASE Become(p, new)
  BY <1>1, <1>5, <1>7, <1>8, <1>9, <1>11, PlanStep
<1> QED  BY <1>3, <1>10, <1>11


\* The tables of the granted schema are read off the database, none of them refused.
LEMMA ReadTableGrantsStep ==
    ASSUME AInv, NEW p \in Process, ReadTableGrants(p)
    PROVE  AInv'
<1>1. /\ proc[p].pc = "tables"
      /\ UNCHANGED <<tableGrants, columnGrants, requests, audit, crashes, halfDone, revoked>>
  BY DEF ReadTableGrants, At
<1>2. "tables" \notin Requesting /\ "columns" \notin Requesting /\ "tables" \notin {"down", "revoking"}
  BY DEF Requesting
<1>3. Shaped(proc[p]) /\ NeverOK(proc[p]) /\ proc[p].user \in User
  BY <1>1, <1>2 DEF AInv, Types, NeverNow, Shaped
<1> DEFINE G == ReadableTables(proc[p].user)
           new == [proc[p] EXCEPT !.pc = "columns", !.granted = [NoSchema EXCEPT !.tables = G], !.unread = G]
<1>4. CASE G = {}
  <2>1. Refuse(p)
    BY <1>4 DEF ReadTableGrants, U
  <2> QED  BY <1>1, <1>2, <2>1, RefuseStep
<1>5. CASE G # {}
  <2>1. Become(p, new)
    BY <1>5 DEF ReadTableGrants, U
  <2>2. /\ DOMAIN new = Fields /\ new.pc = "columns" /\ new.user = proc[p].user
        /\ new.req = proc[p].req /\ new.never = proc[p].never /\ new.unread = G
        /\ new.granted = [NoSchema EXCEPT !.tables = G]
    BY <1>3 DEF Shaped, Fields
  <2>3. DOMAIN new.granted = {"tables", "columns"} /\ new.granted.tables = G /\ new.granted.columns = {}
    BY <2>2 DEF NoSchema
  <2> HIDE DEF new
  <2>4. G \subseteq Table
    BY DEF ReadableTables
  <2>5. \A t \in G : <<"table", <<t, "">> >> \notin Refused(proc[p].user)
    BY DEF Refused
  <2>6. ReadOK(new)
    <3>1. \A t \in new.granted.tables : <<"table", <<t, "">> >> \notin new.never
      BY <1>3, <2>2, <2>3, <2>5 DEF NeverOK
    <3>2. /\ new.unread # {} /\ new.unread \subseteq Table
          /\ \A t \in new.unread : t \in ReadableTables(new.user)
      BY <1>5, <2>2, <2>4
    <3>3. new.pc \in Reading
      BY <2>2 DEF Reading
    <3> QED  BY <3>1, <3>2, <3>3 DEF ReadOK
  <2>7. PlanOK(new)
    BY <2>2, <2>3, <2>6 DEF PlanOK, WithinOK, SeenOK, Planned
  <2> QED  BY <1>1, <1>2, <2>1, <2>2, <2>3, <2>7, PlanStep
<1> QED  BY <1>4, <1>5

\* There is a first table, and it is one of them.
LEMMA FirstOfMember ==
    ASSUME NEW S, S # {}, S \subseteq Table
    PROVE  FirstOf(S) \in S
<1> DEFINE I == {i \in DOMAIN Schema.tables : Schema.tables[i] \in S}
<1>1. I \subseteq Nat /\ I # {}
  <2>1. Schema.tables \in Seq(STRING)
    BY AccessAssumption
  <2>2. I \subseteq Nat
    BY <2>1
  <2>3. PICK s \in S : s \in {Schema.tables[i] : i \in DOMAIN Schema.tables}
    BY DEF Table, ToSet
  <2> QED  BY <2>2, <2>3
<1>2. \E x \in I : \A y \in I : ~(<<y, x>> \in OpToRel(<, Nat))
  BY <1>1, NatLessThanWellFounded, WFMin
<1>3. PICK x \in I : \A y \in I : ~(y < x)
  BY <1>1, <1>2 DEF OpToRel
<1>4. \A y \in I : x =< y
  BY <1>1, <1>3
<1>5. Min(I) \in I
  BY <1>4 DEF Min
<1> QED  BY <1>5 DEF FirstOf

\* The columns of a table that is readable are visible; of one that is not any
\* more, the revocation is on record.
LEMMA ReadColumnGrantsStep ==
    ASSUME AInv, NEW p \in Process, ReadColumnGrants(p)
    PROVE  AInv'
<1>1. /\ proc[p].pc = "columns"
      /\ UNCHANGED <<tableGrants, columnGrants, requests, audit, crashes, halfDone, revoked>>
  BY DEF ReadColumnGrants, At
<1>2. "select" \notin Requesting /\ "columns" \notin Requesting
  BY DEF Requesting
<1>3. /\ Shaped(proc[p]) /\ NeverOK(proc[p]) /\ proc[p].user \in User
      /\ ReadOK(proc[p]) /\ SeenOK(proc[p])
  <2>1. PlansOK
    BY PlansSplit DEF AInv
  <2> QED  BY <1>1, <2>1 DEF AInv, Types, NeverNow, Shaped, PlansOK, PlanOK
<1> DEFINE t == FirstOf(proc[p].unread)
           V == VisibleColumns(proc[p].user, t)
           pc2 == IF proc[p].unread = {t} THEN "select" ELSE proc[p].pc
           new == [proc[p] EXCEPT !.granted.columns = @ \cup V, !.unread = @ \ {t}, !.pc = pc2]
<1>4. Become(p, new)
  BY DEF ReadColumnGrants, U
<1>5. /\ proc[p].unread # {} /\ proc[p].unread \subseteq Table
      /\ t \in proc[p].unread
      /\ t \in ReadableTables(proc[p].user) \/ <<proc[p].user, t>> \in revoked
  BY <1>1, <1>3, FirstOfMember DEF ReadOK
<1> HIDE DEF t, V
<1>6. /\ DOMAIN new = Fields /\ new.pc = pc2 /\ new.user = proc[p].user
      /\ new.req = proc[p].req /\ new.never = proc[p].never /\ new.unread = proc[p].unread \ {t}
      /\ new.granted = [proc[p].granted EXCEPT !.columns = @ \cup V]
  BY <1>3 DEF Shaped, Fields
<1>7. /\ DOMAIN new.granted = {"tables", "columns"} /\ new.granted.tables = proc[p].granted.tables
      /\ new.granted.columns = proc[p].granted.columns \cup V
  BY <1>3, <1>6 DEF Shaped
<1> HIDE DEF new
<1>8. pc2 \in {"columns", "select"} /\ (pc2 = "columns" => proc[p].unread # {t})
  BY <1>1
<1> HIDE DEF pc2
<1>9. ReadOK(new)
  BY <1>1, <1>3, <1>5, <1>6, <1>7, <1>8 DEF ReadOK, Reading
<1>10. \A c \in V : c \in Column /\ c[1] = t
  BY DEF V, VisibleColumns
<1>11. \A c \in V : <<"see", c>> \in proc[p].never => <<proc[p].user, c[1]>> \in revoked
  <2>1. SUFFICES ASSUME NEW c \in V, <<"see", c>> \in proc[p].never, t \in ReadableTables(proc[p].user)
                 PROVE  FALSE
    BY <1>5, <1>10
  <2>2. c \in Visible(proc[p].user)
    BY <2>1 DEF Visible, V
  <2>3. <<"see", c>> \in Refused(proc[p].user)
    BY <1>3, <2>1 DEF NeverOK
  <2>4. c \notin Visible(proc[p].user)
    BY <2>3 DEF Refused
  <2> QED  BY <2>2, <2>4
<1>12. PlanOK(new)
  <2>1. SeenOK(new)
    BY <1>3, <1>6, <1>7, <1>11 DEF SeenOK
  <2>2. WithinOK(new)
    BY <1>6, <1>8 DEF WithinOK, Planned
  <2> QED  BY <1>9, <2>1, <2>2 DEF PlanOK
<1>13. new.pc \notin Requesting /\ new.pc \notin {"down", "revoking"}
  BY <1>2, <1>6, <1>8
<1> QED  BY <1>1, <1>2, <1>4, <1>6, <1>7, <1>12, <1>13, PlanStep


\* The tables are selected, and the joins between them are granted.
LEMMA SelectTablesStep ==
    ASSUME AInv, NEW p \in Process, SelectTables(p)
    PROVE  AInv'
<1>1. /\ proc[p].pc = "select"
      /\ UNCHANGED <<tableGrants, columnGrants, requests, audit, crashes, halfDone, revoked>>
  BY DEF SelectTables, At
<1>2. "select" \notin Requesting /\ "intent" \notin Requesting /\ "select" \notin {"down", "revoking"}
  BY DEF Requesting
<1>3. CASE Refuse(p)
  BY <1>1, <1>2, <1>3, RefuseStep
<1>4. ASSUME NEW selected, Become(p, [proc[p] EXCEPT !.pc = "intent", !.selected = selected])
      PROVE  AInv'
  <2> DEFINE new == [proc[p] EXCEPT !.pc = "intent", !.selected = selected]
  <2>1. Shaped(proc[p]) /\ ReadOK(proc[p]) /\ SeenOK(proc[p])
    BY DEF AInv, Types, GrantsRead, SnapshotSeen, SeenOK, U
  <2>2. /\ DOMAIN new = Fields /\ new.pc = "intent" /\ new.user = proc[p].user
        /\ new.req = proc[p].req /\ new.never = proc[p].never /\ new.granted = proc[p].granted
    BY <2>1 DEF Shaped, Fields
  <2>3. Become(p, new)
    BY <1>4
  <2> HIDE DEF new
  <2>4. PlanOK(new)
    BY <1>1, <2>1, <2>2 DEF PlanOK, ReadOK, SeenOK, WithinOK, Reading, Planned
  <2>5. DOMAIN new.granted = {"tables", "columns"}
    BY <2>1, <2>2 DEF Shaped
  <2> QED  BY <1>1, <1>2, <2>2, <2>3, <2>4, <2>5, PlanStep
<1>5. Refuse(p) \/ \E selected : Become(p, [proc[p] EXCEPT !.pc = "intent", !.selected = selected])
  <2>1. PICK answer \in Answers :
            LET selected == Preselect(GrantedSchema(proc[p].granted.tables), answer)
            IN  IF checkJoinCompleteness(selected, proc[p].granted.tables)
                THEN Become(p, [proc[p] EXCEPT !.pc = "intent", !.selected = selected])
                ELSE Refuse(p)
    BY Zenon DEF SelectTables
  <2> QED  BY <2>1, Zenon
<1> QED  BY <1>3, <1>4, <1>5

\* The model comes up with an intent.
LEMMA GenerateIntentStep ==
    ASSUME AInv, NEW p \in Process, GenerateIntent(p)
    PROVE  AInv'
<1>1. /\ proc[p].pc = "intent"
      /\ UNCHANGED <<tableGrants, columnGrants, requests, audit, crashes, halfDone, revoked>>
  BY DEF GenerateIntent, At
<1>2. PICK intent \in Intents : Become(p, [proc[p] EXCEPT !.pc = "validate", !.intent = intent])
  BY DEF GenerateIntent
<1> DEFINE new == [proc[p] EXCEPT !.pc = "validate", !.intent = intent]
<1>3. Shaped(proc[p]) /\ ReadOK(proc[p]) /\ SeenOK(proc[p])
  BY DEF AInv, Types, GrantsRead, SnapshotSeen, SeenOK, U
<1>4. /\ DOMAIN new = Fields /\ new.pc = "validate" /\ new.user = proc[p].user
      /\ new.req = proc[p].req /\ new.never = proc[p].never /\ new.granted = proc[p].granted
  BY <1>3 DEF Shaped, Fields
<1>5. Become(p, new)
  BY <1>2
<1> HIDE DEF new
<1>6. PlanOK(new)
  BY <1>1, <1>3, <1>4 DEF PlanOK, ReadOK, SeenOK, WithinOK, Reading, Planned
<1>7. DOMAIN new.granted = {"tables", "columns"}
  BY <1>3, <1>4 DEF Shaped
<1>8. "intent" \notin Requesting /\ "validate" \notin Requesting
  BY DEF Requesting
<1> QED  BY <1>1, <1>4, <1>5, <1>6, <1>7, <1>8, PlanStep

\* What passes the validation uses nothing the user is refused now, and no table
\* he was refused when the grants were read.
LEMMA ValidatedWithin ==
    ASSUME NEW u \in User, NEW granted, NEW intent, NEW never,
           validateEnrichedPipeline(u, granted, intent),
           never \subseteq Refused(u),
           \A t \in granted.tables : <<"table", <<t, "">> >> \notin never
    PROVE  Uses(intent) \cap never = {}
<1>1. ASSUME NEW c \in intent.reads PROVE <<"read", c>> \notin Refused(u)
  <2>1. checkColumnAccess(u, c, "read")
    BY DEF validateEnrichedPipeline, checkQueryIntentColumns
  <2>2. c \notin Column \ Accessible(u, "read")
    BY <2>1 DEF Accessible
  <2> QED  BY <2>2 DEF Refused
<1>2. ASSUME NEW c \in intent.writes PROVE <<"write", c>> \notin Refused(u)
  <2>1. checkColumnAccess(u, c, "write")
    BY DEF validateEnrichedPipeline
  <2>2. c \notin Column \ Accessible(u, "write")
    BY <2>1 DEF Accessible
  <2> QED  BY <2>2 DEF Refused
<1>3. \A t \in intent.tables : <<"table", <<t, "">> >> \notin never
  BY DEF validateEnrichedPipeline
<1> QED  BY <1>1, <1>2, <1>3 DEF Uses

\* The plan is returned, complete or not, or refused.
LEMMA ValidateStep ==
    ASSUME AInv, NEW p \in Process, Validate(p)
    PROVE  AInv'
<1>1. /\ proc[p].pc = "validate" /\ audit \subseteq audit'
      /\ UNCHANGED <<tableGrants, columnGrants, requests, crashes, halfDone, revoked>>
  BY DEF Validate, At, Log
<1>2. /\ "validate" \notin Requesting /\ "offered" \notin Requesting /\ "incomplete" \notin Requesting
      /\ "validate" \notin {"down", "revoking"}
  BY DEF Requesting
<1>3. CASE Refuse(p)
  BY <1>1, <1>2, <1>3, RefuseStep
<1>4. ASSUME validateEnrichedPipeline(proc[p].user, proc[p].granted, proc[p].intent),
             NEW pc \in {"offered", "incomplete"}, NEW owned, Return(p, pc, owned)
      PROVE  AInv'
  <2> DEFINE new == [proc[p] EXCEPT !.pc = pc, !.owned = owned, !.granted = NoSchema, !.selected = <<>>]
  <2>1. Shaped(proc[p]) /\ ReadOK(proc[p]) /\ NeverOK(proc[p]) /\ proc[p].user \in User
    BY <1>1 DEF AInv, Types, GrantsRead, NeverNow, Shaped
  <2>2. /\ DOMAIN new = Fields /\ new.pc = pc /\ new.user = proc[p].user /\ new.req = proc[p].req
        /\ new.never = proc[p].never /\ new.granted = NoSchema /\ new.intent = proc[p].intent
    BY <2>1 DEF Shaped, Fields
  <2>3. Become(p, new)
    BY <1>4 DEF Return
  <2> HIDE DEF new
  <2>4. Uses(proc[p].intent) \cap proc[p].never = {}
    BY <1>1, <1>4, <2>1, ValidatedWithin DEF ReadOK, NeverOK, Reading
  <2>5. PlanOK(new)
    BY <1>4, <2>2, <2>4, NoSchemaFields DEF PlanOK, ReadOK, SeenOK, WithinOK, Reading
  <2> QED  BY <1>1, <1>2, <1>4, <2>2, <2>3, <2>5, NoSchemaFields, PlanStep
<1>5. \/ Refuse(p)
      \/ /\ validateEnrichedPipeline(proc[p].user, proc[p].granted, proc[p].intent)
         /\ Return(p, "offered", TRUE) \/ Return(p, "incomplete", FALSE)
  BY DEF Validate, U
<1> QED  BY <1>3, <1>4, <1>5

\* The user fills in the values, confirms, or declines; the plan runs and ends.
LEMMA OfferedSteps ==
    ASSUME AInv, NEW p \in Process, FillIn(p) \/ Execute(p) \/ Executed(p) \/ Decline(p)
    PROVE  AInv'
<1>1. /\ proc[p].pc \in Planned /\ audit \subseteq audit'
      /\ UNCHANGED <<tableGrants, columnGrants, requests, crashes, halfDone, revoked>>
  BY DEF FillIn, Execute, Executed, Decline, At, Log, Planned
<1>2. \A pc \in Planned : pc \notin Requesting /\ pc \notin {"down", "revoking"} /\ pc \notin Reading
  BY DEF Planned, Requesting, Reading
<1>3. CASE Refuse(p)
  BY <1>1, <1>2, <1>3, RefuseStep
<1>4. ASSUME NEW pc \in Planned, Goto(p, pc)
      PROVE  AInv'
  <2> DEFINE new == [proc[p] EXCEPT !.pc = pc]
  <2>1. Shaped(proc[p]) /\ ReadOK(proc[p]) /\ WithinOK(proc[p])
    BY DEF AInv, Types, GrantsRead, PlannedWithinGrants, WithinOK, Planned
  <2>2. /\ DOMAIN new = Fields /\ new.pc = pc /\ new.user = proc[p].user /\ new.req = proc[p].req
        /\ new.never = proc[p].never /\ new.granted = proc[p].granted /\ new.intent = proc[p].intent
    BY <2>1 DEF Shaped, Fields
  <2>3. Become(p, new)
    BY <1>4 DEF Goto
  <2> HIDE DEF new
  <2>4. PlanOK(new)
    BY <1>1, <1>2, <2>1, <2>2 DEF PlanOK, ReadOK, SeenOK, WithinOK, Reading
  <2>5. DOMAIN new.granted = {"tables", "columns"}
    BY <2>1, <2>2 DEF Shaped
  <2> QED  BY <1>1, <1>2, <2>2, <2>3, <2>4, <2>5, PlanStep
<1>5. Refuse(p) \/ Goto(p, "offered") \/ Goto(p, "running")
  BY DEF FillIn, Execute, Executed, Decline
<1>6. "offered" \in Planned /\ "running" \in Planned
  BY DEF Planned
<1> QED  BY <1>3, <1>4, <1>5, <1>6

\* So all of plan() keeps the invariant.
LEMMA PlanSteps ==
    ASSUME AInv, NEW p \in Process, Plan(p)
    PROVE  AInv'
BY CheckMentionsStep, ReadTableGrantsStep, ReadColumnGrantsStep, SelectTablesStep,
   GenerateIntentStep, ValidateStep, OfferedSteps DEF Plan


-----------------------------------------------------------------------------
(* Steps that change grants: the login over HTTP and the revocations.      *)

\* Grants change and requests do not.
LEMMA GrantStep ==
    ASSUME AInv, NEW p \in Process, NEW new, Shaped(new), Watch(p, new),
           new.user = Nobody => new.never = {},
           UNCHANGED <<requests, audit, halfDone>>,
           tableGrants' \in [User \X Table -> Grant], columnGrants' \in [User \X Column -> Grant],
           revoked' \subseteq User \X Table,
           ForceKept, RowsKept, ReadableKept, WorkStays(p), WorkOK(proc[p])', PlanOK(proc[p])'
    PROVE  AInv'
<1>1. Types /\ WorkKnown /\ GrantOwed /\ LogOwed /\ GrantsJustified /\ NeverNow /\ PlansOK
  BY PlansSplit DEF AInv
<1>2. /\ Steps(p, new)
      /\ \A q \in Process, u \in User : proc'[q].user = u => proc'[q].never \subseteq Refused(u)'
  BY <1>1, WatchSteps
<1>3. Onward
  BY <1>1, SameOnward DEF ReadableKept
<1>4. Types'
  BY <1>1, <1>2 DEF Types, Steps
<1>5. WorkKnown'
  BY <1>1, <1>2, <1>3, WorkKept
<1>6. GrantOwed' /\ LogOwed'
  BY <1>1, <1>2, <1>3, OwedKept
<1>7. GrantsJustified'
  BY <1>1, <1>3, JustifiedKept
<1>8. NeverNow'
  BY <1>1, <1>2, NeverWatch
<1>9. PlansOK'
  BY <1>1, <1>2, PlansKept
<1>10. (GrantsRead /\ PlannedWithinGrants /\ SnapshotSeen)'
  BY <1>9 DEF PlansOK, PlanOK, GrantsRead, PlannedWithinGrants, SnapshotSeen, WithinOK, SeenOK, U, Planned
<1> QED  BY <1>4, <1>5, <1>6, <1>7, <1>8, <1>10 DEF AInv

\* A process that is down has no user, no request and no plan.
LEMMA DownKnown ==
    ASSUME AInv, NEW p \in Process, proc[p].pc \in {"down", "revoking"}
    PROVE  /\ Shaped(proc[p]) /\ proc[p].user = Nobody /\ proc[p].req = 0
           /\ proc[p].never = {} /\ proc[p].granted.columns = {}
<1>1. Shaped(proc[p]) /\ WorkOK(proc[p]) /\ NeverOK(proc[p]) /\ ReadOK(proc[p])
  BY DEF AInv, Types, WorkKnown, NeverNow, GrantsRead
<1>2. proc[p].pc \notin Requesting /\ proc[p].pc \notin Reading
  BY DEF Requesting, Reading
<1> QED  BY <1>1, <1>2 DEF Shaped, WorkOK, NeverOK, ReadOK

LEMMA PairParts ==
    ASSUME NEW x, NEW t, NEW n, x = <<t, n>>
    PROVE  x[1] = t /\ x[2] = n
OBVIOUS

\* A target is a table or one of its columns.
LEMMA TargetParts ==
    ASSUME NEW c \in Target
    PROVE  /\ c[2] = "" => c = <<c[1], "">>
           /\ c[2] # "" => c \in Column
           /\ c[1] \in Table
<1>1. CASE c \in Column
  <2>1. c[1] \in Table /\ c[2] # ""
    BY <1>1, AccessAssumption
  <2> QED  BY <1>1, <2>1
<1>2. CASE c \notin Column
  <2>1. PICK t \in Table : c = <<t, "">>
    BY <1>2 DEF Target
  <2>2. c[1] = t /\ c[2] = ""
    BY <2>1, PairParts, Zenon
  <2>3. c = <<c[1], "">>
    BY <2>1, <2>2, Zenon
  <2> QED  BY <2>2, <2>3
<1> QED  BY <1>1, <1>2

LEMMA RequestParts ==
    ASSUME NEW q \in Request
    PROVE  /\ q.user \in User /\ q.target \in Target
           /\ q.target[2] = "" => q.target = <<q.target[1], "">>
           /\ q.target[2] # "" => q.target \in Column
           /\ q.target[1] \in Table
<1>1. q.user \in User /\ q.target \in Target
  BY DEF Request
<1> QED  BY <1>1, TargetParts, Zenon

\* The administrator has every table again.
LEMMA ApiLoginStep ==
    ASSUME AInv, NEW p \in Process, ApiLogin(p)
    PROVE  AInv'
<1>1. /\ proc[p].pc = "down" /\ Watch(p, proc[p])
      /\ UNCHANGED <<columnGrants, requests, audit, crashes, halfDone, revoked>>
  BY DEF ApiLogin, At
<1>2. PICK a \in Admins :
        tableGrants' = [x \in DOMAIN tableGrants |-> IF x[1] = a THEN FullGrant ELSE tableGrants[x]]
  BY DEF ApiLogin
<1>3. Types
  BY DEF AInv
<1>4. FullGrant \in Grant /\ FullGrant.row /\ FullGrant.read
  BY DEF FullGrant, Grant
<1>5. /\ tableGrants' \in [User \X Table -> Grant]
      /\ \A x \in User \X Table : tableGrants'[x] = IF x[1] = a THEN FullGrant ELSE tableGrants[x]
  BY <1>2, <1>3, <1>4 DEF Types
<1>6. ForceKept
  <2>1. SUFFICES ASSUME NEW q \in Request, InForce(q) PROVE InForce(q)'
    BY DEF ForceKept
  <2>2. q.target[2] = "" => <<q.user, q.target[1]>> \in User \X Table
    BY RequestParts
  <2> QED  BY <1>1, <1>5, <2>1, <2>2 DEF InForce
<1>7. RowsKept
  BY <1>1, <1>2, <1>3, <1>5 DEF RowsKept, Types
<1>8. ReadableKept
  BY <1>1, <1>4, <1>5 DEF ReadableKept, ReadableTables, checkTableAccess, May
<1>9. /\ Shaped(proc[p]) /\ proc[p].user = Nobody /\ proc[p].req = 0
      /\ proc[p].never = {} /\ proc[p].granted.columns = {}
  BY <1>1, DownKnown
<1>10. /\ proc'[p].pc = "down" /\ proc'[p].req = 0 /\ proc'[p].granted.columns = {}
  <2>1. Steps(p, proc[p])
    BY <1>1, <1>3, <1>9, WatchSteps
  <2> QED  BY <1>1, <1>9, <2>1 DEF Steps, Follows
<1>11. WorkOK(proc[p])' /\ PlanOK(proc[p])'
  <2>1. "down" \notin Requesting /\ "down" \notin Reading /\ "down" \notin Planned
    BY DEF Requesting, Reading, Planned
  <2> QED  BY <1>10, <2>1, WorkNone, PlanNone
<1>12. WorkStays(p)
  BY <1>9 DEF WorkStays
<1>13. columnGrants' \in [User \X Column -> Grant] /\ revoked' \subseteq User \X Table
  BY <1>1, <1>3 DEF Types
<1> QED  BY <1>1, <1>5, <1>6, <1>7, <1>8, <1>9, <1>11, <1>12, <1>13, GrantStep


\* A table is taken away; its columns follow in a statement of their own.
LEMMA RevokeTableStep ==
    ASSUME AInv, NEW p \in Process, NEW u \in User, NEW t \in Table, RevokeTable(p, u, t)
    PROVE  AInv'
<1> DEFINE new == [proc[p] EXCEPT !.pc = "revoking", !.target = <<u, t>>]
<1>1. /\ proc[p].pc = "down" /\ Watch(p, new)
      /\ tableGrants' = [tableGrants EXCEPT ![<<u, t>>] = NoGrant]
      /\ revoked' = revoked \cup {<<u, t>>}
      /\ UNCHANGED <<columnGrants, requests, audit, crashes, halfDone>>
  BY DEF RevokeTable, At
<1>2. /\ Shaped(proc[p]) /\ proc[p].user = Nobody /\ proc[p].req = 0
      /\ proc[p].never = {} /\ proc[p].granted.columns = {}
  BY <1>1, DownKnown
<1>3. /\ DOMAIN new = Fields /\ new.pc = "revoking" /\ new.target = <<u, t>>
      /\ new.user = Nobody /\ new.req = 0 /\ new.never = {} /\ new.granted = proc[p].granted
  BY <1>2 DEF Shaped, Fields
<1> HIDE DEF new
<1>4. Shaped(new) /\ Types
  BY <1>2, <1>3 DEF AInv, Shaped
<1>5. NoGrant \in Grant /\ ~NoGrant.row
  BY DEF NoGrant, Grant
<1>6. /\ tableGrants' \in [User \X Table -> Grant]
      /\ \A x \in User \X Table : tableGrants'[x] = IF x = <<u, t>> THEN NoGrant ELSE tableGrants[x]
  BY <1>1, <1>4, <1>5 DEF Types
<1>7. ForceKept
  <2>1. SUFFICES ASSUME NEW q \in Request, InForce(q), <<q.user, q.target[1]>> # <<u, t>>
                 PROVE  InForce(q)'
    BY <1>1 DEF ForceKept
  <2>2. q.target[2] = "" => <<q.user, q.target[1]>> \in User \X Table
    BY RequestParts
  <2> QED  BY <1>1, <1>6, <2>1, <2>2 DEF InForce
<1>8. RowsKept
  <2>1. DOMAIN tableGrants = User \X Table /\ DOMAIN tableGrants' = User \X Table
    BY <1>4, <1>6 DEF Types
  <2> QED  BY <1>1, <1>5, <1>6, <2>1 DEF RowsKept
<1>9. ReadableKept
  <2>1. ASSUME NEW v \in User, NEW s \in Table, s \in ReadableTables(v), <<v, s>> # <<u, t>>
        PROVE  s \in ReadableTables(v)'
    <3>1. tableGrants'[<<v, s>>] = tableGrants[<<v, s>>]
      BY <1>6, <2>1
    <3> QED  BY <2>1, <3>1 DEF ReadableTables, checkTableAccess
  <2> QED  BY <1>1, <2>1 DEF ReadableKept
<1>10. /\ proc'[p].pc = "revoking" /\ proc'[p].req = 0 /\ proc'[p].target = <<u, t>>
       /\ proc'[p].granted.columns = {}
  <2>1. Steps(p, new)
    BY <1>1, <1>4, WatchSteps
  <2> QED  BY <1>2, <1>3, <2>1 DEF Steps, Follows
<1>11. WorkOK(proc[p])'
  BY <1>1, <1>10 DEF WorkOK, Requesting, Reviewing
<1>12. PlanOK(proc[p])'
  BY <1>10, PlanNone DEF Reading, Planned
<1>13. WorkStays(p)
  BY <1>2 DEF WorkStays
<1>14. columnGrants' \in [User \X Column -> Grant] /\ revoked' \subseteq User \X Table
  BY <1>1, <1>4 DEF Types
<1> QED  BY <1>1, <1>3, <1>4, <1>6, <1>7, <1>8, <1>9, <1>11, <1>12, <1>13, <1>14, GrantStep

\* The columns of the table that was taken away.
LEMMA RevokeColumnsStep ==
    ASSUME AInv, NEW p \in Process, RevokeColumns(p)
    PROVE  AInv'
<1> DEFINE new == AtLogin(proc[p].plans)
           of(x) == x[1] = proc[p].target[1] /\ x[2][1] = proc[p].target[2]
<1>1. /\ proc[p].pc = "revoking" /\ Watch(p, new)
      /\ columnGrants' = [x \in DOMAIN columnGrants |-> IF of(x) THEN NoGrant ELSE columnGrants[x]]
      /\ UNCHANGED <<tableGrants, requests, audit, crashes, halfDone, revoked>>
  BY DEF RevokeColumns, At, AtLogin
<1>2. proc[p].req = 0 /\ proc[p].target \in revoked
  BY <1>1, DownKnown DEF AInv, WorkKnown, WorkOK
<1>3. /\ DOMAIN new = Fields /\ new.user = Nobody /\ new.pc = "down" /\ new.req = 0
      /\ new.granted = NoSchema /\ new.never = {}
  BY AtLoginFields
<1> HIDE DEF new
<1>4. Shaped(new) /\ Types
  BY <1>3, NoSchemaFields DEF AInv, Shaped
<1>5. NoGrant \in Grant /\ ~NoGrant.row
  BY DEF NoGrant, Grant
<1>6. PICK u \in User, t \in Table : proc[p].target = <<u, t>>
  BY <1>2, <1>4 DEF Types
<1>7. \A x : of(x) <=> x[1] = u /\ x[2][1] = t
  <2>1. proc[p].target[1] = u /\ proc[p].target[2] = t
    BY <1>6, PairParts, Zenon
  <2> QED  BY <2>1
<1> HIDE DEF of
<1>8. /\ columnGrants' \in [User \X Column -> Grant]
      /\ \A x \in User \X Column : columnGrants'[x] = IF of(x) THEN NoGrant ELSE columnGrants[x]
  BY <1>1, <1>4, <1>5 DEF Types
<1>9. ForceKept
  <2>1. SUFFICES ASSUME NEW q \in Request, InForce(q), <<q.user, q.target[1]>> \notin revoked
                 PROVE  InForce(q)'
    BY <1>1 DEF ForceKept
  <2>2. CASE q.target[2] = ""
    BY <1>1, <2>1, <2>2 DEF InForce
  <2>3. CASE q.target[2] # ""
    <3>1. <<q.user, q.target>> \in User \X Column
      BY <2>3, RequestParts
    <3>2. ~of(<<q.user, q.target>>)
      <4>1. SUFFICES ASSUME of(<<q.user, q.target>>) PROVE FALSE
        OBVIOUS
      <4>2. q.user = u /\ q.target[1] = t
        BY <1>7, <4>1, PairParts, Zenon
      <4> QED  BY <1>2, <1>6, <2>1, <4>2, Zenon
    <3> QED  BY <1>8, <2>1, <2>3, <3>1, <3>2 DEF InForce
  <2> QED  BY <2>2, <2>3
<1>10. RowsKept
  <2>1. DOMAIN columnGrants = User \X Column /\ DOMAIN columnGrants' = User \X Column
    BY <1>4, <1>8 DEF Types
  <2> QED  BY <1>1, <1>5, <1>8, <2>1 DEF RowsKept
<1>11. ReadableKept
  BY <1>1, SameReadable
<1>12. proc'[p].pc = "down" /\ proc'[p].req = 0 /\ proc'[p].granted.columns = {}
  <2>1. Steps(p, new)
    BY <1>1, <1>4, WatchSteps
  <2> QED  BY <1>3, <2>1, NoSchemaFields DEF Steps, Follows
<1>13. WorkOK(proc[p])' /\ PlanOK(proc[p])'
  BY <1>12, WorkNone, PlanNone DEF Requesting, Reading, Planned
<1>14. WorkStays(p)
  BY <1>2 DEF WorkStays
<1>15. tableGrants' \in [User \X Table -> Grant] /\ revoked' \subseteq User \X Table
  BY <1>1, <1>4 DEF Types
<1> QED  BY <1>1, <1>3, <1>4, <1>8, <1>9, <1>10, <1>11, <1>13, <1>14, <1>15, GrantStep

\* A column is taken away.
LEMMA RevokeColumnStep ==
    ASSUME AInv, NEW p \in Process, NEW u \in User, NEW c \in Column, RevokeColumn(p, u, c)
    PROVE  AInv'
<1>1. /\ proc[p].pc = "down" /\ Watch(p, proc[p])
      /\ columnGrants' = [columnGrants EXCEPT ![<<u, c>>] = NoGrant]
      /\ revoked' = revoked \cup {<<u, c[1]>>}
      /\ UNCHANGED <<tableGrants, requests, audit, crashes, halfDone>>
  BY DEF RevokeColumn, At
<1>2. /\ Shaped(proc[p]) /\ proc[p].user = Nobody /\ proc[p].req = 0
      /\ proc[p].never = {} /\ proc[p].granted.columns = {}
  BY <1>1, DownKnown
<1>3. Types
  BY DEF AInv
<1>4. NoGrant \in Grant /\ ~NoGrant.row
  BY DEF NoGrant, Grant
<1>5. /\ columnGrants' \in [User \X Column -> Grant]
      /\ \A x \in User \X Column : columnGrants'[x] = IF x = <<u, c>> THEN NoGrant ELSE columnGrants[x]
  BY <1>1, <1>3, <1>4 DEF Types
<1>6. ForceKept
  <2>1. SUFFICES ASSUME NEW q \in Request, InForce(q), <<q.user, q.target[1]>> \notin revoked'
                 PROVE  InForce(q)'
    BY DEF ForceKept
  <2>2. CASE q.target[2] = ""
    BY <1>1, <2>1, <2>2 DEF InForce
  <2>3. CASE q.target[2] # ""
    <3>1. <<q.user, q.target>> \in User \X Column
      BY <2>3, RequestParts
    <3>2. <<q.user, q.target>> # <<u, c>>
      BY <1>1, <2>1
    <3> QED  BY <1>5, <2>1, <2>3, <3>1, <3>2 DEF InForce
  <2> QED  BY <2>2, <2>3
<1>7. RowsKept
  <2>1. DOMAIN columnGrants = User \X Column /\ DOMAIN columnGrants' = User \X Column
    BY <1>3, <1>5 DEF Types
  <2> QED  BY <1>1, <1>4, <1>5, <2>1 DEF RowsKept
<1>8. ReadableKept
  BY <1>1, SameReadable
<1>9. proc'[p].pc = "down" /\ proc'[p].req = 0 /\ proc'[p].granted.columns = {}
  <2>1. Steps(p, proc[p])
    BY <1>1, <1>2, <1>3, WatchSteps
  <2> QED  BY <1>1, <1>2, <2>1 DEF Steps, Follows
<1>10. WorkOK(proc[p])' /\ PlanOK(proc[p])'
  BY <1>9, WorkNone, PlanNone DEF Requesting, Reading, Planned
<1>11. WorkStays(p)
  BY <1>2 DEF WorkStays
<1>12. tableGrants' \in [User \X Table -> Grant] /\ revoked' \subseteq User \X Table
  <2>1. c[1] \in Table
    BY AccessAssumption
  <2> QED  BY <1>1, <1>3, <2>1 DEF Types
<1> QED  BY <1>1, <1>2, <1>5, <1>6, <1>7, <1>8, <1>10, <1>11, <1>12, GrantStep

\* The administrator's script.
LEMMA ScriptSteps ==
    ASSUME AInv, NEW p \in Process, Script(p)
    PROVE  AInv'
<1>1. CASE \E u \in User, a \in Asked : RevokeTable(p, u, a[1])
  <2>1. PICK u \in User, a \in Asked : RevokeTable(p, u, a[1])
    BY <1>1
  <2>2. a[1] \in Table
    <3>1. a \in Target
      BY AccessAssumption
    <3> QED  BY <3>1, TargetParts
  <2> QED  BY <2>1, <2>2, RevokeTableStep
<1>2. CASE RevokeColumns(p)
  BY <1>2, RevokeColumnsStep
<1>3. CASE \E u \in User, c \in Asked \cap Column : RevokeColumn(p, u, c)
  BY <1>3, RevokeColumnStep
<1> QED  BY <1>1, <1>2, <1>3 DEF Script


-----------------------------------------------------------------------------
(* Requests and reviews.                                                   *)

\* Requests change and grants do not; what is owed is left to the caller.
LEMMA RequestStep ==
    ASSUME AInv, NEW p \in Process, NEW new, Shaped(new), Become(p, new),
           UNCHANGED <<tableGrants, columnGrants, revoked>>, Onward,
           new.user = proc[p].user, new.never = proc[p].never, new.granted = proc[p].granted,
           proc[p].pc \notin Reading, new.pc \notin Reading, new.pc \notin Planned,
           WorkOK(proc[p])', GrantOwed', LogOwed'
    PROVE  AInv'
<1>1. Types /\ WorkKnown /\ GrantsJustified /\ NeverNow /\ PlansOK /\ NeverOK(proc[p]) /\ ReadOK(proc[p])
  BY PlansSplit DEF AInv, NeverNow, GrantsRead
<1>2. /\ Steps(p, new) /\ proc'[p] = new
      /\ \A q \in Process \ {p} : proc'[q] = proc[q]
  BY <1>1, BecomeSteps
<1>3. Types'
  BY <1>1, <1>2 DEF Types, Steps, Onward
<1>4. WorkKnown'
  BY <1>1, <1>2, WorkKept
<1>5. GrantsJustified'
  <2>1. RowsKept
    BY DEF RowsKept
  <2> QED  BY <1>1, <2>1, JustifiedKept
<1>6. NeverNow'
  BY <1>1, <1>2, NeverBecome DEF NeverOK
<1>7. PlansOK'
  <2>1. ReadableKept
    BY SameReadable
  <2>2. proc[p].granted.columns = {}
    BY <1>1 DEF ReadOK
  <2>3. PlanOK(proc[p])'
    BY <1>2, <2>2, PlanNone
  <2> QED  BY <1>1, <1>2, <2>1, <2>3, PlansKept
<1>8. (GrantsRead /\ PlannedWithinGrants /\ SnapshotSeen)'
  BY <1>7 DEF PlansOK, PlanOK, GrantsRead, PlannedWithinGrants, SnapshotSeen, WithinOK, SeenOK, U, Planned
<1> QED  BY <1>3, <1>4, <1>5, <1>6, <1>8 DEF AInv

\* A new request owes the row of the log that says so.
LEMMA requestAccessStep ==
    ASSUME AInv, NEW p \in Process, NEW target \in Target, requestAccess(p, target)
    PROVE  AInv'
<1> DEFINE new == [proc[p] EXCEPT !.pc = "requested", !.req = Len(requests) + 1]
           q == [user |-> proc[p].user, target |-> target, status |-> "pending"]
           n == Len(requests) + 1
<1>1. /\ proc[p].pc = "idle" /\ Become(p, new) /\ requests' = Append(requests, q)
      /\ UNCHANGED <<tableGrants, columnGrants, audit, crashes, halfDone, revoked>>
  BY DEF requestAccess, At, U
<1>2. Types /\ Shaped(proc[p]) /\ WorkOK(proc[p]) /\ proc[p].user \in User
  BY <1>1 DEF AInv, Types, Shaped, WorkKnown
<1>3. /\ DOMAIN new = Fields /\ new.pc = "requested" /\ new.req = n /\ new.user = proc[p].user
      /\ new.never = proc[p].never /\ new.granted = proc[p].granted
  BY <1>2 DEF Shaped, Fields
<1> HIDE DEF new
<1>4. Shaped(new)
  BY <1>2, <1>3, AccessAssumption DEF Shaped, Nobody
<1>5. q \in Request /\ q.status = "pending"
  BY <1>2 DEF Request, Statuses
<1> HIDE DEF q
<1>6. /\ requests' \in Seq(Request) /\ DOMAIN requests' = DOMAIN requests \cup {n}
      /\ n \notin DOMAIN requests /\ n # 0 /\ requests'[n] = q
      /\ \A r \in DOMAIN requests : requests'[r] = requests[r] /\ r # 0
  BY <1>1, <1>2, <1>5 DEF Types
<1> HIDE DEF n
<1>7. Onward
  BY <1>1, <1>2, <1>6 DEF Types, Onward
<1>8. Steps(p, new) /\ proc'[p] = new
  BY <1>1, <1>2, <1>4, BecomeSteps
<1>9. WorkOK(proc[p])'
  BY <1>3, <1>6, <1>8 DEF WorkOK, Requesting, Reviewing
<1>10. proc[p].req = 0
  BY <1>1, <1>2 DEF WorkOK, Requesting
<1>11. \A r, pcs : r # 0 /\ r \notin halfDone' /\ WorkingAt(r, pcs) => WorkingAt(r, pcs)'
  BY <1>8, <1>10, WorkingKept DEF WorkStays
<1>12. GrantOwed'
  <2>1. SUFFICES ASSUME NEW r \in DOMAIN requests', requests'[r].status = "approved", r \notin halfDone',
                        <<requests'[r].user, requests'[r].target[1]>> \notin revoked'
                 PROVE  InForce(requests[r])' \/ WorkingAt(r, {"grant"})'
    BY DEF GrantOwed
  <2>2. r \in DOMAIN requests /\ requests'[r] = requests[r] /\ r # 0
    BY <1>5, <1>6, <2>1
  <2>3. InForce(requests[r]) \/ WorkingAt(r, {"grant"})
    BY <1>1, <2>1, <2>2 DEF AInv, GrantOwed
  <2>4. InForce(requests[r]) => InForce(requests[r])'
    BY <1>1, <2>2 DEF InForce
  <2> QED  BY <1>11, <2>1, <2>2, <2>3, <2>4
<1>13. LogOwed'
  <2>1. SUFFICES ASSUME NEW r \in DOMAIN requests', r \notin halfDone'
                 PROVE  /\ Logged("requested", r)' \/ WorkingAt(r, {"requested"})'
                        /\ requests'[r].status = "approved" =>
                                Logged("approved", r)' \/ WorkingAt(r, {"grant", "approved"})'
                        /\ requests'[r].status = "denied" => Logged("denied", r)' \/ WorkingAt(r, {"denied"})'
    BY DEF LogOwed
  <2>2. CASE r = n
    BY <1>3, <1>5, <1>6, <1>8, <2>2 DEF WorkingAt
  <2>3. CASE r # n
    <3>1. r \in DOMAIN requests /\ requests'[r] = requests[r] /\ r # 0 /\ r \notin halfDone
      BY <1>1, <1>6, <2>1, <2>3
    <3>2. \A a : Logged(a, r) => Logged(a, r)'
      BY <1>1 DEF Logged
    <3>3. LogOwed
      BY DEF AInv
    <3> QED  BY <1>11, <2>1, <3>1, <3>2, <3>3 DEF LogOwed
  <2> QED  BY <2>2, <2>3
<1>14. /\ "idle" \notin Reading /\ "requested" \notin Reading /\ "requested" \notin Planned
  BY DEF Reading, Planned
<1> QED  BY <1>1, <1>3, <1>4, <1>7, <1>9, <1>12, <1>13, <1>14, RequestStep


\* Somebody else at work on a request still is.
LEMMA WorkingOthers ==
    ASSUME NEW p \in Process, NEW new, Steps(p, new), NEW r, NEW pcs, WorkingAt(r, pcs),
           proc[p].req # r \/ proc[p].pc \notin pcs
    PROVE  WorkingAt(r, pcs)'
<1>1. PICK q \in Process : proc[q].req = r /\ proc[q].pc \in pcs
  BY DEF WorkingAt
<1>2. proc'[q].req = proc[q].req /\ proc'[q].pc = proc[q].pc
  BY <1>1 DEF Steps, Follows
<1> QED  BY <1>1, <1>2 DEF WorkingAt

\* A command ends with the row of the audit log that was owed.
LEMMA LoggedStep ==
    ASSUME AInv, NEW p \in Process, NEW pc \in {"requested", "approved", "denied"}, proc[p].pc = pc,
           Log(Entry(pc, U(p), proc[p].req)), Become(p, [proc[p] EXCEPT !.pc = "idle", !.req = 0]),
           UNCHANGED <<tableGrants, columnGrants, requests, crashes, halfDone, revoked>>
    PROVE  AInv'
<1> DEFINE new == [proc[p] EXCEPT !.pc = "idle", !.req = 0]
<1>1. Types /\ Shaped(proc[p]) /\ WorkOK(proc[p]) /\ proc[p].user \in User
  BY DEF AInv, Types, Shaped, WorkKnown
<1>2. /\ DOMAIN new = Fields /\ new.pc = "idle" /\ new.req = 0 /\ new.user = proc[p].user
      /\ new.never = proc[p].never /\ new.granted = proc[p].granted
  BY <1>1 DEF Shaped, Fields
<1>3. Become(p, new)
  OBVIOUS
<1> HIDE DEF new
<1>4. Shaped(new)
  BY <1>1, <1>2, AccessAssumption DEF Shaped, Nobody
<1>5. Steps(p, new) /\ proc'[p] = new
  BY <1>1, <1>3, <1>4, BecomeSteps
<1>6. Onward
  BY <1>1, SameOnward
<1>7. WorkOK(proc[p])'
  BY <1>2, <1>5, WorkNone DEF Requesting
<1> PICK k : k = proc[p].req
  OBVIOUS
<1>8. /\ \A a, r : Logged(a, r) => Logged(a, r)'
      /\ Logged(pc, k)'
  <2>1. PICK e : e = Entry(pc, U(p), k) /\ audit' = audit \cup {e}
    BY DEF Log
  <2>2. e.action = pc /\ e.id = k
    BY <2>1 DEF Entry
  <2> QED  BY <2>1, <2>2 DEF Logged
<1>9. \A r, pcs : WorkingAt(r, pcs) => WorkingAt(r, pcs)' \/ (k = r /\ pc \in pcs)
  BY <1>5, WorkingOthers
<1>10. GrantOwed'
  <2>1. SUFFICES ASSUME NEW r \in DOMAIN requests, requests[r].status = "approved", r \notin halfDone,
                        <<requests[r].user, requests[r].target[1]>> \notin revoked
                 PROVE  InForce(requests[r])' \/ WorkingAt(r, {"grant"})'
    BY DEF GrantOwed
  <2>2. InForce(requests[r]) \/ WorkingAt(r, {"grant"})
    BY <2>1 DEF AInv, GrantOwed
  <2>3. InForce(requests[r]) => InForce(requests[r])'
    BY DEF InForce
  <2>4. pc \notin {"grant"}
    OBVIOUS
  <2> QED  BY <1>9, <2>2, <2>3, <2>4
<1>11. LogOwed'
  <2>1. SUFFICES ASSUME NEW r \in DOMAIN requests, r \notin halfDone
                 PROVE  /\ Logged("requested", r)' \/ WorkingAt(r, {"requested"})'
                        /\ requests[r].status = "approved" =>
                                Logged("approved", r)' \/ WorkingAt(r, {"grant", "approved"})'
                        /\ requests[r].status = "denied" => Logged("denied", r)' \/ WorkingAt(r, {"denied"})'
    BY DEF LogOwed
  <2>2. LogOwed
    BY DEF AInv
  <2>3. Logged("requested", r)' \/ WorkingAt(r, {"requested"})'
    BY <1>8, <1>9, <2>1, <2>2 DEF LogOwed
  <2>4. ASSUME requests[r].status = "approved"
        PROVE  Logged("approved", r)' \/ WorkingAt(r, {"grant", "approved"})'
    <3>1. Logged("approved", r) \/ WorkingAt(r, {"grant", "approved"})
      BY <2>1, <2>2, <2>4 DEF LogOwed
    <3>2. pc \in {"grant", "approved"} => pc = "approved"
      OBVIOUS
    <3> QED  BY <1>8, <1>9, <3>1, <3>2
  <2>5. requests[r].status = "denied" => Logged("denied", r)' \/ WorkingAt(r, {"denied"})'
    BY <1>8, <1>9, <2>1, <2>2 DEF LogOwed
  <2> QED  BY <2>3, <2>4, <2>5
<1>12. pc \notin Reading /\ "idle" \notin Reading /\ "idle" \notin Planned
  BY DEF Reading, Planned
<1> QED  BY <1>1, <1>2, <1>3, <1>4, <1>6, <1>7, <1>10, <1>11, <1>12, RequestStep

\* An administrator takes up a pending request.
LEMMA ReviewStep ==
    ASSUME AInv, NEW p \in Process, NEW r \in DOMAIN requests, NEW d \in {"approve", "deny"}, Review(p, r, d)
    PROVE  AInv'
<1> DEFINE new == [proc[p] EXCEPT !.pc = d, !.req = r, !.target = requests[r].target]
<1>1. /\ proc[p].pc = "idle" /\ Become(p, new)
      /\ UNCHANGED <<tableGrants, columnGrants, requests, audit, crashes, halfDone, revoked>>
  BY DEF Review, At
<1>2. Types /\ Shaped(proc[p]) /\ WorkOK(proc[p]) /\ proc[p].user \in User
  BY <1>1 DEF AInv, Types, Shaped, WorkKnown
<1>3. /\ DOMAIN new = Fields /\ new.pc = d /\ new.req = r /\ new.user = proc[p].user
      /\ new.target = requests[r].target
      /\ new.never = proc[p].never /\ new.granted = proc[p].granted
  BY <1>2 DEF Shaped, Fields
<1> HIDE DEF new
<1>4. Shaped(new)
  BY <1>2, <1>3, AccessAssumption DEF Shaped, Nobody
<1>5. Steps(p, new) /\ proc'[p] = new
  BY <1>1, <1>2, <1>4, BecomeSteps
<1>6. Onward
  BY <1>1, <1>2, SameOnward
<1>7. WorkOK(proc[p])'
  BY <1>1, <1>3, <1>5 DEF WorkOK, Requesting, Reviewing
<1>8. GrantOwed' /\ LogOwed'
  <2>1. WorkStays(p)
    BY <1>1, <1>2 DEF WorkStays, WorkOK, Requesting
  <2>2. ForceKept
    BY <1>1 DEF ForceKept, InForce
  <2>3. GrantOwed /\ LogOwed
    BY DEF AInv
  <2> QED  BY <1>1, <1>2, <1>5, <1>6, <2>1, <2>2, <2>3, OwedKept
<1>9. d \notin Reading /\ "idle" \notin Reading /\ d \notin Planned
  BY DEF Reading, Planned
<1> QED  BY <1>1, <1>3, <1>4, <1>6, <1>7, <1>8, <1>9, RequestStep


\* The decision is written; a second decision on the same request is on record.
LEMMA MarkStep ==
    ASSUME AInv, NEW p \in Process, MarkApproved(p) \/ MarkDenied(p)
    PROVE  AInv'
<1>1. PICK d \in {"approve", "deny"}, s \in {"approved", "denied"}, pc \in {"grant", "denied"} :
        /\ Mark(p, d, s, pc)
        /\ (s = "approved" /\ pc = "grant") \/ (s = "denied" /\ pc = "denied")
  BY DEF MarkApproved, MarkDenied
<1> DEFINE new == [proc[p] EXCEPT !.pc = pc]
<1>2. Types /\ Shaped(proc[p]) /\ WorkOK(proc[p])
  BY DEF AInv, Types, WorkKnown
<1>3. PICK k \in DOMAIN requests : k = proc[p].req
  BY <1>1, <1>2 DEF Mark, At, WorkOK, Requesting
<1>4. /\ proc[p].pc = d /\ Become(p, new)
      /\ requests' = [requests EXCEPT ![k].status = s]
      /\ halfDone' = IF requests[k].status = "pending" THEN halfDone ELSE halfDone \cup {k}
      /\ UNCHANGED <<tableGrants, columnGrants, audit, crashes, revoked>>
  BY <1>1, <1>3 DEF Mark, At, Goto
<1>5. /\ DOMAIN new = Fields /\ new.pc = pc /\ new.req = k /\ new.user = proc[p].user
      /\ new.target = proc[p].target
      /\ new.never = proc[p].never /\ new.granted = proc[p].granted
  BY <1>2, <1>3 DEF Shaped, Fields
<1> HIDE DEF new
<1>6. Shaped(new) /\ proc[p].user \in User
  BY <1>2, <1>4, <1>5, AccessAssumption DEF Shaped, Nobody
<1>7. Steps(p, new) /\ proc'[p] = new
  BY <1>2, <1>4, <1>6, BecomeSteps
<1>8. requests[k] \in Request /\ requests \in Seq(Request)
  BY <1>2 DEF Types
<1>9. /\ [requests[k] EXCEPT !.status = s] \in Request
      /\ [requests[k] EXCEPT !.status = s].status = s
      /\ [requests[k] EXCEPT !.status = s].user = requests[k].user
      /\ [requests[k] EXCEPT !.status = s].target = requests[k].target
  BY <1>8 DEF Request, Statuses
<1>10. /\ requests' \in Seq(Request) /\ DOMAIN requests' = DOMAIN requests
       /\ requests'[k] = [requests[k] EXCEPT !.status = s]
       /\ \A r \in DOMAIN requests : r # k => requests'[r] = requests[r]
  BY <1>4, <1>8, <1>9
<1>11. requests'[k].status = s /\ requests'[k].user = requests[k].user
       /\ requests'[k].target = requests[k].target
  BY <1>9, <1>10
<1>12. Onward
  BY <1>2, <1>4, <1>10, <1>11 DEF Types, Onward
<1>13. WorkOK(proc[p])'
  <2>1. proc[p].target = requests[k].target
    BY <1>2, <1>3, <1>4 DEF WorkOK, Reviewing, Requesting
  <2> QED  BY <1>1, <1>5, <1>7, <1>10, <1>11, <2>1 DEF WorkOK, Requesting, Reviewing
<1>14. \A r, pcs : WorkingAt(r, pcs) /\ d \notin pcs => WorkingAt(r, pcs)'
  BY <1>4, <1>7, WorkingOthers
<1>15. \A pcs : pc \in pcs => WorkingAt(k, pcs)'
  BY <1>5, <1>7 DEF WorkingAt
<1>16. GrantOwed'
  <2>1. SUFFICES ASSUME NEW r \in DOMAIN requests', requests'[r].status = "approved", r \notin halfDone',
                        <<requests'[r].user, requests'[r].target[1]>> \notin revoked'
                 PROVE  InForce(requests[r])' \/ WorkingAt(r, {"grant"})'
    BY DEF GrantOwed
  <2>2. CASE r = k
    BY <1>1, <1>11, <1>15, <2>1, <2>2
  <2>3. CASE r # k
    <3>1. r \in DOMAIN requests /\ requests'[r] = requests[r] /\ r \notin halfDone
      BY <1>4, <1>10, <2>1, <2>3
    <3>2. InForce(requests[r]) \/ WorkingAt(r, {"grant"})
      BY <1>4, <2>1, <3>1 DEF AInv, GrantOwed
    <3>3. InForce(requests[r]) => InForce(requests[r])'
      BY <1>4, <3>1 DEF InForce
    <3>4. d \notin {"grant"}
      OBVIOUS
    <3> QED  BY <1>14, <3>2, <3>3, <3>4
  <2> QED  BY <2>2, <2>3
<1>17. LogOwed'
  <2>1. SUFFICES ASSUME NEW r \in DOMAIN requests', r \notin halfDone'
                 PROVE  /\ Logged("requested", r)' \/ WorkingAt(r, {"requested"})'
                        /\ requests'[r].status = "approved" =>
                                Logged("approved", r)' \/ WorkingAt(r, {"grant", "approved"})'
                        /\ requests'[r].status = "denied" => Logged("denied", r)' \/ WorkingAt(r, {"denied"})'
    BY DEF LogOwed
  <2>2. /\ \A a : Logged(a, r) => Logged(a, r)'
        /\ LogOwed /\ r \in DOMAIN requests /\ r \notin halfDone
    BY <1>4, <1>10, <2>1 DEF Logged, AInv
  <2>3. d \notin {"requested"} /\ d \notin {"grant", "approved"} /\ d \notin {"denied"}
    OBVIOUS
  <2>4. Logged("requested", r)' \/ WorkingAt(r, {"requested"})'
    BY <1>14, <2>2, <2>3 DEF LogOwed
  <2>5. CASE r = k
    BY <1>1, <1>11, <1>15, <2>4, <2>5
  <2>6. CASE r # k
    <3>1. requests'[r] = requests[r]
      BY <1>10, <2>2, <2>6
    <3> QED  BY <1>14, <2>2, <2>3, <2>4, <3>1 DEF LogOwed
  <2> QED  BY <2>5, <2>6
<1>18. d \notin Reading /\ pc \notin Reading /\ pc \notin Planned
  BY DEF Reading, Planned
<1> QED  BY <1>4, <1>5, <1>6, <1>7, <1>12, <1>13, <1>16, <1>17, <1>18, RequestStep


\* The grant that was owed is written, for the user who asked.
LEMMA ApproveGrantStep ==
    ASSUME AInv, NEW p \in Process, ApproveGrant(p)
    PROVE  AInv'
<1> DEFINE new == [proc[p] EXCEPT !.pc = "approved"]
<1>1. Types /\ Shaped(proc[p]) /\ WorkOK(proc[p]) /\ NeverNow /\ ReadOK(proc[p])
  BY DEF AInv, Types, WorkKnown, GrantsRead
<1>2. proc[p].pc = "grant"
  BY DEF ApproveGrant, At
<1>3. PICK k \in DOMAIN requests : k = proc[p].req
  BY <1>1, <1>2 DEF WorkOK, Requesting
<1>4. PICK q \in Request : q = requests[k]
  BY <1>1 DEF Types
<1>5. PICK u \in User, t \in Target : q.user = u /\ q.target = t /\ proc[p].target = t
  <2>1. proc[p].target = q.target
    BY <1>1, <1>2, <1>3, <1>4 DEF WorkOK, Requesting, Reviewing
  <2> QED  BY <2>1, RequestParts
<1>6. /\ Watch(p, new)
      /\ IF t[2] = ""
         THEN tableGrants' = [tableGrants EXCEPT ![<<u, t[1]>>] = FullGrant] /\ UNCHANGED columnGrants
         ELSE columnGrants' = [columnGrants EXCEPT ![<<u, t>>] = FullGrant] /\ UNCHANGED tableGrants
      /\ UNCHANGED <<requests, audit, crashes, halfDone, revoked>>
  BY <1>3, <1>4, <1>5 DEF ApproveGrant
<1>7. /\ DOMAIN new = Fields /\ new.pc = "approved" /\ new.req = k /\ new.user = proc[p].user
      /\ new.target = t /\ new.never = proc[p].never /\ new.granted = proc[p].granted
  BY <1>1, <1>3, <1>5 DEF Shaped, Fields
<1> HIDE DEF new
<1>8. Shaped(new) /\ new.user # Nobody
  BY <1>1, <1>2, <1>7, AccessAssumption DEF Shaped, Nobody
<1>9. /\ Steps(p, new)
      /\ \A w \in Process, v \in User : proc'[w].user = v => proc'[w].never \subseteq Refused(v)'
  BY <1>1, <1>6, <1>8, WatchSteps
<1>10. proc'[p].pc = "approved" /\ proc'[p].req = k /\ proc'[p].target = t
       /\ proc'[p].granted = proc[p].granted
  BY <1>7, <1>9 DEF Steps, Follows
<1>11. FullGrant \in Grant /\ FullGrant.read
  BY DEF FullGrant, Grant
<1>12. /\ t[1] \in Table
       /\ t[2] = "" => t = <<t[1], "">>
       /\ t[2] # "" => t \in Column
  BY TargetParts
<1>13. /\ tableGrants' \in [User \X Table -> Grant]
       /\ \A x \in User \X Table :
            tableGrants'[x] = IF t[2] = "" /\ x = <<u, t[1]>> THEN FullGrant ELSE tableGrants[x]
  <2>1. CASE t[2] = ""
    BY <1>1, <1>6, <1>11, <1>12, <2>1 DEF Types
  <2>2. CASE t[2] # ""
    BY <1>1, <1>6, <2>2 DEF Types
  <2> QED  BY <2>1, <2>2
<1>14. /\ columnGrants' \in [User \X Column -> Grant]
       /\ \A x \in User \X Column :
            columnGrants'[x] = IF t[2] # "" /\ x = <<u, t>> THEN FullGrant ELSE columnGrants[x]
  <2>1. CASE t[2] = ""
    BY <1>1, <1>6, <2>1 DEF Types
  <2>2. CASE t[2] # ""
    BY <1>1, <1>6, <1>11, <1>12, <2>2 DEF Types
  <2> QED  BY <2>1, <2>2
<1>15. Onward
  BY <1>1, <1>6, SameOnward
<1>16. Types'
  BY <1>1, <1>6, <1>9, <1>13, <1>14 DEF Types, Steps
<1>17. WorkKnown'
  <2>1. requests[k].status = "approved" \/ k \in halfDone
    BY <1>1, <1>2, <1>3 DEF WorkOK
  <2>2. WorkOK(proc[p])'
    BY <1>4, <1>5, <1>6, <1>10, <2>1 DEF WorkOK, Requesting, Reviewing
  <2>3. WorkKnown
    BY DEF AInv
  <2> QED  BY <1>9, <1>15, <2>2, <2>3, WorkKept
<1>18. \A v \in Request : InForce(v) => InForce(v)'
  <2>1. SUFFICES ASSUME NEW v \in Request, InForce(v) PROVE InForce(v)'
    OBVIOUS
  <2>2. /\ v.target[2] = "" => <<v.user, v.target[1]>> \in User \X Table
        /\ v.target[2] # "" => <<v.user, v.target>> \in User \X Column
    BY RequestParts
  <2> QED  BY <1>13, <1>14, <2>1, <2>2 DEF InForce
<1>19. InForce(q)'
  <2>1. CASE t[2] = ""
    <3>1. tableGrants'[<<u, t[1]>>] = FullGrant
      BY <1>12, <1>13, <2>1
    <3> QED  BY <1>5, <2>1, <3>1 DEF InForce
  <2>2. CASE t[2] # ""
    <3>1. columnGrants'[<<u, t>>] = FullGrant
      BY <1>12, <1>14, <2>2
    <3> QED  BY <1>5, <2>2, <3>1 DEF InForce
  <2> QED  BY <2>1, <2>2
<1>20. \A r, pcs : WorkingAt(r, pcs) => WorkingAt(r, pcs)' \/ (k = r /\ "grant" \in pcs)
  BY <1>2, <1>3, <1>9, WorkingOthers
<1>21. GrantOwed'
  <2>1. SUFFICES ASSUME NEW r \in DOMAIN requests, requests[r].status = "approved", r \notin halfDone,
                        <<requests[r].user, requests[r].target[1]>> \notin revoked
                 PROVE  InForce(requests[r])' \/ WorkingAt(r, {"grant"})'
    BY <1>6 DEF GrantOwed
  <2>2. InForce(requests[r]) \/ WorkingAt(r, {"grant"})
    BY <2>1 DEF AInv, GrantOwed
  <2>3. PICK v \in Request : v = requests[r] /\ v = requests'[r]
    <3>1. requests[r] \in Request
      BY <1>1 DEF Types
    <3>2. requests' = requests
      BY <1>6
    <3> QED  BY <3>1, <3>2
  <2>4. r = k => InForce(v)'
    BY <1>4, <1>19, <2>3
  <2>5. InForce(v) => InForce(v)'
    BY <1>18
  <2>6. InForce(v)' => InForce(requests[r])'
    BY <2>3 DEF InForce
  <2>7. InForce(requests[r]) => InForce(v)
    BY <2>3
  <2> QED  BY <1>20, <2>2, <2>4, <2>5, <2>6, <2>7
<1>22. LogOwed'
  <2>1. SUFFICES ASSUME NEW r \in DOMAIN requests, r \notin halfDone
                 PROVE  /\ Logged("requested", r)' \/ WorkingAt(r, {"requested"})'
                        /\ requests[r].status = "approved" =>
                                Logged("approved", r)' \/ WorkingAt(r, {"grant", "approved"})'
                        /\ requests[r].status = "denied" => Logged("denied", r)' \/ WorkingAt(r, {"denied"})'
    BY <1>6 DEF LogOwed
  <2>2. (\A a : Logged(a, r) => Logged(a, r)') /\ LogOwed
    BY <1>6 DEF Logged, AInv
  <2>3. WorkingAt(k, {"grant", "approved"})'
    BY <1>10 DEF WorkingAt
  <2>4. "grant" \notin {"requested"} /\ "grant" \notin {"denied"}
    OBVIOUS
  <2> QED  BY <1>20, <2>1, <2>2, <2>3, <2>4 DEF LogOwed
<1>23. GrantsJustified'
  <2>1. /\ \A x \in User \X Table :
            tableGrants[x].row => SeedTable[x].row \/ x[1] \in Admins \/ Decided(x[1], <<x[2], "">>)
        /\ \A x \in User \X Column :
            columnGrants[x].row => SeedColumn[x].row \/ Decided(x[1], x[2])
    <3>1. GrantsJustified /\ DOMAIN tableGrants = User \X Table /\ DOMAIN columnGrants = User \X Column
      BY <1>1 DEF AInv, Types
    <3> QED  BY <3>1, Zenon DEF GrantsJustified, Decided
  <2>2. Decided(u, t)
    <3>1. requests[k].status = "approved" \/ k \in halfDone
      BY <1>1, <1>2, <1>3 DEF WorkOK
    <3> QED  BY <1>4, <1>5, <3>1 DEF Decided
  <2>3. \A v, target : Decided(v, target) => Decided(v, target)'
    BY <1>15, DecidedKept
  <2>4. ASSUME NEW x \in User \X Table, tableGrants'[x].row
        PROVE  SeedTable[x].row \/ x[1] \in Admins \/ Decided(x[1], <<x[2], "">>)'
    <3>1. CASE t[2] = "" /\ x = <<u, t[1]>>
      <4>1. x[1] = u /\ <<x[2], "">> = t
        BY <1>12, <3>1
      <4> QED  BY <2>2, <2>3, <4>1
    <3>2. CASE ~(t[2] = "" /\ x = <<u, t[1]>>)
      <4>1. tableGrants[x].row
        BY <1>13, <2>4, <3>2
      <4> QED  BY <2>1, <2>3, <4>1
    <3> QED  BY <3>1, <3>2
  <2>5. ASSUME NEW x \in User \X Column, columnGrants'[x].row
        PROVE  SeedColumn[x].row \/ Decided(x[1], x[2])'
    <3>1. CASE t[2] # "" /\ x = <<u, t>>
      <4>1. x[1] = u /\ x[2] = t
        BY <3>1
      <4> QED  BY <2>2, <2>3, <4>1
    <3>2. CASE ~(t[2] # "" /\ x = <<u, t>>)
      <4>1. columnGrants[x].row
        BY <1>14, <2>5, <3>2
      <4> QED  BY <2>1, <2>3, <4>1
    <3> QED  BY <3>1, <3>2
  <2>6. DOMAIN tableGrants' = User \X Table /\ DOMAIN columnGrants' = User \X Column
    BY <1>13, <1>14
  <2> QED  BY <2>4, <2>5, <2>6 DEF GrantsJustified, Decided
<1>24. NeverNow'
  BY <1>1, <1>8, <1>9, NeverWatch
<1>25. PlansOK'
  <2>1. ReadableKept
    <3>1. ASSUME NEW v \in User, NEW s \in Table, s \in ReadableTables(v)
          PROVE  s \in ReadableTables(v)'
      <4>1. tableGrants'[<<v, s>>] = tableGrants[<<v, s>>] \/ tableGrants'[<<v, s>>] = FullGrant
        BY <1>13
      <4> QED  BY <1>11, <3>1, <4>1 DEF ReadableTables, checkTableAccess, May
    <3> QED  BY <1>6, <3>1 DEF ReadableKept
  <2>2. proc[p].granted.columns = {}
    BY <1>1, <1>2 DEF ReadOK, Reading
  <2>3. PlanOK(proc[p])'
    BY <1>10, <2>2, PlanNone DEF Reading, Planned
  <2>4. PlansOK
    BY PlansSplit DEF AInv
  <2> QED  BY <1>1, <1>9, <2>1, <2>3, <2>4, PlansKept
<1>26. (GrantsRead /\ PlannedWithinGrants /\ SnapshotSeen)'
  BY <1>25 DEF PlansOK, PlanOK, GrantsRead, PlannedWithinGrants, SnapshotSeen, WithinOK, SeenOK, U, Planned
<1> QED  BY <1>16, <1>17, <1>21, <1>22, <1>23, <1>24, <1>26 DEF AInv


\* So the commands about access keep the invariant.
LEMMA AccessSteps ==
    ASSUME AInv, NEW p \in Process, Access(p)
    PROVE  AInv'
<1>1. CASE \E t \in Asked : requestAccess(p, t)
  BY <1>1, requestAccessStep, AccessAssumption
<1>2. CASE Requested(p)
  BY <1>2, LoggedStep DEF Requested, At
<1>3. CASE \E r \in DOMAIN requests, d \in {"approve", "deny"} : Review(p, r, d)
  BY <1>3, ReviewStep
<1>4. CASE MarkApproved(p) \/ MarkDenied(p)
  BY <1>4, MarkStep
<1>5. CASE ApproveGrant(p)
  BY <1>5, ApproveGrantStep
<1>6. CASE \E pc \in {"approved", "denied"} : Reviewed(p, pc)
  BY <1>6, LoggedStep DEF Reviewed, At
<1> QED  BY <1>1, <1>2, <1>3, <1>4, <1>5, <1>6 DEF Access

-----------------------------------------------------------------------------
(* The theorems.                                                           *)

LEMMA AccessInit ==
    ASSUME Init
    PROVE  AInv
<1>1. \A p \in Process : /\ proc[p] = Down /\ Down.user = Nobody /\ Down.pc = "down" /\ Down.req = 0
                         /\ Down.granted = NoSchema /\ Down.never = {} /\ DOMAIN Down = Fields
  BY DEF Init, Down, Fields
<1>2. Types
  <2>1. \A p \in Process : Shaped(proc[p])
    BY <1>1, NoSchemaFields DEF Shaped
  <2>2. requests \in Seq(Request) /\ DOMAIN proc = Process
    BY DEF Init
  <2> QED  BY <2>1, <2>2, AccessAssumption DEF Init, Types
<1>3. WorkKnown
  BY <1>1 DEF WorkKnown, WorkOK, Requesting, Reviewing
<1>4. DOMAIN requests = {}
  BY DEF Init
<1>5. GrantOwed /\ LogOwed
  BY <1>4 DEF GrantOwed, LogOwed
<1>6. GrantsJustified
  BY DEF Init, GrantsJustified
<1>7. NeverNow
  BY <1>1, AccessAssumption DEF NeverNow, NeverOK, Nobody
<1>8. PlansOK
  BY <1>1, NoSchemaFields DEF PlansOK, PlanOK, ReadOK, WithinOK, SeenOK, Reading, Planned
<1> QED  BY <1>2, <1>3, <1>5, <1>6, <1>7, <1>8, PlansSplit DEF AInv

LEMMA AccessStuttering ==
    ASSUME AInv, UNCHANGED vars
    PROVE  AInv'
<1> USE DEF vars
<1>1. Types'
  BY DEF AInv, Types, Shaped
<1>2. WorkKnown'
  BY DEF AInv, WorkKnown, WorkOK
<1>3. GrantOwed'
  <2>1. /\ \A r \in DOMAIN requests : InForce(requests[r])' <=> InForce(requests[r])
        /\ \A r \in DOMAIN requests : \A pcs : WorkingAt(r, pcs)' <=> WorkingAt(r, pcs)
    BY DEF InForce, WorkingAt
  <2> QED  BY <2>1 DEF AInv, GrantOwed
<1>7. LogOwed'
  <2>1. /\ \A r \in DOMAIN requests : \A a : Logged(a, r)' <=> Logged(a, r)
        /\ \A r \in DOMAIN requests : \A pcs : WorkingAt(r, pcs)' <=> WorkingAt(r, pcs)
    BY DEF Logged, WorkingAt
  <2> QED  BY <2>1 DEF AInv, LogOwed
<1>4. GrantsJustified'
  BY DEF AInv, GrantsJustified
<1>5. NeverNow'
  <2>1. \A p \in Process : NeverOK(proc[p]) /\ proc'[p] = proc[p]
    BY DEF AInv, NeverNow
  <2>2. Types /\ NeverNow
    BY DEF AInv
  <2>3. CASE Process = {}
    BY <2>3 DEF NeverNow
  <2>4. CASE Process # {}
    <3>1. PICK p \in Process : TRUE
      BY <2>4
    <3> QED  BY <2>1, <2>2, <3>1, NeverBecome DEF NeverOK
  <2> QED  BY <2>3, <2>4
<1>6. (GrantsRead /\ PlannedWithinGrants /\ SnapshotSeen)'
  BY DEF AInv, GrantsRead, ReadOK, ReadableTables, checkTableAccess, PlannedWithinGrants, SnapshotSeen, U
<1> QED  BY <1>1, <1>2, <1>3, <1>4, <1>5, <1>6, <1>7 DEF AInv

\* Every operation keeps the invariant.
LEMMA AccessNext ==
    ASSUME AInv, [Next]_vars
    PROVE  AInv'
<1>1. ASSUME NEW p \in Process,
             \/ \E u \in User : Login(p, u)
             \/ Logout(p) \/ Crash(p) \/ ApiLogin(p)
             \/ Access(p) \/ Plan(p) \/ Script(p)
      PROVE  AInv'
  BY <1>1, SessionSteps, ApiLoginStep, AccessSteps, PlanSteps, ScriptSteps
<1> QED  BY <1>1, AccessStuttering DEF Next

\* The invariant of the processes that share the database, whatever they do and
\* wherever they die.
THEOREM AccessInvariance == Spec => []AInv
BY AccessInit, AccessNext, PTL DEF Spec

\* No grant without a reason: whatever interleaving of reviews, logins and
\* revocations, a grant that is in the database was seeded, is an
\* administrator's, or answers a request of that very user that a reviewer decided.
THEOREM GrantsAreJustified == Spec => []GrantsJustified
<1>1. AInv => GrantsJustified
  BY DEF AInv
<1> QED  BY <1>1, AccessInvariance, PTL

\* A review in three statements comes to its end as one: once nobody works on
\* the request, and unless its reviewer died or was overtaken, the decision is in
\* force and in the audit log (approveAccess, denyAccess).
THEOREM ReviewsAreComplete == Spec => []ReviewsComplete
<1>1. ASSUME AInv PROVE ReviewsComplete
  <2>1. \A r, pcs : ~Working(r) => ~WorkingAt(r, pcs)
    BY DEF Working, WorkingAt
  <2>2. ApprovalEffective
    BY <1>1, <2>1 DEF AInv, ApprovalEffective, GrantOwed, InForce
  <2>3. ReviewsAudited
    <3>1. SUFFICES ASSUME NEW r \in DOMAIN requests, ~Working(r), r \notin halfDone
                   PROVE  Logged(IF requests[r].status = "pending" THEN "requested" ELSE requests[r].status, r)
      BY DEF ReviewsAudited, Logged
    <3>2. requests[r].status \in {"pending", "approved", "denied"}
      <4>1. requests[r] \in Request
        BY <1>1 DEF AInv, Types
      <4> QED  BY <4>1 DEF Request, Statuses
    <3>3. /\ Logged("requested", r)
          /\ requests[r].status = "approved" => Logged("approved", r)
          /\ requests[r].status = "denied" => Logged("denied", r)
      BY <1>1, <2>1, <3>1 DEF AInv, LogOwed
    <3> QED  BY <3>2, <3>3
  <2> QED  BY <2>2, <2>3 DEF ReviewsComplete
<1> QED  BY <1>1, AccessInvariance, PTL

\* A plan on offer or running uses nothing that its user was refused throughout
\* the planning, though plan() reads the grants at four different moments.
THEOREM PlansStayWithinGrants == Spec => []PlannedWithinGrants
<1>1. AInv => PlannedWithinGrants
  BY DEF AInv
<1> QED  BY <1>1, AccessInvariance, PTL

\* getGrantedSchema reads table by table, and yet shows no column that could not
\* be seen at some moment of the planning, unless a revocation came in between.
THEOREM SnapshotsWereSeen == Spec => []SnapshotSeen
<1>1. AInv => SnapshotSeen
  BY DEF AInv
<1> QED  BY <1>1, AccessInvariance, PTL
=============================================================================
