--------------------------- MODULE AccessControl ---------------------------
(***************************************************************************)
(* Who may read and write which table (auth/grant-store.ts,                *)
(* permission-checker.ts, audit-store.ts), the access commands of the      *)
(* command line (cli.ts), and the gates of plan() (pipeline-engine.ts).    *)
(*                                                                         *)
(* Every process has the same SQLite file open.  better-sqlite3 is         *)
(* synchronous and each statement commits by itself, so the operations of  *)
(* two processes interleave between statements, and a process may die      *)
(* between two of them.                                                    *)
(*                                                                         *)
(* A column is a pair of a table and a name; a target of a request is a    *)
(* column or, with the name "", a whole table.                             *)
(***************************************************************************)
EXTENDS SchemaGraph, FiniteSetsExt

CONSTANTS
    User, Admins,     \* users; those with the role admin
    Process,          \* processes that have the file open, one user each
    Schema,           \* [tables, fks]: the full schema
    Column,           \* its columns, <<table, name>>
    SeedTable,        \* [User \X tables -> Grant]: auth:seed
    SeedColumn,       \* [User \X Column -> Grant]
    Asked,            \* the targets that are requested and revoked
    Intents,          \* what a plan may refer to, [tables, reads, into, writes]
    MaxSelected,      \* tables of a selection (maxTables * 2)
    MaxRequests,      \* bound: access requests
    MaxPlans,         \* bound: plans
    MaxCrashes,       \* bound: processes that die inside an operation
    MaxRevoked        \* bound: revocations

Table == ToSet(Schema.tables)
Target == {<<t, "">> : t \in Table} \cup Column
Grant == [row : BOOLEAN, read : BOOLEAN, write : BOOLEAN]
NoGrant == [row |-> FALSE, read |-> FALSE, write |-> FALSE]
FullGrant == [row |-> TRUE, read |-> TRUE, write |-> TRUE]

ASSUME AccessAssumption ==
    /\ "nobody" \notin User
    /\ Admins \subseteq User
    /\ Schema.tables \in Seq(STRING)
    /\ Column \subseteq Table \X (STRING \ {""})
    /\ Asked \subseteq Target
    /\ SeedTable \in [User \X Table -> Grant]
    /\ SeedColumn \in [User \X Column -> Grant]
    /\ {MaxSelected, MaxRequests, MaxPlans, MaxCrashes, MaxRevoked} \subseteq Nat

VARIABLES
    tableGrants,    \* table_grants
    columnGrants,   \* column_grants
    requests,       \* access_requests, in the order of their insertion
    audit,          \* audit_log: action, user and subject; logins are left out
    proc,           \* the processes
    crashes,        \* bound's counter
    halfDone,       \* history: requests whose reviewer died or was overtaken
    revoked         \* history: targets taken away from a user

vars == <<tableGrants, columnGrants, requests, audit, proc, crashes, halfDone, revoked>>

NoSchema == [tables |-> {}, columns |-> {}]
NoIntent == [tables |-> {}, reads |-> {}, into |-> "", writes |-> {}]
Nobody == "nobody"

Down == [user |-> Nobody, pc |-> "down", req |-> 0, target |-> <<"", "">>, granted |-> NoSchema,
         unread |-> {}, selected |-> <<>>, intent |-> NoIntent, owned |-> FALSE,
         never |-> {}, plans |-> 0]

Init ==
    /\ tableGrants = SeedTable
    /\ columnGrants = SeedColumn
    /\ requests = <<>>
    /\ audit = {}
    /\ proc = [p \in Process |-> Down]
    /\ crashes = 0
    /\ halfDone = {}
    /\ revoked = {}

-----------------------------------------------------------------------------
(* The checks of GrantStore.                                               *)

May(grant, mode) == IF mode = "read" THEN grant.read ELSE grant.write

checkTableAccess(u, t, mode) == May(tableGrants[u, t], mode)

\* A column without a grant of its own inherits from its table.
checkColumnAccess(u, c, mode) ==
    /\ checkTableAccess(u, c[1], mode)
    /\ columnGrants[u, c].row => May(columnGrants[u, c], mode)

\* getGrantedSchema, first query.
ReadableTables(u) == {t \in Table : checkTableAccess(u, t, "read")}

\* getGrantedSchema, the query and the filter for one table: one readable column
\* grant hides every column that has none.
VisibleColumns(u, t) ==
    LET all == {c \in Column : c[1] = t}
        granted == {c \in all : columnGrants[u, c].row /\ columnGrants[u, c].read}
    IN  IF granted # {} THEN granted ELSE all

\* The schema as one reader would see it who is not disturbed.
Visible(u) == UNION {VisibleColumns(u, t) : t \in ReadableTables(u)}

Accessible(u, mode) == {c \in Column : checkColumnAccess(u, c, mode)}

-----------------------------------------------------------------------------
(* Processes.                                                              *)

U(p) == proc[p].user
At(p, pc) == proc[p].pc = pc
Become(p, new) == proc' = [proc EXCEPT ![p] = new]
Goto(p, pc) == Become(p, [proc[p] EXCEPT !.pc = pc])
Log(entry) == audit' = audit \cup {entry}
Entry(action, u, id) == [action |-> action, user |-> u, id |-> id]

\* What the users of the processes cannot read or write now; with it, what they
\* could not at any moment since their plan began.
Refused(u) == {<<"read", c>> : c \in Column \ Accessible(u, "read")}
              \cup {<<"write", c>> : c \in Column \ Accessible(u, "write")}
              \cup {<<"see", c>> : c \in Column \ Visible(u)}
              \cup {<<"table", <<t, "">> >> : t \in Table \ ReadableTables(u)}

\* A step of p that changes grants also changes what everyone is refused.
Watch(p, new) ==
    LET refused == [u \in User |-> Refused(u)']
        next(q) == IF q = p THEN new ELSE proc[q]
    IN  proc' = [q \in Process |->
            IF next(q).user = Nobody THEN next(q)
            ELSE [next(q) EXCEPT !.never = @ \cap refused[next(q).user]]]

\* login(): the name is looked up in users.
Login(p, u) ==
    /\ At(p, "down")
    /\ Become(p, [Down EXCEPT !.user = u, !.pc = "idle", !.plans = proc[p].plans])
    /\ UNCHANGED <<tableGrants, columnGrants, requests, audit, crashes, halfDone, revoked>>

\* "exit", or SIGINT.
Logout(p) ==
    /\ At(p, "idle")
    /\ Become(p, [Down EXCEPT !.plans = proc[p].plans])
    /\ UNCHANGED <<tableGrants, columnGrants, requests, audit, crashes, halfDone, revoked>>

\* The process is killed inside an operation.
Crash(p) ==
    /\ ~At(p, "down") /\ ~At(p, "idle") /\ crashes < MaxCrashes
    /\ crashes' = crashes + 1
    /\ halfDone' = IF proc[p].req > 0 THEN halfDone \cup {proc[p].req} ELSE halfDone
    /\ Become(p, [Down EXCEPT !.plans = proc[p].plans])
    /\ UNCHANGED <<tableGrants, columnGrants, requests, audit, revoked>>

\* A login over HTTP first gives the admin every table again (ensureDefaultUsers).
ApiLogin(p) ==
    /\ At(p, "down")
    /\ \E a \in Admins :
        tableGrants' = [x \in DOMAIN tableGrants |-> IF x[1] = a THEN FullGrant ELSE tableGrants[x]]
    /\ UNCHANGED columnGrants
    /\ Watch(p, proc[p])
    /\ UNCHANGED <<requests, audit, crashes, halfDone, revoked>>

-----------------------------------------------------------------------------
(* Requests: INSERT, then the audit row.                                   *)

requestAccess(p, target) ==
    /\ At(p, "idle") /\ Len(requests) < MaxRequests
    /\ requests' = Append(requests, [user |-> U(p), target |-> target, status |-> "pending"])
    /\ Become(p, [proc[p] EXCEPT !.pc = "requested", !.req = Len(requests) + 1])
    /\ UNCHANGED <<tableGrants, columnGrants, audit, crashes, halfDone, revoked>>

Requested(p) ==
    /\ At(p, "requested")
    /\ Log(Entry("requested", U(p), proc[p].req))
    /\ Become(p, [proc[p] EXCEPT !.pc = "idle", !.req = 0])
    /\ UNCHANGED <<tableGrants, columnGrants, requests, crashes, halfDone, revoked>>

\* approveAccess and denyAccess begin with SELECT ... WHERE status = 'pending';
\* a request that is not pending ends the command with an error.
Review(p, r, decision) ==
    /\ At(p, "idle") /\ U(p) \in Admins
    /\ requests[r].status = "pending"
    /\ Become(p, [proc[p] EXCEPT !.pc = decision, !.req = r, !.target = requests[r].target])
    /\ UNCHANGED <<tableGrants, columnGrants, requests, audit, crashes, halfDone, revoked>>

\* UPDATE access_requests SET status, whatever it has become meanwhile.
Mark(p, decision, status, pc) ==
    LET r == proc[p].req IN
    /\ At(p, decision)
    /\ requests' = [requests EXCEPT ![r].status = status]
    /\ halfDone' = IF requests[r].status = "pending" THEN halfDone ELSE halfDone \cup {r}
    /\ Goto(p, pc)
    /\ UNCHANGED <<tableGrants, columnGrants, audit, crashes, revoked>>

MarkApproved(p) == Mark(p, "approve", "approved", "grant")
\* Mutant: a denial goes on to the grant.
MarkDeniedGrants(p) == Mark(p, "deny", "denied", "grant")

MarkDenied(p) == Mark(p, "deny", "denied", "denied")

\* Mutant: can_write is left at its default.
ApproveGrantRead(p) ==
    LET u == requests[proc[p].req].user  t == proc[p].target IN
    /\ At(p, "grant")
    /\ IF t[2] = ""
       THEN /\ tableGrants' = [tableGrants EXCEPT ![<<u, t[1]>>] = [FullGrant EXCEPT !.write = FALSE]]
            /\ UNCHANGED columnGrants
       ELSE /\ columnGrants' = [columnGrants EXCEPT ![<<u, t>>] = [FullGrant EXCEPT !.write = FALSE]]
            /\ UNCHANGED tableGrants
    /\ Watch(p, [proc[p] EXCEPT !.pc = "approved"])
    /\ UNCHANGED <<requests, audit, crashes, halfDone, revoked>>

\* INSERT OR REPLACE INTO column_grants or table_grants, read and write.
ApproveGrant(p) ==
    LET u == requests[proc[p].req].user  t == proc[p].target IN
    /\ At(p, "grant")
    /\ IF t[2] = ""
       THEN /\ tableGrants' = [tableGrants EXCEPT ![<<u, t[1]>>] = FullGrant]
            /\ UNCHANGED columnGrants
       ELSE /\ columnGrants' = [columnGrants EXCEPT ![<<u, t>>] = FullGrant]
            /\ UNCHANGED tableGrants
    /\ Watch(p, [proc[p] EXCEPT !.pc = "approved"])
    /\ UNCHANGED <<requests, audit, crashes, halfDone, revoked>>

\* The audit row of the review.
Reviewed(p, pc) ==
    /\ At(p, pc)
    /\ Log(Entry(pc, U(p), proc[p].req))
    /\ Become(p, [proc[p] EXCEPT !.pc = "idle", !.req = 0])
    /\ UNCHANGED <<tableGrants, columnGrants, requests, crashes, halfDone, revoked>>

\* revokeTableAccess and revokeColumnAccess; nothing in the repository calls
\* them, so an administrator's script does.  The first is two DELETEs.
RevokeTable(p, u, t) ==
    /\ At(p, "down") /\ Cardinality(revoked) < MaxRevoked
    /\ tableGrants[u, t].row
    /\ tableGrants' = [tableGrants EXCEPT ![<<u, t>>] = NoGrant]
    /\ UNCHANGED columnGrants
    /\ revoked' = revoked \cup {<<u, t>>}
    /\ Watch(p, [proc[p] EXCEPT !.pc = "revoking", !.target = <<u, t>>])
    /\ UNCHANGED <<requests, audit, crashes, halfDone>>

RevokeColumns(p) ==
    LET of(x) == x[1] = proc[p].target[1] /\ x[2][1] = proc[p].target[2] IN
    /\ At(p, "revoking")
    /\ columnGrants' = [x \in DOMAIN columnGrants |-> IF of(x) THEN NoGrant ELSE columnGrants[x]]
    /\ UNCHANGED tableGrants
    /\ Watch(p, [Down EXCEPT !.plans = proc[p].plans])
    /\ UNCHANGED <<requests, audit, crashes, halfDone, revoked>>

RevokeColumn(p, u, c) ==
    /\ At(p, "down") /\ Cardinality(revoked) < MaxRevoked
    /\ columnGrants[u, c].row
    /\ columnGrants' = [columnGrants EXCEPT ![<<u, c>>] = NoGrant]
    /\ UNCHANGED tableGrants
    /\ revoked' = revoked \cup {<<u, c[1]>>}
    /\ Watch(p, proc[p])
    /\ UNCHANGED <<requests, audit, crashes, halfDone>>

-----------------------------------------------------------------------------
(* plan() for a logged-in user, from one await to the next.                *)

\* The plan is returned with its error; what was learned is forgotten.
Refuse(p) == Become(p, [Down EXCEPT !.user = U(p), !.pc = "idle", !.plans = proc[p].plans])

\* plan() returns; what is left of it is the intent and perhaps its owner.
Return(p, pc, owned) ==
    Become(p, [proc[p] EXCEPT !.pc = pc, !.owned = owned, !.granted = NoSchema, !.selected = <<>>])

\* checkExplicitMentions on the names the description contains.
MentionAllowed(u, target) ==
    IF target[2] = "" THEN checkTableAccess(u, target[1], "read")
    ELSE checkColumnAccess(u, target, "read")

CheckMentions(p) ==
    /\ At(p, "idle") /\ MapThenSumSet(LAMBDA q : proc[q].plans, Process) < MaxPlans
    /\ \E mentioned \in {{}} \cup {{m} : m \in Target} :
        LET new == [proc[p] EXCEPT !.plans = @ + 1]
        IN  IF \A m \in mentioned : MentionAllowed(U(p), m)
            THEN Become(p, [new EXCEPT !.pc = "tables", !.never = Refused(U(p))])
            ELSE Become(p, new)
    /\ UNCHANGED <<tableGrants, columnGrants, requests, audit, crashes, halfDone, revoked>>

\* Mutant: the table grants are not asked for.
ReadTableGrantsAny(p) ==
    LET granted == Table IN
    /\ At(p, "tables")
    /\ IF granted = {}
       THEN Refuse(p)
       ELSE Become(p, [proc[p] EXCEPT !.pc = "columns", !.granted = [NoSchema EXCEPT !.tables = granted],
                           !.unread = granted])
    /\ UNCHANGED <<tableGrants, columnGrants, requests, audit, crashes, halfDone, revoked>>

\* getGrantedSchemaOrError: the table grants first; none at all is an error.
ReadTableGrants(p) ==
    LET granted == ReadableTables(U(p)) IN
    /\ At(p, "tables")
    /\ IF granted = {}
       THEN Refuse(p)
       ELSE Become(p, [proc[p] EXCEPT !.pc = "columns", !.granted = [NoSchema EXCEPT !.tables = granted],
                           !.unread = granted])
    /\ UNCHANGED <<tableGrants, columnGrants, requests, audit, crashes, halfDone, revoked>>

FirstOf(tables) == Schema.tables[Min({i \in DOMAIN Schema.tables : Schema.tables[i] \in tables})]

\* Then the column grants, one query per table, in the order of the schema.
ReadColumnGrants(p) ==
    LET t == FirstOf(proc[p].unread) IN
    /\ At(p, "columns")
    /\ Become(p, [proc[p] EXCEPT !.granted.columns = @ \cup VisibleColumns(U(p), t),
                                 !.unread = @ \ {t},
                                 !.pc = IF proc[p].unread = {t} THEN "select" ELSE @])
    /\ UNCHANGED <<tableGrants, columnGrants, requests, audit, crashes, halfDone, revoked>>

\* The granted schema: its tables, and the keys between two of them.
GrantedSchema(granted) ==
    [tables |-> SelectSeq(Schema.tables, LAMBDA t : t \in granted),
     fks |-> SelectSeq(Schema.fks, LAMBDA fk : Ends(fk) \subseteq granted)]

AddNew(s, t) == IF t \in ToSet(s) THEN s ELSE Append(s, t)

\* TablePreSelector.select on the tables the model answered with: unknown ones
\* are dropped, no answer stands for all, related tables are added.
Preselect(schema, answer) ==
    LET valid == SelectSeq(answer, LAMBDA t : t \in ToSet(schema.tables))
        chosen == IF valid = <<>> THEN schema.tables ELSE valid
        keys(t) == SelectSeq(schema.fks, LAMBDA fk : t \in Ends(fk))
        related(t) == [i \in DOMAIN keys(t) |-> Other(keys(t)[i], t)]
        all == FoldLeft(AddNew, chosen, FlattenSeq([i \in DOMAIN chosen |-> related(chosen[i])]))
    IN  SubSeq(all, 1, IF Len(all) < MaxSelected THEN Len(all) ELSE MaxSelected)

\* Mutant: the paths are looked for in the granted schema.
checkJoinCompletenessGranted(selected, granted) ==
    \A i, j \in DOMAIN selected : i < j =>
        LET r == findJoinPath(GrantedSchema(granted), selected[i], selected[j])
        IN  r.found => bridgeTables(r.path, selected[i], selected[j]) \subseteq granted

\* Every table on the path between two selected tables is granted; tables
\* without a path are left alone.
checkJoinCompleteness(selected, granted) ==
    \A i, j \in DOMAIN selected : i < j =>
        LET r == findJoinPath(Schema, selected[i], selected[j])
        IN  r.found => bridgeTables(r.path, selected[i], selected[j]) \subseteq granted

\* The answer of the language model: any list of up to two tables.
Answers == UNION {[1..n -> Table] : n \in 0..2}

SelectTables(p) ==
    /\ At(p, "select")
    /\ \E answer \in Answers :
        LET selected == Preselect(GrantedSchema(proc[p].granted.tables), answer)
        IN  IF checkJoinCompleteness(selected, proc[p].granted.tables)
            THEN Become(p, [proc[p] EXCEPT !.pc = "intent", !.selected = selected])
            ELSE Refuse(p)
    /\ UNCHANGED <<tableGrants, columnGrants, requests, audit, crashes, halfDone, revoked>>

\* The intent and its enrichment: whatever the model comes up with.
GenerateIntent(p) ==
    /\ At(p, "intent")
    /\ \E intent \in Intents : Become(p, [proc[p] EXCEPT !.pc = "validate", !.intent = intent])
    /\ UNCHANGED <<tableGrants, columnGrants, requests, audit, crashes, halfDone, revoked>>

\* Mutant: only the snapshot of the granted schema is consulted for queries.
validateEnrichedPipelineSnapshot(u, granted, intent) ==
    /\ intent.tables \subseteq granted.tables
    /\ intent.reads \subseteq granted.columns
    /\ intent.into # "" => checkTableAccess(u, intent.into, "write")

checkQueryIntentColumns(u, reads) == \A c \in reads : checkColumnAccess(u, c, "read")

\* validateEnrichedPipeline: the tables of queries against the schema read at
\* the start, everything else against the grants of now.
validateEnrichedPipeline(u, granted, intent) ==
    /\ intent.tables \subseteq granted.tables
    /\ checkQueryIntentColumns(u, intent.reads)
    /\ intent.into # "" => checkTableAccess(u, intent.into, "write")
    /\ \A c \in intent.writes : checkColumnAccess(u, c, "write")

\* The rest of plan(): a plan that lacks values goes back to the user without
\* its owner and without an audit row.
Validate(p) ==
    LET intent == proc[p].intent IN
    /\ At(p, "validate")
    /\ \/ /\ ~validateEnrichedPipeline(U(p), proc[p].granted, intent)
          /\ Refuse(p)
          /\ UNCHANGED audit
       \/ /\ validateEnrichedPipeline(U(p), proc[p].granted, intent)
          /\ Return(p, "offered", TRUE)
          /\ Log(Entry("planned", U(p), proc[p].plans))
       \/ /\ validateEnrichedPipeline(U(p), proc[p].granted, intent)
          /\ intent.into # ""
          /\ Return(p, "incomplete", FALSE)
          /\ UNCHANGED audit
    /\ UNCHANGED <<tableGrants, columnGrants, requests, crashes, halfDone, revoked>>

\* planWithMissingValues: the user fills in the values.
FillIn(p) ==
    /\ At(p, "incomplete")
    /\ Goto(p, "offered")
    /\ UNCHANGED <<tableGrants, columnGrants, requests, audit, crashes, halfDone, revoked>>

\* The user confirms: execute() runs the plan; the grants are not read again.
Execute(p) ==
    /\ At(p, "offered")
    /\ Goto(p, "running")
    /\ UNCHANGED <<tableGrants, columnGrants, requests, audit, crashes, halfDone, revoked>>

\* The run ends, well or badly; the audit row needs the plan's owner.
Executed(p) ==
    /\ At(p, "running")
    /\ IF proc[p].owned THEN Log(Entry("executed", U(p), proc[p].plans)) ELSE UNCHANGED audit
    /\ Refuse(p)
    /\ UNCHANGED <<tableGrants, columnGrants, requests, crashes, halfDone, revoked>>

\* The user declines, or gives up on the missing values.
Decline(p) ==
    /\ At(p, "offered") \/ At(p, "incomplete")
    /\ Refuse(p)
    /\ UNCHANGED <<tableGrants, columnGrants, requests, audit, crashes, halfDone, revoked>>

Plan(p) ==
    \/ CheckMentions(p) \/ ReadTableGrants(p) \/ ReadColumnGrants(p) \/ SelectTables(p)
    \/ GenerateIntent(p) \/ Validate(p) \/ FillIn(p) \/ Execute(p) \/ Executed(p) \/ Decline(p)

Access(p) ==
    \/ \E t \in Asked : requestAccess(p, t)
    \/ Requested(p)
    \/ \E r \in DOMAIN requests, d \in {"approve", "deny"} : Review(p, r, d)
    \/ MarkApproved(p) \/ ApproveGrant(p) \/ MarkDenied(p)
    \/ \E pc \in {"approved", "denied"} : Reviewed(p, pc)

Script(p) ==
    \/ \E u \in User, a \in Asked : RevokeTable(p, u, a[1])
    \/ RevokeColumns(p)
    \/ \E u \in User, c \in Asked \cap Column : RevokeColumn(p, u, c)

Next ==
    \E p \in Process :
        \/ \E u \in User : Login(p, u)
        \/ Logout(p) \/ Crash(p) \/ ApiLogin(p)
        \/ Access(p) \/ Plan(p) \/ Script(p)

Spec == Init /\ [][Next]_vars

-----------------------------------------------------------------------------
(* Properties.                                                             *)

Statuses == {"pending", "approved", "denied"}

TypeOK ==
    /\ tableGrants \in [User \X Table -> Grant]
    /\ columnGrants \in [User \X Column -> Grant]
    /\ requests \in Seq([user : User, target : Target, status : Statuses])
    /\ crashes \in 0..MaxCrashes
    /\ halfDone \subseteq DOMAIN requests
    /\ revoked \subseteq User \X Table
    /\ \A p \in Process :
        /\ proc[p].req \in 0..Len(requests)
        /\ proc[p].granted.tables \subseteq Table /\ proc[p].granted.columns \subseteq Column
        /\ proc[p].intent \in Intents \cup {NoIntent}
        /\ proc[p].plans \in 0..MaxPlans

Working(r) == \E p \in Process : proc[p].req = r

\* An approved request has its grant, read and write, unless the reviewer died
\* on the way, a second reviewer decided the same request, or it was revoked.
ApprovalEffective ==
    \A r \in DOMAIN requests :
        LET q == requests[r]
        IN  q.status = "approved" /\ ~Working(r) /\ r \notin halfDone /\ <<q.user, q.target[1]>> \notin revoked =>
            (IF q.target[2] = "" THEN tableGrants[q.user, q.target[1]] ELSE columnGrants[q.user, q.target])
                = FullGrant

\* Nobody but the admin holds a grant that neither the seed nor a request of
\* his own, decided by a reviewer, accounts for.
GrantsJustified ==
    LET approved(u, target) ==
            \E r \in DOMAIN requests : /\ requests[r].user = u /\ requests[r].target = target
                                       /\ requests[r].status = "approved" \/ r \in halfDone
    IN  /\ \A x \in DOMAIN tableGrants :
            tableGrants[x].row => \/ SeedTable[x].row \/ x[1] \in Admins
                                  \/ approved(x[1], <<x[2], "">>)
        /\ \A x \in DOMAIN columnGrants :
            columnGrants[x].row => SeedColumn[x].row \/ approved(x[1], x[2])

\* Every request and every review whose process survived is in the audit log.
ReviewsAudited ==
    \A r \in DOMAIN requests : ~Working(r) /\ r \notin halfDone =>
        LET action == IF requests[r].status = "pending" THEN "requested" ELSE requests[r].status
        IN  \E e \in audit : e.action = action /\ e.id = r

Uses(intent) ==
    {<<"read", c>> : c \in intent.reads} \cup {<<"write", c>> : c \in intent.writes}
    \cup {<<"table", <<t, "">> >> : t \in intent.tables}

\* A plan that is offered or executed uses nothing that its user was refused
\* throughout the planning, however grants changed between its awaits.
PlannedWithinGrants ==
    \A p \in Process : proc[p].pc \in {"offered", "incomplete", "running"} =>
        Uses(proc[p].intent) \cap proc[p].never = {}

\* The schema a plan is made from shows a column only if the user could see it
\* at some moment since the planning began, unless a revocation interfered.
SnapshotSeen ==
    \A p \in Process : \A c \in proc[p].granted.columns :
        <<"see", c>> \in proc[p].never => <<U(p), c[1]>> \in revoked

\* Tables selected for a plan that can be joined at all can be joined, as
\* shortly, through tables of the granted schema.
JoinsWithinGrants ==
    \A p \in Process : \A i, j \in DOMAIN proc[p].selected : i < j =>
        LET a == proc[p].selected[i]  b == proc[p].selected[j]
            r == findJoinPath(Schema, a, b)
        IN  r.found => b \in Within(GrantedSchema(proc[p].granted.tables), a, Len(r.path))

\* approveAccess and denyAccess, in three statements each, come to their end as
\* one: the decision is in force and in the log.
ReviewsComplete == ApprovalEffective /\ ReviewsAudited
=============================================================================
