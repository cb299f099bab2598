---------------------------- MODULE PlanService ----------------------------
(***************************************************************************)
(* Planning and executing over HTTP: the plan and execute handlers         *)
(* (api/routes/execute.ts), the plan store (api/types.ts), the semantic    *)
(* cache and the schema check at start-up (cache/, bootstrap.ts), and the  *)
(* outcomes of PipelineEngine.plan and execute.                            *)
(*                                                                         *)
(* Several server processes share the cache and the recorded DDL hashes,   *)
(* which are rows of a database; everything else is lost in a crash.  A    *)
(* handler runs from one await to the next without interruption.           *)
(*                                                                         *)
(* A DDL file, its hash and the schema parsed from it are one version      *)
(* number.  Two messages are similar iff they are equal.  A user-entered   *)
(* value stands for a column and what the user typed for it.               *)
(***************************************************************************)
EXTENDS Naturals, FiniteSets

CONSTANTS
    Proc,         \* server processes
    Req,          \* bound: requests in flight
    PlanId,       \* bound: plans in memory
    Msg,          \* messages and plan descriptions
    Value,        \* values users enter for optional fields
    NumSources,   \* registered datasources with a DDL file
    MaxVersion,   \* bound: versions of a DDL file
    MaxRows       \* bound: valid rows of the cache

ASSUME ServiceAssumption ==
    /\ NumSources \in Nat \ {0}
    /\ MaxVersion \in Nat \ {0}
    /\ Proc # {} /\ Msg # {}
    /\ "none" \notin PlanId

VARIABLES
    ddl,       \* the DDL files on disk
    hash,      \* pee_schema_state: the recorded version, 0 for none
    cache,     \* pee_semantic_cache: the rows with is_valid
    procs,     \* the processes
    plans,     \* the PlanResult objects in memory
    reqs,      \* the requests being handled
    faults     \* history: what has happened of Fault

vars == <<ddl, hash, cache, procs, plans, reqs, faults>>

Source == 1..NumSources
Version == 1..MaxVersion
Versions == [Source -> Version]

\* A hash lookup or an invalidation failed, processes that loaded different
\* schemas used the cache, or a DDL file changed between the two times a
\* starting process reads it.
Fault == {"lookup", "invalidate", "mixed", "reread"}

-----------------------------------------------------------------------------
(* Types.                                                                  *)

\* intent_json and plan_json of a row: the intent with its field values.
Entry == [msg : Msg, about : Msg, ver : Versions, fields : SUBSET Value,
          empty : BOOLEAN]

\* empty: without steps, as plan() returns when a check fails; compilation
\* errors that keep the steps change nothing here.  listed: in planStore.
Plan == [proc : Proc, listed : BOOLEAN, about : Msg, ver : Versions, fields : SUBSET Value,
         values : SUBSET Value, empty : BOOLEAN, free : BOOLEAN]

ProcState == [pc : {"down", "boot", "lookup", "invalidate", "save", "up"},
              ver : Versions, src : Source, seen : Version, cacheOn : BOOLEAN]

Request == [pc : {"idle", "lookup", "enrich", "plan", "store", "run", "storeRun"},
            proc : Proc, msg : Msg, hit : Entry, pid : PlanId \cup {"none"}]

TypeOK ==
    /\ ddl \in Versions
    /\ hash \in [Source -> 0..MaxVersion]
    /\ cache \in SUBSET Entry
    /\ procs \in [Proc -> ProcState]
    /\ plans \in [PlanId -> Plan]
    /\ reqs \in [Req -> Request]
    /\ faults \subseteq Fault

AnyMsg == CHOOSE m \in Msg : TRUE
AnyProc == CHOOSE p \in Proc : TRUE
NoEntry == [msg |-> AnyMsg, about |-> AnyMsg, ver |-> [s \in Source |-> 1],
            fields |-> {}, empty |-> TRUE]
NoPlan == [proc |-> AnyProc, listed |-> FALSE, about |-> AnyMsg,
           ver |-> [s \in Source |-> 1], fields |-> {}, values |-> {}, empty |-> TRUE, free |-> TRUE]
Idle == [pc |-> "idle", proc |-> AnyProc, msg |-> AnyMsg, hit |-> NoEntry, pid |-> "none"]
Down == [pc |-> "down", ver |-> [s \in Source |-> 1], src |-> 1, seen |-> 1, cacheOn |-> FALSE]

Init ==
    /\ ddl = [s \in Source |-> 1]
    /\ hash = [s \in Source |-> 0]
    /\ cache = {}
    /\ procs = [p \in Proc |-> Down]
    /\ plans = [i \in PlanId |-> NoPlan]
    /\ reqs = [r \in Req |-> Idle]
    /\ faults = {}

SetProc(p, q) == procs' = [procs EXCEPT ![p] = q]
SetReq(r, q) == reqs' = [reqs EXCEPT ![r] = q]
Note(fault, happened) == faults' = IF happened THEN faults \cup {fault} ELSE faults
SetPlan(i, q) == plans' = [plans EXCEPT ![i] = q]

-----------------------------------------------------------------------------
(* bootstrap and checkAndHandleSchemaChange.                               *)

\* A deployment rewrites a DDL file.
ChangeDDL(s) ==
    /\ \E v \in Version \ {ddl[s]} : ddl' = [ddl EXCEPT ![s] = v]
    /\ UNCHANGED <<hash, cache, procs, plans, reqs, faults>>

\* The processes that work with the cache, or will.
UsesCache(p) == procs[p].pc \notin {"down", "up"} \/ procs[p].cacheOn

\* bootstrap parses the DDL files first.
Boot(p) ==
    /\ procs[p].pc = "down"
    /\ SetProc(p, [Down EXCEPT !.pc = "boot", !.ver = ddl])
    /\ Note("mixed", \E q \in Proc : UsesCache(q) /\ procs[q].ver # ddl)
    /\ UNCHANGED <<ddl, hash, cache, plans, reqs>>

\* No store, no API key, or an error on the way: the server runs uncached.
RunUncached(p) ==
    /\ procs[p].pc = "boot"
    /\ SetProc(p, [procs[p] EXCEPT !.pc = "up"])
    /\ UNCHANGED <<ddl, hash, cache, plans, reqs, faults>>

\* The loop reads the file of the first datasource and asks for its hash.
StartCheck(p) ==
    /\ procs[p].pc = "boot"
    /\ SetProc(p, [procs[p] EXCEPT !.pc = "lookup", !.seen = ddl[1]])
    /\ Note("reread", ddl[1] # procs[p].ver[1])
    /\ UNCHANGED <<ddl, hash, cache, plans, reqs>>

\* The loop's next iteration, or the end of bootstrap.
Advanced(q) ==
    IF q.src < NumSources
    THEN [q EXCEPT !.pc = "lookup", !.src = q.src + 1, !.seen = ddl[q.src + 1]]
    ELSE [q EXCEPT !.pc = "up", !.cacheOn = TRUE]

\* The file Advanced reads next is not the one bootstrap parsed.
Reread(q) == q.src < NumSources /\ ddl[q.src + 1] # q.ver[q.src + 1]

\* getStoredHash found the hash, or failed, which reads as "no hash yet".
LookupHash(p, found) ==
    LET q == procs[p]
    IN  /\ q.pc = "lookup"
        /\ found \in {hash[q.src], 0}
        /\ \/ found = 0 /\ SetProc(p, [q EXCEPT !.pc = "save"])
           \/ found = q.seen /\ SetProc(p, Advanced(q))
           \/ found \notin {0, q.seen} /\ SetProc(p, [q EXCEPT !.pc = "invalidate"])
        /\ faults' = faults \cup (IF found # hash[q.src] THEN {"lookup"} ELSE {})
                             \cup (IF found = q.seen /\ Reread(q) THEN {"reread"} ELSE {})
        /\ UNCHANGED <<ddl, hash, cache, plans, reqs>>

\* cache.invalidateAll reports a failure as "0 rows".
Invalidate(p, ok) ==
    /\ procs[p].pc = "invalidate"
    /\ cache' = IF ok THEN {} ELSE cache
    /\ Note("invalidate", ~ok)
    /\ SetProc(p, [procs[p] EXCEPT !.pc = "save"])
    /\ UNCHANGED <<ddl, hash, plans, reqs>>

\* Mutant: bootstrap keeps the cache when the hash could not be saved.
SaveHashIgnored(p, ok) ==
    LET q == procs[p]
    IN  /\ q.pc = "save"
        /\ hash' = IF ok THEN [hash EXCEPT ![q.src] = q.seen] ELSE hash
        /\ SetProc(p, Advanced(q))
        /\ Note("reread", Reread(q))
        /\ UNCHANGED <<ddl, cache, plans, reqs>>

\* saveHash; if it throws, bootstrap drops the cache.
SaveHash(p, ok) ==
    LET q == procs[p]
    IN  /\ q.pc = "save"
        /\ hash' = IF ok THEN [hash EXCEPT ![q.src] = q.seen] ELSE hash
        /\ SetProc(p, IF ok THEN Advanced(q) ELSE [q EXCEPT !.pc = "up"])
        /\ Note("reread", ok /\ Reread(q))
        /\ UNCHANGED <<ddl, cache, plans, reqs>>

\* The process dies with its plans and requests.
Crash(p) ==
    /\ procs[p].pc # "down"
    /\ SetProc(p, Down)
    /\ plans' = [i \in PlanId |-> IF plans[i].proc = p THEN NoPlan ELSE plans[i]]
    /\ reqs' = [r \in Req |-> IF reqs[r].proc = p THEN Idle ELSE reqs[r]]
    /\ UNCHANGED <<ddl, hash, cache, faults>>

-----------------------------------------------------------------------------
(* The plan handler.  A request is answered when it is idle again.         *)

Up(p) == procs[p].pc = "up"
Cached(r) == procs[reqs[r].proc].cacheOn
At(r, pc) == reqs[r].pc = pc

PlanRequest(r, p, m) ==
    /\ At(r, "idle")
    /\ Up(p)
    /\ SetReq(r, [Idle EXCEPT !.pc = IF procs[p].cacheOn THEN "lookup" ELSE "plan",
                              !.proc = p, !.msg = m])
    /\ UNCHANGED <<ddl, hash, cache, procs, plans, faults>>

\* SemanticCache.lookup: a row for a similar message ...
LookupHit(r) ==
    /\ At(r, "lookup")
    /\ \E e \in cache : /\ e.msg = reqs[r].msg
                         /\ SetReq(r, [reqs[r] EXCEPT !.pc = "enrich", !.hit = e])
    /\ UNCHANGED <<ddl, hash, cache, procs, plans, faults>>

\* ... or none, or an error, which is a miss.
LookupMiss(r) ==
    /\ At(r, "lookup")
    /\ SetReq(r, [reqs[r] EXCEPT !.pc = "plan"])
    /\ UNCHANGED <<ddl, hash, cache, procs, plans, faults>>

\* storePlan under a new id.
Store(i, plan) ==
    /\ plans[i].free
    /\ SetPlan(i, plan)

\* enrichNodes puts the field values of the intent into the write nodes.
Enrich(r, i) ==
    LET e == reqs[r].hit
    IN  /\ At(r, "enrich")
        /\ Store(i, [proc |-> reqs[r].proc, listed |-> TRUE, about |-> e.about, ver |-> e.ver,
                     fields |-> e.fields, values |-> e.fields, empty |-> e.empty, free |-> FALSE])
        /\ SetReq(r, Idle)
        /\ UNCHANGED <<ddl, hash, cache, procs, faults>>

\* A failure falls through to full planning; a plan without steps cannot fail.
EnrichFails(r) ==
    /\ At(r, "enrich")
    /\ ~reqs[r].hit.empty
    /\ SetReq(r, [reqs[r] EXCEPT !.pc = "plan", !.hit = NoEntry])
    /\ UNCHANGED <<ddl, hash, cache, procs, plans, faults>>

\* Mutant: planning reads the DDL files anew.
GenerateReread(r, i, about, empty) ==
    /\ At(r, "plan")
    /\ Store(i, [proc |-> reqs[r].proc, listed |-> TRUE, about |-> about, ver |-> ddl,
                 fields |-> {}, values |-> {}, empty |-> empty, free |-> FALSE])
    /\ SetReq(r, IF Cached(r) THEN [reqs[r] EXCEPT !.pc = "store", !.pid = i] ELSE Idle)
    /\ UNCHANGED <<ddl, hash, cache, procs, faults>>

\* PipelineEngine.plan: permission, table selection, join, column and write
\* checks return error plans; an incomplete write keeps its steps.
Generate(r, i, about, empty) ==
    LET p == reqs[r].proc
    IN  /\ At(r, "plan")
        /\ Store(i, [proc |-> p, listed |-> TRUE, about |-> about, ver |-> procs[p].ver,
                     fields |-> {}, values |-> {}, empty |-> empty, free |-> FALSE])
        /\ SetReq(r, IF Cached(r) THEN [reqs[r] EXCEPT !.pc = "store", !.pid = i] ELSE Idle)
        /\ UNCHANGED <<ddl, hash, cache, procs, faults>>

\* The language model or an enrichment throws: PLAN_ERROR.
GenerateFails(r) ==
    /\ At(r, "plan")
    /\ SetReq(r, Idle)
    /\ UNCHANGED <<ddl, hash, cache, procs, plans, faults>>

\* stripExecutionValues and serializePlan: the values of the write nodes go,
\* the intent is stored as it is.
Strip(plan, key) ==
    [msg |-> key, about |-> plan.about, ver |-> plan.ver, fields |-> plan.fields,
     empty |-> plan.empty]

\* A plan that is neither in planStore nor used by a request is garbage.
Release(r, i) ==
    IF plans[i].listed \/ \E q \in Req \ {r} : reqs[q].pid = i
    THEN UNCHANGED plans ELSE SetPlan(i, NoPlan)

\* SemanticCache.store under the given key; its errors are swallowed.
StoreInCache(r, key, ok) ==
    /\ ok => Cardinality(cache) < MaxRows
    /\ cache' = IF ok THEN cache \cup {Strip(plans[reqs[r].pid], key)} ELSE cache
    /\ SetReq(r, Idle)
    /\ Release(r, reqs[r].pid)
    /\ UNCHANGED <<ddl, hash, procs, faults>>

\* After planning, whatever the outcome.
StoreNewPlan(r, ok) == At(r, "store") /\ StoreInCache(r, reqs[r].msg, ok)

-----------------------------------------------------------------------------
(* The execute handler and the other requests.                             *)

\* The client learns the id from the response, after the plan was cached.
HasPlan(p, i) ==
    /\ Up(p)
    /\ plans[i].listed
    /\ plans[i].proc = p
    /\ ~\E r \in Req : At(r, "store") /\ reqs[r].pid = i

\* updatePlanOptionalFields: intent and graph of the shared plan object.
WithValues(plan, vals) ==
    IF plan.empty THEN plan
    ELSE [plan EXCEPT !.fields = @ \cup vals, !.values = @ \cup vals]

\* The streaming handler applies optionalValues; the JSON handler ignores
\* them, which is vals = {}.
Execute(r, p, i, vals) ==
    /\ At(r, "idle")
    /\ HasPlan(p, i)
    /\ SetPlan(i, WithValues(plans[i], vals))
    /\ SetReq(r, [Idle EXCEPT !.pc = "run", !.proc = p, !.pid = i])
    /\ UNCHANGED <<ddl, hash, cache, procs, faults>>

\* PipelineEngine.execute succeeded: only a plan with steps can.
RunSucceeds(r) ==
    /\ At(r, "run")
    /\ ~plans[reqs[r].pid].empty
    /\ Cached(r)
    /\ SetReq(r, [reqs[r] EXCEPT !.pc = "storeRun"])
    /\ UNCHANGED <<ddl, hash, cache, procs, plans, faults>>

\* It was rejected (pre-flight validation, a node, the budget), or there is
\* no cache to store the plan in.
RunEnds(r) ==
    /\ At(r, "run")
    /\ SetReq(r, Idle)
    /\ Release(r, reqs[r].pid)
    /\ UNCHANGED <<ddl, hash, cache, procs, faults>>

\* After a successful execution, under the description of the intent.
StoreAfterRun(r, ok) ==
    /\ At(r, "storeRun")
    /\ StoreInCache(r, plans[reqs[r].pid].about, ok)

\* PATCH .../optional-fields.
PatchPlan(p, i, v) ==
    /\ HasPlan(p, i)
    /\ SetPlan(i, WithValues(plans[i], {v}))
    /\ UNCHANGED <<ddl, hash, cache, procs, reqs, faults>>

\* POST .../clear-cache.
ClearCache(p) ==
    /\ Up(p)
    /\ procs[p].cacheOn
    /\ cache' = {}
    /\ UNCHANGED <<ddl, hash, procs, plans, reqs, faults>>

\* 30 minutes are over: the timer of storePlan, or getPlan noticing first.
Expire(i) ==
    /\ plans[i].listed
    /\ SetPlan(i, IF \E r \in Req : reqs[r].pid = i
                  THEN [plans[i] EXCEPT !.listed = FALSE] ELSE NoPlan)
    /\ UNCHANGED <<ddl, hash, cache, procs, reqs, faults>>

-----------------------------------------------------------------------------
ProcStep(p) ==
    \/ Boot(p) \/ RunUncached(p) \/ StartCheck(p) \/ Crash(p) \/ ClearCache(p)
    \/ \E found \in 0..MaxVersion : LookupHash(p, found)
    \/ \E ok \in BOOLEAN : Invalidate(p, ok) \/ SaveHash(p, ok)
    \/ \E i \in PlanId, v \in Value : PatchPlan(p, i, v)

ReqStep(r) ==
    \/ \E p \in Proc, m \in Msg : PlanRequest(r, p, m)
    \/ LookupHit(r) \/ LookupMiss(r) \/ EnrichFails(r) \/ GenerateFails(r)
    \/ \E i \in PlanId : Enrich(r, i)
    \/ \E i \in PlanId, m \in Msg, b \in BOOLEAN : Generate(r, i, m, b)
    \/ \E p \in Proc, i \in PlanId, vals \in SUBSET Value : Execute(r, p, i, vals)
    \/ RunSucceeds(r) \/ RunEnds(r)
    \/ \E ok \in BOOLEAN : StoreNewPlan(r, ok) \/ StoreAfterRun(r, ok)

Next ==
    \/ \E s \in Source : ChangeDDL(s)
    \/ \E p \in Proc : ProcStep(p)
    \/ \E r \in Req : ReqStep(r)
    \/ \E i \in PlanId : Expire(i)

Spec == Init /\ [][Next]_vars

-----------------------------------------------------------------------------
(* Properties.                                                             *)

\* No crash, failed save or order of steps of the schema check leaves a stale
\* row behind: barring the faults, every valid row was planned with the schema
\* whose hash is recorded.
CacheFresh ==
    faults = {} => \A e \in cache : \A s \in Source : e.ver[s] = hash[s]

\* Under the same proviso, every plan a process offers for execution, from
\* the cache or not, was made for the schema that process has loaded.
ServedFresh ==
    faults = {} =>
        \A i \in PlanId : plans[i].listed => plans[i].ver = procs[plans[i].proc].ver
=============================================================================
