------------------------- MODULE PlanServiceProofs -------------------------
(***************************************************************************)
(* Barring the faults PlanService names, no row of the semantic cache and  *)
(* no plan on offer was made for another schema.                           *)
(*                                                                         *)
(* CacheFresh alone is not inductive: that a stored row agrees with the    *)
(* recorded hashes follows from what the storing process knows of them.    *)
(* Agreed, Checked, ToBeSaved and Known say what a process knows at each   *)
(* step of the schema check, PlansFresh and HitsFresh carry it over to the *)
(* plans in memory and the rows a request has read.                        *)
(***************************************************************************)
EXTENDS PlanService, TLAPS

-----------------------------------------------------------------------------
(* The inductive invariant.                                                *)

ProcOK(p) ==
    /\ procs[p].cacheOn => procs[p].pc = "up"
    /\ procs[p].pc = "boot" => procs[p].src = 1

PlanOK(i) ==
    /\ plans[i].listed => ~plans[i].free
    /\ ~plans[i].free => procs[plans[i].proc].pc = "up"

ReqOK(r) ==
    /\ reqs[r].pc = "idle" => reqs[r].pid = "none"
    /\ reqs[r].pc # "idle" => procs[reqs[r].proc].pc = "up"
    /\ reqs[r].pc \in {"lookup", "enrich", "store", "storeRun"} => procs[reqs[r].proc].cacheOn
    /\ reqs[r].pc \in {"store", "run", "storeRun"} => reqs[r].pid # "none"
    /\ reqs[r].pid # "none" => /\ ~plans[reqs[r].pid].free
                               /\ plans[reqs[r].pid].proc = reqs[r].proc

Structure ==
    /\ \A p \in Proc : ProcOK(p)
    /\ \A i \in PlanId : PlanOK(i)
    /\ \A r \in Req : ReqOK(r)

Agreed ==
    \A p, q \in Proc : UsesCache(p) /\ UsesCache(q) => procs[p].ver = procs[q].ver

Checked ==
    \A p \in Proc : procs[p].pc \in {"lookup", "invalidate", "save"} =>
        /\ procs[p].seen = procs[p].ver[procs[p].src]
        /\ \A s \in Source : s < procs[p].src => hash[s] = procs[p].ver[s]

ToBeSaved ==
    \A p \in Proc : procs[p].pc = "save" =>
        \A e \in cache : e.ver[procs[p].src] = procs[p].ver[procs[p].src]

Known ==
    \A p \in Proc : procs[p].cacheOn => \A s \in Source : hash[s] = procs[p].ver[s]

RowsFresh == \A e \in cache : \A s \in Source : e.ver[s] = hash[s]

PlansFresh ==
    \A i \in PlanId : ~plans[i].free => plans[i].ver = procs[plans[i].proc].ver

HitsFresh ==
    \A r \in Req : reqs[r].pc = "enrich" => reqs[r].hit.ver = procs[reqs[r].proc].ver

Fresh ==
    /\ Agreed
    /\ Checked
    /\ ToBeSaved
    /\ Known
    /\ RowsFresh
    /\ PlansFresh
    /\ HitsFresh

IInv ==
    /\ TypeOK
    /\ Structure
    /\ faults = {} => Fresh

-----------------------------------------------------------------------------
(* Values and helpers.                                                     *)

\* The placeholder records are well typed.
LEMMA Placeholders ==
    /\ AnyMsg \in Msg /\ AnyProc \in Proc
    /\ [s \in Source |-> 1] \in Versions
    /\ 1 \in Source /\ 1 \in Version
    /\ NoEntry \in Entry /\ NoPlan \in Plan /\ Idle \in Request /\ Down \in ProcState
<1>1. AnyMsg \in Msg /\ AnyProc \in Proc
  BY ServiceAssumption, Zenon DEF AnyMsg, AnyProc
<1>2. 1 \in Source /\ 1 \in Version
  BY ServiceAssumption DEF Source, Version
<1>3. [s \in Source |-> 1] \in Versions
  BY <1>2 DEF Versions
<1>4. NoEntry \in Entry
  BY <1>1, <1>3 DEF NoEntry, Entry
<1>5. NoPlan \in Plan
  BY <1>1, <1>3 DEF NoPlan, Plan
<1>6. Idle \in Request
  BY <1>1, <1>4 DEF Idle, Request
<1>7. Down \in ProcState
  BY <1>2, <1>3 DEF Down, ProcState
<1> QED
  BY <1>1, <1>2, <1>3, <1>4, <1>5, <1>6, <1>7

\* A step of the schema check turns a well-typed process into one.
LEMMA AdvancedType ==
    ASSUME ddl \in Versions, NEW q \in ProcState
    PROVE  /\ Advanced(q) \in ProcState
           /\ q.src < NumSources => q.src + 1 \in Source /\ ddl[q.src + 1] \in Version
<1>1. ASSUME q.src < NumSources PROVE q.src + 1 \in Source /\ ddl[q.src + 1] \in Version
  BY <1>1, ServiceAssumption DEF Source, ProcState, Versions
<1>2. CASE q.src < NumSources
  BY <1>1, <1>2 DEF Advanced, ProcState
<1>3. CASE ~(q.src < NumSources)
  BY <1>3 DEF Advanced, ProcState
<1> QED
  BY <1>1, <1>2, <1>3

-----------------------------------------------------------------------------
(* Steps of a process that does not serve requests yet.                    *)

\* Such a process has no plans and no requests, so nothing of theirs changes.
LEMMA BootKeeps ==
    ASSUME IInv, NEW p \in Proc, NEW q \in ProcState,
           procs[p].pc # "up", procs' = [procs EXCEPT ![p] = q],
           q.cacheOn => q.pc = "up", q.pc = "boot" => q.src = 1,
           UNCHANGED <<plans, reqs>>
    PROVE  /\ procs' \in [Proc -> ProcState] /\ plans' \in [PlanId -> Plan]
           /\ reqs' \in [Req -> Request]
           /\ Structure'
           /\ PlansFresh => PlansFresh'
           /\ HitsFresh => HitsFresh'
<1>1. procs' \in [Proc -> ProcState] /\ plans' \in [PlanId -> Plan] /\ reqs' \in [Req -> Request]
  BY DEF IInv, TypeOK
<1>2. \A o \in Proc : procs'[o] = IF o = p THEN q ELSE procs[o]
  BY DEF IInv, TypeOK
<1>3. \A o \in Proc : ProcOK(o)'
  BY <1>2 DEF IInv, Structure, ProcOK
<1>4. \A i \in PlanId : ~plans[i].free => plans[i].proc \in Proc \ {p}
  BY DEF IInv, TypeOK, Structure, PlanOK, Plan
<1>5. \A r \in Req : reqs[r].pc # "idle" => reqs[r].proc \in Proc \ {p}
  BY DEF IInv, TypeOK, Structure, ReqOK, Request
<1>6. \A i \in PlanId : PlanOK(i)'
  BY <1>2, <1>4 DEF IInv, Structure, PlanOK
<1>7. \A r \in Req : ReqOK(r)'
  BY <1>2, <1>5 DEF IInv, Structure, ReqOK
<1>8. PlansFresh => PlansFresh'
  BY <1>2, <1>4 DEF PlansFresh
<1>9. HitsFresh => HitsFresh'
  BY <1>2, <1>5 DEF HitsFresh
<1> QED
  BY <1>1, <1>3, <1>6, <1>7, <1>8, <1>9 DEF Structure

\* A new process that agrees with the others, or a recorded fault.
LEMMA BootStep ==
    ASSUME IInv, NEW p \in Proc, Boot(p)
    PROVE  IInv'
<1> DEFINE q == [Down EXCEPT !.pc = "boot", !.ver = ddl]
<1>1. q \in ProcState /\ q.pc = "boot" /\ q.src = 1 /\ ~q.cacheOn /\ q.ver = ddl
  BY Placeholders DEF Down, ProcState, IInv, TypeOK
<1>2. procs[p].pc # "up" /\ procs' = [procs EXCEPT ![p] = q] /\ UNCHANGED <<ddl, hash, cache, plans, reqs>>
  BY DEF Boot, SetProc
<1>3. /\ procs' \in [Proc -> ProcState] /\ plans' \in [PlanId -> Plan] /\ reqs' \in [Req -> Request]
      /\ Structure' /\ (PlansFresh => PlansFresh') /\ (HitsFresh => HitsFresh')
  BY <1>1, <1>2, BootKeeps, Zenon
<1>4. \A o \in Proc : procs'[o] = IF o = p THEN q ELSE procs[o]
  BY <1>2 DEF IInv, TypeOK
<1>5. faults' \subseteq Fault
  BY DEF Boot, Note, Fault, IInv, TypeOK
<1>6. TypeOK'
  BY <1>2, <1>3, <1>5 DEF IInv, TypeOK
<1>7. ASSUME faults' = {} PROVE Fresh'
  <2>1. Fresh /\ \A o \in Proc : UsesCache(o) => procs[o].ver = ddl
    BY <1>7 DEF IInv, Boot, Note
  <2>2. Agreed'
    BY <1>1, <1>4, <2>1 DEF Agreed, UsesCache
  <2>3. Checked' /\ ToBeSaved' /\ Known' /\ RowsFresh'
    BY <1>1, <1>2, <1>4, <2>1 DEF Fresh, Checked, ToBeSaved, Known, RowsFresh
  <2> QED
    BY <1>3, <2>1, <2>2, <2>3 DEF Fresh
<1> QED
  BY <1>3, <1>6, <1>7 DEF IInv

\* Without the cache there is nothing to agree on.
LEMMA RunUncachedStep ==
    ASSUME IInv, NEW p \in Proc, RunUncached(p)
    PROVE  IInv'
<1> DEFINE q == [procs[p] EXCEPT !.pc = "up"]
<1>1. q \in ProcState /\ q.pc = "up" /\ ~q.cacheOn
  BY DEF RunUncached, ProcState, IInv, TypeOK, Structure, ProcOK
<1>2. procs[p].pc # "up" /\ procs' = [procs EXCEPT ![p] = q]
      /\ UNCHANGED <<ddl, hash, cache, plans, reqs, faults>>
  BY DEF RunUncached, SetProc
<1>3. /\ procs' \in [Proc -> ProcState] /\ plans' \in [PlanId -> Plan] /\ reqs' \in [Req -> Request]
      /\ Structure' /\ (PlansFresh => PlansFresh') /\ (HitsFresh => HitsFresh')
  BY <1>1, <1>2, BootKeeps
<1>4. \A o \in Proc : procs'[o] = IF o = p THEN q ELSE procs[o]
  BY <1>2 DEF IInv, TypeOK
<1>5. TypeOK'
  BY <1>2, <1>3 DEF IInv, TypeOK
<1>6. ASSUME faults' = {} PROVE Fresh'
  <2>1. Fresh
    BY <1>2, <1>6 DEF IInv
  <2>2. \A o \in Proc : UsesCache(o)' => UsesCache(o) /\ procs'[o] = procs[o]
    BY <1>1, <1>2, <1>4 DEF UsesCache
  <2>4. Agreed'
    BY <2>1, <2>2 DEF Fresh, Agreed
  <2>3. Checked' /\ ToBeSaved' /\ Known' /\ RowsFresh'
    BY <1>1, <1>2, <1>4, <2>1 DEF Fresh, Checked, ToBeSaved, Known, RowsFresh
  <2> QED
    BY <1>3, <2>1, <2>4, <2>3 DEF Fresh
<1> QED
  BY <1>3, <1>5, <1>6 DEF IInv

\* The hash of the first file is the one of the schema, or a fault.
LEMMA StartCheckStep ==
    ASSUME IInv, NEW p \in Proc, StartCheck(p)
    PROVE  IInv'
<1> DEFINE q == [procs[p] EXCEPT !.pc = "lookup", !.seen = ddl[1]]
<1>1. /\ q \in ProcState /\ q.pc = "lookup" /\ ~q.cacheOn /\ q.src = 1 /\ q.seen = ddl[1]
      /\ q.ver = procs[p].ver
  BY Placeholders DEF StartCheck, ProcState, Versions, IInv, TypeOK, Structure, ProcOK
<1>2. procs[p].pc = "boot" /\ procs' = [procs EXCEPT ![p] = q] /\ UNCHANGED <<ddl, hash, cache, plans, reqs>>
  BY DEF StartCheck, SetProc
<1>3. /\ procs' \in [Proc -> ProcState] /\ plans' \in [PlanId -> Plan] /\ reqs' \in [Req -> Request]
      /\ Structure' /\ (PlansFresh => PlansFresh') /\ (HitsFresh => HitsFresh')
  BY <1>1, <1>2, BootKeeps
<1>4. \A o \in Proc : procs'[o] = IF o = p THEN q ELSE procs[o]
  BY <1>2 DEF IInv, TypeOK
<1>5. faults' \subseteq Fault
  BY DEF StartCheck, Note, Fault, IInv, TypeOK
<1>6. TypeOK'
  BY <1>2, <1>3, <1>5 DEF IInv, TypeOK
<1>7. ASSUME faults' = {} PROVE Fresh'
  <2>1. Fresh /\ ddl[1] = procs[p].ver[1]
    BY <1>7 DEF IInv, StartCheck, Note
  <2>2. Agreed'
    BY <1>1, <1>2, <1>4, <2>1 DEF Fresh, Agreed, UsesCache
  <2>3. Checked'
    BY <1>1, <1>2, <1>4, <2>1 DEF Fresh, Checked, Source
  <2>4. ToBeSaved' /\ Known' /\ RowsFresh'
    BY <1>1, <1>2, <1>4, <2>1 DEF Fresh, ToBeSaved, Known, RowsFresh
  <2> QED
    BY <1>3, <2>1, <2>2, <2>3, <2>4 DEF Fresh
<1> QED
  BY <1>3, <1>6, <1>7 DEF IInv

\* The end of an iteration of the schema check: if the hashes up to this
\* datasource are those of the loaded schema, so are they afterwards.
LEMMA AdvancedKnows ==
    ASSUME ddl \in Versions, NEW q \in ProcState, ~q.cacheOn, NEW h,
           \A s \in Source : s <= q.src => h[s] = q.ver[s]
    PROVE  /\ Advanced(q).ver = q.ver
           /\ Advanced(q).pc \in {"lookup", "up"}
           /\ Advanced(q).pc = "lookup" =>
                /\ ~Advanced(q).cacheOn
                /\ ~Reread(q) => Advanced(q).seen = q.ver[Advanced(q).src]
                /\ \A s \in Source : s < Advanced(q).src => h[s] = q.ver[s]
           /\ Advanced(q).cacheOn => /\ Advanced(q).pc = "up"
                                     /\ \A s \in Source : h[s] = q.ver[s]
<1>1. CASE q.src < NumSources
  <2>1. /\ Advanced(q).pc = "lookup" /\ Advanced(q).ver = q.ver /\ Advanced(q).src = q.src + 1
        /\ Advanced(q).seen = ddl[q.src + 1] /\ ~Advanced(q).cacheOn
    BY <1>1 DEF Advanced, ProcState
  <2>2. \A s \in Source : s < q.src + 1 => h[s] = q.ver[s]
    BY ServiceAssumption DEF Source, ProcState
  <2> QED
    BY <1>1, <2>1, <2>2 DEF Reread
<1>2. CASE ~(q.src < NumSources)
  <2>1. Advanced(q).pc = "up" /\ Advanced(q).ver = q.ver
    BY <1>2 DEF Advanced, ProcState
  <2>2. \A s \in Source : s <= q.src
    BY <1>2, ServiceAssumption DEF Source, ProcState
  <2> QED
    BY <2>1, <2>2
<1> QED
  BY <1>1, <1>2

\* A step of the schema check keeps the invariant if it records no hash but
\* that of the loaded schema and the process knows enough at its next step.
LEMMA CheckKeeps ==
    ASSUME IInv, NEW p \in Proc, NEW q \in ProcState,
           procs[p].pc \in {"lookup", "invalidate", "save"},
           procs' = [procs EXCEPT ![p] = q], UNCHANGED <<ddl, plans, reqs>>,
           q.ver = procs[p].ver, q.pc # "boot", q.cacheOn => q.pc = "up",
           hash' \in [Source -> 0..MaxVersion], cache' \subseteq cache,
           faults' \subseteq Fault, faults \subseteq faults',
           (faults' = {} /\ Fresh) =>
               /\ \A s \in Source : hash'[s] \in {hash[s], q.ver[s]}
               /\ RowsFresh'
               /\ q.pc \in {"lookup", "invalidate", "save"} =>
                     /\ q.seen = q.ver[q.src]
                     /\ \A s \in Source : s < q.src => hash'[s] = q.ver[s]
               /\ q.pc = "save" => \A e \in cache' : e.ver[q.src] = q.ver[q.src]
               /\ q.cacheOn => \A s \in Source : hash'[s] = q.ver[s]
    PROVE  IInv'
<1>1. procs[p].pc # "up" /\ UNCHANGED <<plans, reqs>> /\ (q.pc = "boot" => q.src = 1)
  OBVIOUS
<1>2. /\ procs' \in [Proc -> ProcState] /\ plans' \in [PlanId -> Plan] /\ reqs' \in [Req -> Request]
      /\ Structure' /\ (PlansFresh => PlansFresh') /\ (HitsFresh => HitsFresh')
  BY <1>1, BootKeeps
<1>3. \A o \in Proc : procs'[o] = IF o = p THEN q ELSE procs[o]
  BY DEF IInv, TypeOK
<1>4. TypeOK'
  BY <1>2 DEF IInv, TypeOK
<1>5. ASSUME faults' = {} PROVE Fresh'
  <2>1. Fresh
    BY <1>5 DEF IInv
  <2>2. \A o \in Proc : UsesCache(o)' => UsesCache(o)
    BY <1>3 DEF UsesCache
  <2>3. \A o \in Proc : procs'[o].ver = procs[o].ver
    BY <1>3
  <2>4. Agreed'
    BY <2>1, <2>2, <2>3 DEF Fresh, Agreed
  <2>5. \A o \in Proc, s \in Source : UsesCache(o) => hash'[s] \in {hash[s], procs[o].ver[s]}
    BY <1>5, <2>1 DEF Fresh, Agreed, UsesCache
  <2>6. Checked'
    BY <1>3, <1>5, <2>1, <2>5 DEF Fresh, Checked, UsesCache
  <2>7. ToBeSaved'
    BY <1>3, <1>5, <2>1 DEF Fresh, ToBeSaved
  <2>8. Known'
    BY <1>3, <1>5, <2>1, <2>5 DEF Fresh, Known, UsesCache
  <2> QED
    BY <1>2, <1>5, <2>1, <2>4, <2>6, <2>7, <2>8 DEF Fresh
<1> QED
  BY <1>2, <1>4, <1>5 DEF IInv

\* Looking up a hash: a missing one means there are no rows yet.
LEMMA LookupStep ==
    ASSUME IInv, NEW p \in Proc, NEW found, LookupHash(p, found)
    PROVE  IInv'
<1>1. /\ procs[p] \in ProcState /\ procs[p].pc = "lookup" /\ ~procs[p].cacheOn
      /\ ddl \in Versions /\ hash \in [Source -> 0..MaxVersion] /\ cache \subseteq Entry
  BY DEF LookupHash, IInv, TypeOK, Structure, ProcOK
<1>2. UNCHANGED <<ddl, hash, cache, plans, reqs>>
  BY DEF LookupHash
<1>3. /\ faults' \subseteq Fault /\ faults \subseteq faults'
      /\ faults' = {} => /\ found = hash[procs[p].src]
                         /\ found = procs[p].seen => ~Reread(procs[p])
  BY DEF LookupHash, IInv, TypeOK, Fault
<1>4. ASSUME faults' = {}, Fresh
      PROVE  /\ RowsFresh' /\ \A s \in Source : hash'[s] = hash[s]
             /\ procs[p].seen = procs[p].ver[procs[p].src]
             /\ \A s \in Source : s < procs[p].src => hash[s] = procs[p].ver[s]
             /\ found = 0 => cache = {}
  <2>1. procs[p].src \in Source /\ \A e \in cache : e.ver[procs[p].src] # 0
    BY <1>1 DEF ProcState, Entry, Versions, Version
  <2>2. found = 0 => cache = {}
    BY <1>3, <1>4, <2>1 DEF Fresh, RowsFresh
  <2> QED
    BY <1>1, <1>2, <1>4, <2>2 DEF Fresh, RowsFresh, Checked
<1>5. CASE found = 0 /\ SetProc(p, [procs[p] EXCEPT !.pc = "save"])
  <2> DEFINE q == [procs[p] EXCEPT !.pc = "save"]
  <2>1. /\ q \in ProcState /\ q.pc = "save" /\ ~q.cacheOn /\ q.ver = procs[p].ver
        /\ q.src = procs[p].src /\ q.seen = procs[p].seen
    BY <1>1 DEF ProcState
  <2>2. procs' = [procs EXCEPT ![p] = q]
    BY <1>5 DEF SetProc
  <2> HIDE DEF q
  <2> QED
    BY <1>1, <1>2, <1>3, <1>4, <1>5, <2>1, <2>2, CheckKeeps
<1>6. CASE found = procs[p].seen /\ SetProc(p, Advanced(procs[p]))
  <2> DEFINE q == Advanced(procs[p])
  <2>1. procs' = [procs EXCEPT ![p] = q] /\ q \in ProcState
    BY <1>1, <1>6, AdvancedType DEF SetProc
  <2>2. /\ q.ver = procs[p].ver /\ q.pc \in {"lookup", "up"} /\ (q.cacheOn => q.pc = "up")
    BY <1>1, AdvancedKnows
  <2>3. ASSUME faults' = {}, Fresh
        PROVE  /\ q.pc = "lookup" => /\ q.seen = q.ver[q.src]
                                     /\ \A s \in Source : s < q.src => hash[s] = q.ver[s]
               /\ q.cacheOn => \A s \in Source : hash[s] = q.ver[s]
    <3>1. hash[procs[p].src] = procs[p].ver[procs[p].src]
      BY <1>3, <1>4, <1>6, <2>3
    <3>2. \A s \in Source : s <= procs[p].src => s < procs[p].src \/ s = procs[p].src
      BY <1>1, ServiceAssumption DEF Source, ProcState
    <3>3. \A s \in Source : s <= procs[p].src => hash[s] = procs[p].ver[s]
      BY <1>4, <2>3, <3>1, <3>2
    <3> QED
      BY <1>1, <1>3, <1>6, <2>2, <2>3, <3>3, AdvancedKnows
  <2> HIDE DEF q
  <2> QED
    BY <1>1, <1>2, <1>3, <1>4, <2>1, <2>2, <2>3, CheckKeeps
<1>7. CASE found \notin {0, procs[p].seen} /\ SetProc(p, [procs[p] EXCEPT !.pc = "invalidate"])
  <2> DEFINE q == [procs[p] EXCEPT !.pc = "invalidate"]
  <2>1. /\ q \in ProcState /\ q.pc = "invalidate" /\ ~q.cacheOn /\ q.ver = procs[p].ver
        /\ q.src = procs[p].src /\ q.seen = procs[p].seen
    BY <1>1 DEF ProcState
  <2>2. procs' = [procs EXCEPT ![p] = q]
    BY <1>7 DEF SetProc
  <2> HIDE DEF q
  <2> QED
    BY <1>1, <1>2, <1>3, <1>4, <2>1, <2>2, CheckKeeps
<1> QED
  BY <1>5, <1>6, <1>7 DEF LookupHash

\* Invalidating the rows, or a recorded fault.
LEMMA InvalidateStep ==
    ASSUME IInv, NEW p \in Proc, NEW ok \in BOOLEAN, Invalidate(p, ok)
    PROVE  IInv'
<1> DEFINE q == [procs[p] EXCEPT !.pc = "save"]
<1>1. /\ procs[p] \in ProcState /\ procs[p].pc = "invalidate" /\ ~procs[p].cacheOn
      /\ hash \in [Source -> 0..MaxVersion]
  BY DEF Invalidate, IInv, TypeOK, Structure, ProcOK
<1>2. /\ q \in ProcState /\ q.pc = "save" /\ ~q.cacheOn /\ q.ver = procs[p].ver
      /\ q.src = procs[p].src /\ q.seen = procs[p].seen
  BY <1>1 DEF ProcState
<1>3. procs' = [procs EXCEPT ![p] = q] /\ UNCHANGED <<ddl, hash, plans, reqs>>
  BY DEF Invalidate, SetProc
<1> HIDE DEF q
<1>4. CASE ok
  <2>1. cache' = {} /\ faults' = faults
    BY <1>4 DEF Invalidate, Note
  <2>2. Fresh => /\ RowsFresh' /\ q.seen = q.ver[q.src]
                 /\ \A s \in Source : s < q.src => hash'[s] = q.ver[s]
    BY <1>1, <1>2, <1>3, <2>1 DEF Fresh, Checked, RowsFresh
  <2> QED
    BY <1>1, <1>2, <1>3, <2>1, <2>2, CheckKeeps DEF IInv, TypeOK
<1>5. CASE ~ok
  <2>1. cache' = cache /\ faults' = faults \cup {"invalidate"}
    BY <1>5 DEF Invalidate, Note
  <2>2. faults' \subseteq Fault /\ faults' # {}
    BY <2>1 DEF IInv, TypeOK, Fault
  <2> QED
    BY <1>1, <1>2, <1>3, <2>1, <2>2, CheckKeeps
<1> QED
  BY <1>4, <1>5

\* Recording the hash of the loaded schema; the rows agree with it already.
LEMMA SaveStep ==
    ASSUME IInv, NEW p \in Proc, NEW ok \in BOOLEAN, SaveHash(p, ok)
    PROVE  IInv'
<1>1. /\ procs[p] \in ProcState /\ procs[p].pc = "save" /\ ~procs[p].cacheOn
      /\ ddl \in Versions /\ hash \in [Source -> 0..MaxVersion]
      /\ procs[p].src \in Source /\ procs[p].seen \in 0..MaxVersion
  BY DEF SaveHash, IInv, TypeOK, Structure, ProcOK, ProcState, Version
<1>2. UNCHANGED <<ddl, cache, plans, reqs>>
  BY DEF SaveHash
<1>3. /\ faults' \subseteq Fault /\ faults \subseteq faults'
      /\ (faults' = {} /\ ok) => ~Reread(procs[p])
  BY DEF SaveHash, Note, IInv, TypeOK, Fault
<1>4. CASE ok
  <2> DEFINE q == Advanced(procs[p])
  <2>1. /\ procs' = [procs EXCEPT ![p] = q] /\ q \in ProcState
        /\ hash' = [hash EXCEPT ![procs[p].src] = procs[p].seen]
    BY <1>1, <1>4, AdvancedType DEF SaveHash, SetProc
  <2>2. /\ q.ver = procs[p].ver /\ q.pc \in {"lookup", "up"} /\ (q.cacheOn => q.pc = "up")
    BY <1>1, AdvancedKnows
  <2>3. hash' \in [Source -> 0..MaxVersion]
    BY <1>1, <2>1
  <2>4. ASSUME faults' = {}, Fresh
        PROVE  /\ \A s \in Source : hash'[s] \in {hash[s], q.ver[s]}
               /\ RowsFresh'
               /\ q.pc = "lookup" => /\ q.seen = q.ver[q.src]
                                     /\ \A s \in Source : s < q.src => hash'[s] = q.ver[s]
               /\ q.cacheOn => \A s \in Source : hash'[s] = q.ver[s]
    <3>1. procs[p].seen = procs[p].ver[procs[p].src]
          /\ \A s \in Source : s < procs[p].src => hash[s] = procs[p].ver[s]
      BY <1>1, <2>4 DEF Fresh, Checked
    <3>2. \A s \in Source : s <= procs[p].src => s < procs[p].src \/ s = procs[p].src
      BY <1>1, ServiceAssumption DEF Source
    <3>3. \A s \in Source : s <= procs[p].src => hash'[s] = procs[p].ver[s]
      BY <1>1, <2>1, <3>1, <3>2
    <3>4. \A s \in Source : hash'[s] \in {hash[s], q.ver[s]}
      BY <1>1, <2>1, <2>2, <3>1
    <3>5. RowsFresh'
      <4>1. \A e \in cache : e.ver[procs[p].src] = procs[p].ver[procs[p].src]
        BY <1>1, <2>4 DEF Fresh, ToBeSaved
      <4> QED
        BY <1>1, <1>2, <2>1, <2>4, <3>1, <4>1 DEF Fresh, RowsFresh
    <3> QED
      BY <1>1, <1>3, <1>4, <2>2, <2>4, <3>3, <3>4, <3>5, AdvancedKnows
  <2> HIDE DEF q
  <2> QED
    BY <1>1, <1>2, <1>3, <2>1, <2>2, <2>3, <2>4, CheckKeeps
<1>5. CASE ~ok
  <2> DEFINE q == [procs[p] EXCEPT !.pc = "up"]
  <2>1. q \in ProcState /\ q.pc = "up" /\ ~q.cacheOn /\ q.ver = procs[p].ver
    BY <1>1 DEF ProcState
  <2>2. procs' = [procs EXCEPT ![p] = q] /\ hash' = hash
    BY <1>5 DEF SaveHash, SetProc
  <2>3. Fresh => RowsFresh'
    BY <1>2, <2>2 DEF Fresh, RowsFresh
  <2> HIDE DEF q
  <2> QED
    BY <1>1, <1>2, <1>3, <2>1, <2>2, <2>3, CheckKeeps
<1> QED
  BY <1>4, <1>5

\* A DDL file on disk is not what a process has loaded.
LEMMA ChangeDDLStep ==
    ASSUME IInv, NEW s \in Source, ChangeDDL(s)
    PROVE  IInv'
<1>1. ddl' \in Versions
  BY DEF ChangeDDL, IInv, TypeOK, Versions
<1>2. UNCHANGED <<hash, cache, procs, plans, reqs, faults>>
  BY DEF ChangeDDL
<1>3. TypeOK'
  BY <1>1, <1>2 DEF IInv, TypeOK
<1>4. Structure'
  BY <1>2 DEF IInv, Structure, ProcOK, PlanOK, ReqOK
<1>5. Fresh => Fresh'
  BY <1>2 DEF Fresh, Agreed, Checked, ToBeSaved, Known, RowsFresh, PlansFresh, HitsFresh, UsesCache
<1> QED
  BY <1>2, <1>3, <1>4, <1>5 DEF IInv

\* Rows only go.
LEMMA ClearCacheStep ==
    ASSUME IInv, NEW p \in Proc, ClearCache(p)
    PROVE  IInv'
<1>1. cache' = {} /\ UNCHANGED <<ddl, hash, procs, plans, reqs, faults>>
  BY DEF ClearCache
<1>2. TypeOK'
  BY <1>1 DEF IInv, TypeOK
<1>3. Structure'
  BY <1>1 DEF IInv, Structure, ProcOK, PlanOK, ReqOK
<1>4. Fresh => Fresh'
  BY <1>1 DEF Fresh, Agreed, Checked, ToBeSaved, Known, RowsFresh, PlansFresh, HitsFresh, UsesCache
<1> QED
  BY <1>1, <1>2, <1>3, <1>4 DEF IInv

\* A crash takes the plans and the requests of the process along.
LEMMA CrashStep ==
    ASSUME IInv, NEW p \in Proc, Crash(p)
    PROVE  IInv'
<1>1. procs' = [procs EXCEPT ![p] = Down] /\ UNCHANGED <<ddl, hash, cache, faults>>
  BY DEF Crash, SetProc
<1>2. \A i \in PlanId : plans'[i] = IF plans[i].proc = p THEN NoPlan ELSE plans[i]
  BY DEF Crash
<1>3. \A r \in Req : reqs'[r] = IF reqs[r].proc = p THEN Idle ELSE reqs[r]
  BY DEF Crash
<1>4. \A o \in Proc : procs'[o] = IF o = p THEN Down ELSE procs[o]
  BY <1>1 DEF IInv, TypeOK
<1>5. Down.pc = "down" /\ ~Down.cacheOn /\ NoPlan.free /\ ~NoPlan.listed /\ Idle.pc = "idle" /\ Idle.pid = "none"
  BY DEF Down, NoPlan, Idle
<1>6. TypeOK'
  <2>1. procs' \in [Proc -> ProcState]
    BY <1>1, Placeholders DEF IInv, TypeOK
  <2>2. plans' \in [PlanId -> Plan]
    BY Placeholders DEF Crash, IInv, TypeOK
  <2>3. reqs' \in [Req -> Request]
    BY Placeholders DEF Crash, IInv, TypeOK
  <2> QED
    BY <1>1, <2>1, <2>2, <2>3 DEF IInv, TypeOK
<1>7. \A i \in PlanId : plans[i].proc \in Proc
  BY DEF IInv, TypeOK, Plan
<1>8. \A r \in Req : reqs[r].proc \in Proc /\ (reqs[r].pid # "none" => reqs[r].pid \in PlanId)
  BY DEF IInv, TypeOK, Request
<1>9. Structure'
  <2>1. \A o \in Proc : ProcOK(o)'
    BY <1>4, <1>5 DEF IInv, Structure, ProcOK
  <2>2. \A i \in PlanId : PlanOK(i)'
    BY <1>2, <1>4, <1>5, <1>7 DEF IInv, Structure, PlanOK
  <2>3. \A r \in Req : ReqOK(r)'
    <3> SUFFICES ASSUME NEW r \in Req PROVE ReqOK(r)'
      OBVIOUS
    <3>1. CASE reqs[r].proc = p
      BY <1>3, <1>5, <3>1 DEF ReqOK
    <3>2. CASE reqs[r].proc # p
      BY <1>2, <1>3, <1>4, <1>8, <3>2 DEF IInv, Structure, ReqOK
    <3> QED
      BY <3>1, <3>2
  <2> QED
    BY <2>1, <2>2, <2>3 DEF Structure
<1>10. ASSUME faults' = {} PROVE Fresh'
  <2>1. Fresh
    BY <1>1, <1>10 DEF IInv
  <2>2. Agreed'
    BY <1>4, <1>5, <2>1 DEF Fresh, Agreed, UsesCache
  <2>3. Checked' /\ ToBeSaved' /\ Known' /\ RowsFresh'
    BY <1>1, <1>4, <1>5, <2>1 DEF Fresh, Checked, ToBeSaved, Known, RowsFresh
  <2>4. PlansFresh'
    BY <1>2, <1>4, <1>5, <1>7, <2>1 DEF Fresh, PlansFresh
  <2>5. HitsFresh'
    BY <1>3, <1>4, <1>5, <1>8, <2>1 DEF Fresh, HitsFresh
  <2> QED
    BY <2>2, <2>3, <2>4, <2>5 DEF Fresh
<1> QED
  BY <1>6, <1>9, <1>10 DEF IInv

-----------------------------------------------------------------------------
(* Steps that serve a request.                                             *)

\* Serving requests keeps the invariant if plans and requests stay in order
\* and new rows are made for the schema of a process that uses the cache.
LEMMA ServeKeeps ==
    ASSUME IInv, UNCHANGED <<ddl, hash, procs, faults>>,
           reqs' \in [Req -> Request], plans' \in [PlanId -> Plan], cache' \subseteq Entry,
           \A i \in PlanId : PlanOK(i)', \A r \in Req : ReqOK(r)',
           (faults = {} /\ Fresh) =>
               /\ PlansFresh'
               /\ HitsFresh'
               /\ \A e \in cache' : e \in cache \/ \E p \in Proc : /\ procs[p].cacheOn
                                                                  /\ e.ver = procs[p].ver
    PROVE  IInv'
<1>1. TypeOK'
  BY DEF IInv, TypeOK
<1>2. Structure'
  BY DEF IInv, Structure, ProcOK
<1>3. ASSUME faults' = {} PROVE Fresh'
  <2>1. Fresh
    BY <1>3 DEF IInv
  <2>2. Agreed' /\ Checked' /\ Known'
    BY <2>1 DEF Fresh, Agreed, Checked, Known, UsesCache
  <2>3. RowsFresh'
    BY <1>3, <2>1 DEF Fresh, RowsFresh, Known
  <2>4. ToBeSaved'
    <3>1. \A p, q \in Proc : procs[p].cacheOn /\ procs[q].pc = "save" => procs[p].ver = procs[q].ver
      BY <2>1 DEF Fresh, Agreed, UsesCache
    <3> QED
      BY <1>3, <2>1, <3>1 DEF Fresh, ToBeSaved
  <2> QED
    BY <1>3, <2>1, <2>2, <2>3, <2>4 DEF Fresh
<1> QED
  BY <1>1, <1>2, <1>3 DEF IInv

\* Only the request changes.
LEMMA RequestKeeps ==
    ASSUME IInv, NEW r \in Req, NEW q \in Request, reqs' = [reqs EXCEPT ![r] = q],
           UNCHANGED <<ddl, hash, cache, procs, plans, faults>>,
           q.pc = "idle" => q.pid = "none",
           q.pc # "idle" => procs[q.proc].pc = "up",
           q.pc \in {"lookup", "enrich", "store", "storeRun"} => procs[q.proc].cacheOn,
           q.pc \in {"store", "run", "storeRun"} => q.pid # "none",
           q.pid # "none" => ~plans[q.pid].free /\ plans[q.pid].proc = q.proc,
           (faults = {} /\ Fresh /\ q.pc = "enrich") => q.hit.ver = procs[q.proc].ver
    PROVE  IInv'
<1>1. reqs' \in [Req -> Request] /\ plans' \in [PlanId -> Plan] /\ cache' \subseteq Entry
  BY DEF IInv, TypeOK
<1>2. \A o \in Req : reqs'[o] = IF o = r THEN q ELSE reqs[o]
  BY DEF IInv, TypeOK
<1>3. \A i \in PlanId : PlanOK(i)'
  BY DEF IInv, Structure, PlanOK
<1>4. \A o \in Req : ReqOK(o)'
  BY <1>2 DEF IInv, Structure, ReqOK
<1>5. ASSUME faults = {}, Fresh PROVE PlansFresh' /\ HitsFresh'
  BY <1>2, <1>5 DEF Fresh, PlansFresh, HitsFresh
<1> QED
  BY <1>1, <1>3, <1>4, <1>5, ServeKeeps

\* A plan is stored under a free id; the request ends or holds it.
LEMMA StoreKeeps ==
    ASSUME IInv, NEW r \in Req, NEW q \in Request, NEW i \in PlanId, NEW x \in Plan,
           reqs' = [reqs EXCEPT ![r] = q], Store(i, x),
           UNCHANGED <<ddl, hash, cache, procs, faults>>,
           ~x.free, procs[x.proc].pc = "up",
           (faults = {} /\ Fresh) => x.ver = procs[x.proc].ver,
           \/ q = Idle
           \/ q.pc = "store" /\ q.pid = i /\ q.proc = x.proc /\ procs[x.proc].cacheOn
    PROVE  IInv'
<1>1. plans[i].free /\ plans' = [plans EXCEPT ![i] = x]
  BY DEF Store, SetPlan
<1>2. reqs' \in [Req -> Request] /\ plans' \in [PlanId -> Plan] /\ cache' \subseteq Entry
  BY <1>1 DEF IInv, TypeOK
<1>3. \A o \in Req : reqs'[o] = IF o = r THEN q ELSE reqs[o]
  BY DEF IInv, TypeOK
<1>4. \A j \in PlanId : plans'[j] = IF j = i THEN x ELSE plans[j]
  BY <1>1 DEF IInv, TypeOK
<1>5. \A o \in Req : reqs[o].pid # "none" => reqs[o].pid \in PlanId \ {i}
  BY <1>1 DEF IInv, TypeOK, Structure, ReqOK, Request
<1>6. \A j \in PlanId : PlanOK(j)'
  BY <1>4 DEF IInv, Structure, PlanOK
<1>7. \A o \in Req : ReqOK(o)'
  <2> SUFFICES ASSUME NEW o \in Req PROVE ReqOK(o)'
    OBVIOUS
  <2>1. CASE o # r
    BY <1>3, <1>4, <1>5, <2>1 DEF IInv, Structure, ReqOK
  <2>2. CASE o = r /\ q = Idle
    BY <1>3, <2>2 DEF Idle, ReqOK
  <2>3. CASE o = r /\ q # Idle
    BY <1>3, <1>4, <2>3, ServiceAssumption DEF ReqOK
  <2> QED
    BY <2>1, <2>2, <2>3
<1>8. q.pc # "enrich"
  BY DEF Idle
<1>9. ASSUME faults = {}, Fresh PROVE PlansFresh' /\ HitsFresh'
  BY <1>3, <1>4, <1>8, <1>9 DEF Fresh, PlansFresh, HitsFresh
<1> QED
  BY <1>2, <1>6, <1>7, <1>9, ServeKeeps

\* The plan of an id changes, but not its process, its schema or its use; at
\* most one request changes with it, and it does not read the cache.
LEMMA UpdateKeeps ==
    ASSUME IInv, NEW i \in PlanId, NEW x \in Plan, plans' = [plans EXCEPT ![i] = x],
           x.proc = plans[i].proc, x.ver = plans[i].ver, x.free = plans[i].free,
           x.listed => plans[i].listed,
           reqs' \in [Req -> Request], \A r \in Req : ReqOK(r)',
           \A r \in Req : reqs'[r].pc = "enrich" => reqs'[r] = reqs[r],
           UNCHANGED <<ddl, hash, cache, procs, faults>>
    PROVE  IInv'
<1>1. plans' \in [PlanId -> Plan] /\ cache' \subseteq Entry
  BY DEF IInv, TypeOK
<1>2. \A j \in PlanId : plans'[j] = IF j = i THEN x ELSE plans[j]
  BY DEF IInv, TypeOK
<1>3. \A j \in PlanId : PlanOK(j)'
  BY <1>2 DEF IInv, Structure, PlanOK
<1>4. ASSUME faults = {}, Fresh PROVE PlansFresh' /\ HitsFresh'
  BY <1>2, <1>4 DEF Fresh, PlansFresh, HitsFresh
<1> QED
  BY <1>1, <1>3, <1>4, ServeKeeps

\* A plan nobody else uses is dropped with the request that used it.
LEMMA FreeKeeps ==
    ASSUME IInv, NEW i \in PlanId, plans' = [plans EXCEPT ![i] = NoPlan],
           reqs' \in [Req -> Request], \A r \in Req : reqs'[r] \in {reqs[r], Idle},
           \A r \in Req : reqs[r].pid = i => reqs'[r] = Idle,
           cache' \subseteq Entry, UNCHANGED <<ddl, hash, procs, faults>>,
           (faults = {} /\ Fresh) =>
               \A e \in cache' : e \in cache \/ \E p \in Proc : /\ procs[p].cacheOn
                                                               /\ e.ver = procs[p].ver
    PROVE  IInv'
<1>1. plans' \in [PlanId -> Plan]
  BY Placeholders DEF IInv, TypeOK
<1>2. \A j \in PlanId : plans'[j] = IF j = i THEN NoPlan ELSE plans[j]
  BY DEF IInv, TypeOK
<1>3. NoPlan.free /\ ~NoPlan.listed /\ Idle.pc = "idle" /\ Idle.pid = "none"
  BY DEF NoPlan, Idle
<1>4. \A r \in Req : reqs[r].pid # "none" => reqs[r].pid \in PlanId
  BY DEF IInv, TypeOK, Request
<1>5. \A j \in PlanId : PlanOK(j)'
  BY <1>2, <1>3 DEF IInv, Structure, PlanOK
<1>6. \A r \in Req : ReqOK(r)'
  <2> SUFFICES ASSUME NEW r \in Req PROVE ReqOK(r)'
    OBVIOUS
  <2>1. CASE reqs'[r] = Idle
    BY <1>3, <2>1 DEF ReqOK
  <2>2. CASE reqs'[r] = reqs[r] /\ reqs[r].pid # i
    BY <1>2, <1>4, <2>2 DEF IInv, Structure, ReqOK
  <2> QED
    BY <2>1, <2>2
<1>7. ASSUME faults = {}, Fresh PROVE PlansFresh' /\ HitsFresh'
  BY <1>2, <1>3, <1>7 DEF Fresh, PlansFresh, HitsFresh
<1> QED
  BY <1>1, <1>5, <1>6, <1>7, ServeKeeps

\* The request ends, the plans stay, the cache may have a new row.
LEMMA EndKeeps ==
    ASSUME IInv, NEW r \in Req, reqs' = [reqs EXCEPT ![r] = Idle],
           UNCHANGED <<ddl, hash, procs, plans, faults>>, cache' \subseteq Entry,
           (faults = {} /\ Fresh) =>
               \A e \in cache' : e \in cache \/ \E p \in Proc : /\ procs[p].cacheOn
                                                               /\ e.ver = procs[p].ver
    PROVE  IInv'
<1>1. reqs' \in [Req -> Request] /\ plans' \in [PlanId -> Plan]
  BY Placeholders DEF IInv, TypeOK
<1>2. \A o \in Req : reqs'[o] = IF o = r THEN Idle ELSE reqs[o]
  BY DEF IInv, TypeOK
<1>3. Idle.pc = "idle" /\ Idle.pid = "none"
  BY DEF Idle
<1>4. \A i \in PlanId : PlanOK(i)'
  BY DEF IInv, Structure, PlanOK
<1>5. \A o \in Req : ReqOK(o)'
  BY <1>2, <1>3 DEF IInv, Structure, ReqOK
<1>6. ASSUME faults = {}, Fresh PROVE PlansFresh' /\ HitsFresh'
  BY <1>2, <1>3, <1>6 DEF Fresh, PlansFresh, HitsFresh
<1> QED
  BY <1>1, <1>4, <1>5, <1>6, ServeKeeps

\* Ending a request and releasing its plan.
LEMMA ReleaseKeeps ==
    ASSUME IInv, NEW r \in Req, reqs[r].pid \in PlanId,
           SetReq(r, Idle), Release(r, reqs[r].pid),
           UNCHANGED <<ddl, hash, procs, faults>>, cache' \subseteq Entry,
           (faults = {} /\ Fresh) =>
               \A e \in cache' : e \in cache \/ \E p \in Proc : /\ procs[p].cacheOn
                                                               /\ e.ver = procs[p].ver
    PROVE  IInv'
<1>1. reqs' = [reqs EXCEPT ![r] = Idle] /\ reqs' \in [Req -> Request]
  BY Placeholders DEF SetReq, IInv, TypeOK
<1>2. \A o \in Req : reqs'[o] = IF o = r THEN Idle ELSE reqs[o]
  BY <1>1 DEF IInv, TypeOK
<1>3. CASE plans[reqs[r].pid].listed \/ \E q \in Req \ {r} : reqs[q].pid = reqs[r].pid
  <2>1. UNCHANGED plans
    BY <1>3 DEF Release
  <2> QED
    BY <1>1, <2>1, EndKeeps
<1>4. CASE ~(plans[reqs[r].pid].listed \/ \E q \in Req \ {r} : reqs[q].pid = reqs[r].pid)
  <2>1. plans' = [plans EXCEPT ![reqs[r].pid] = NoPlan]
    BY <1>4 DEF Release, SetPlan
  <2>2. \A o \in Req : reqs[o].pid = reqs[r].pid => reqs'[o] = Idle
    BY <1>2, <1>4
  <2> QED
    BY <1>1, <1>2, <2>1, <2>2, FreeKeeps
<1> QED
  BY <1>3, <1>4

\* SemanticCache.store: the plan was made for the schema of its process, and
\* that process uses the cache.
LEMMA StoreInCacheKeeps ==
    ASSUME IInv, NEW r \in Req, NEW key \in Msg, NEW ok \in BOOLEAN,
           reqs[r].pc \in {"store", "storeRun"}, StoreInCache(r, key, ok)
    PROVE  IInv'
<1> DEFINE i == reqs[r].pid
           e == Strip(plans[i], key)
<1>1. /\ i \in PlanId /\ plans[i] \in Plan /\ ~plans[i].free /\ plans[i].proc = reqs[r].proc
      /\ reqs[r].proc \in Proc /\ procs[reqs[r].proc].cacheOn
  BY DEF IInv, TypeOK, Structure, ReqOK, Request
<1>2. e \in Entry /\ e.ver = plans[i].ver
  BY <1>1 DEF Strip, Entry, Plan
<1>3. cache' \subseteq cache \cup {e}
  BY DEF StoreInCache
<1>4. cache' \subseteq Entry
  BY <1>2, <1>3 DEF IInv, TypeOK
<1>5. (faults = {} /\ Fresh) => e.ver = procs[reqs[r].proc].ver
  BY <1>1, <1>2 DEF Fresh, PlansFresh
<1>6. SetReq(r, Idle) /\ Release(r, reqs[r].pid) /\ UNCHANGED <<ddl, hash, procs, faults>>
  BY DEF StoreInCache
<1> QED
  BY <1>1, <1>3, <1>4, <1>5, <1>6, ReleaseKeeps

-----------------------------------------------------------------------------
(* The actions of a request.                                               *)

\* A request comes in.
LEMMA PlanRequestStep ==
    ASSUME IInv, NEW r \in Req, NEW p \in Proc, NEW m \in Msg, PlanRequest(r, p, m)
    PROVE  IInv'
<1> DEFINE q == [Idle EXCEPT !.pc = IF procs[p].cacheOn THEN "lookup" ELSE "plan",
                             !.proc = p, !.msg = m]
<1>1. q \in Request /\ q.proc = p /\ q.pid = "none"
      /\ q.pc = IF procs[p].cacheOn THEN "lookup" ELSE "plan"
  BY Placeholders DEF Idle, Request
<1>2. /\ procs[p].pc = "up" /\ reqs' = [reqs EXCEPT ![r] = q]
      /\ UNCHANGED <<ddl, hash, cache, procs, plans, faults>>
  BY DEF PlanRequest, SetReq, Up
<1> HIDE DEF q
<1> QED
  BY <1>1, <1>2, RequestKeeps

\* A row is read: it was made for the schema of the process.
LEMMA LookupHitStep ==
    ASSUME IInv, NEW r \in Req, LookupHit(r)
    PROVE  IInv'
<1>1. PICK e \in cache : SetReq(r, [reqs[r] EXCEPT !.pc = "enrich", !.hit = e])
  BY DEF LookupHit
<1> DEFINE q == [reqs[r] EXCEPT !.pc = "enrich", !.hit = e]
<1>2. reqs[r] \in Request /\ reqs[r].pc = "lookup" /\ reqs[r].proc \in Proc /\ e \in Entry
  BY <1>1 DEF LookupHit, At, IInv, TypeOK, Request
<1>3. /\ q \in Request /\ q.pc = "enrich" /\ q.hit = e /\ q.proc = reqs[r].proc
      /\ q.pid = reqs[r].pid
  BY <1>2 DEF Request
<1>4. reqs' = [reqs EXCEPT ![r] = q] /\ UNCHANGED <<ddl, hash, cache, procs, plans, faults>>
  BY <1>1 DEF LookupHit, SetReq
<1>5. ReqOK(r) /\ procs[q.proc].cacheOn /\ procs[q.proc].pc = "up"
  BY <1>2, <1>3 DEF IInv, Structure, ReqOK
<1>6. ASSUME faults = {}, Fresh PROVE e.ver = procs[q.proc].ver
  <2>1. e.ver \in Versions /\ procs[q.proc].ver \in Versions
    BY <1>2, <1>3 DEF IInv, TypeOK, Entry, ProcState
  <2>2. \A s \in Source : e.ver[s] = procs[q.proc].ver[s]
    BY <1>2, <1>3, <1>5, <1>6 DEF Fresh, RowsFresh, Known
  <2> QED
    BY <2>1, <2>2 DEF Versions
<1> HIDE DEF q
<1> QED
  BY <1>2, <1>3, <1>4, <1>5, <1>6, RequestKeeps DEF ReqOK

\* No row, or re-enrichment failed: the request goes on to plan.
LEMMA LookupMissStep ==
    ASSUME IInv, NEW r \in Req, LookupMiss(r)
    PROVE  IInv'
<1> DEFINE q == [reqs[r] EXCEPT !.pc = "plan"]
<1>1. reqs[r] \in Request /\ reqs[r].pc = "lookup" /\ ReqOK(r)
  BY DEF LookupMiss, At, IInv, TypeOK, Structure
<1>2. q \in Request /\ q.pc = "plan" /\ q.proc = reqs[r].proc /\ q.pid = reqs[r].pid
  BY <1>1 DEF Request
<1>3. reqs' = [reqs EXCEPT ![r] = q] /\ UNCHANGED <<ddl, hash, cache, procs, plans, faults>>
  BY DEF LookupMiss, SetReq
<1> HIDE DEF q
<1> QED
  BY <1>1, <1>2, <1>3, RequestKeeps DEF ReqOK

\* Re-enrichment failed: the row read is forgotten.
LEMMA EnrichFailsStep ==
    ASSUME IInv, NEW r \in Req, EnrichFails(r)
    PROVE  IInv'
<1> DEFINE q == [reqs[r] EXCEPT !.pc = "plan", !.hit = NoEntry]
<1>1. reqs[r] \in Request /\ reqs[r].pc = "enrich" /\ ReqOK(r)
  BY DEF EnrichFails, At, IInv, TypeOK, Structure
<1>2. q \in Request /\ q.pc = "plan" /\ q.proc = reqs[r].proc /\ q.pid = reqs[r].pid
  BY <1>1, Placeholders DEF Request
<1>3. reqs' = [reqs EXCEPT ![r] = q] /\ UNCHANGED <<ddl, hash, cache, procs, plans, faults>>
  BY DEF EnrichFails, SetReq
<1> HIDE DEF q
<1> QED
  BY <1>1, <1>2, <1>3, RequestKeeps DEF ReqOK

\* The row read becomes a plan of the process.
LEMMA EnrichStep ==
    ASSUME IInv, NEW r \in Req, NEW i \in PlanId, Enrich(r, i)
    PROVE  IInv'
<1> DEFINE e == reqs[r].hit
           x == [proc |-> reqs[r].proc, listed |-> TRUE, about |-> e.about, ver |-> e.ver,
                 fields |-> e.fields, values |-> e.fields, empty |-> e.empty, free |-> FALSE]
<1>1. reqs[r] \in Request /\ reqs[r].pc = "enrich" /\ ReqOK(r) /\ e \in Entry
  BY DEF Enrich, At, IInv, TypeOK, Structure, Request
<1>2. x \in Plan /\ ~x.free /\ x.proc = reqs[r].proc /\ x.ver = e.ver
  BY <1>1 DEF Plan, Entry, Request
<1>3. /\ Store(i, x) /\ reqs' = [reqs EXCEPT ![r] = Idle]
      /\ UNCHANGED <<ddl, hash, cache, procs, faults>>
  BY DEF Enrich, SetReq
<1>4. procs[x.proc].pc = "up" /\ ((faults = {} /\ Fresh) => x.ver = procs[x.proc].ver)
  BY <1>1, <1>2 DEF ReqOK, Fresh, HitsFresh
<1> HIDE DEF x
<1> QED
  BY <1>2, <1>3, <1>4, Placeholders, StoreKeeps

\* A plan is made for the schema of the process.
LEMMA GenerateStep ==
    ASSUME IInv, NEW r \in Req, NEW i \in PlanId, NEW about \in Msg, NEW empty \in BOOLEAN,
           Generate(r, i, about, empty)
    PROVE  IInv'
<1> DEFINE p == reqs[r].proc
           x == [proc |-> p, listed |-> TRUE, about |-> about, ver |-> procs[p].ver,
                 fields |-> {}, values |-> {}, empty |-> empty, free |-> FALSE]
<1>1. reqs[r] \in Request /\ reqs[r].pc = "plan" /\ ReqOK(r) /\ p \in Proc /\ procs[p] \in ProcState
  BY DEF Generate, At, IInv, TypeOK, Structure, Request
<1>2. x \in Plan /\ ~x.free /\ x.proc = p /\ x.ver = procs[p].ver
  BY <1>1 DEF Plan, ProcState
<1>3. Store(i, x) /\ UNCHANGED <<ddl, hash, cache, procs, faults>>
  BY DEF Generate
<1>4. procs[p].pc = "up"
  BY <1>1 DEF ReqOK
<1>5. CASE Cached(r)
  <2> DEFINE q == [reqs[r] EXCEPT !.pc = "store", !.pid = i]
  <2>1. q \in Request /\ q.pc = "store" /\ q.pid = i /\ q.proc = p
    BY <1>1 DEF Request
  <2>2. reqs' = [reqs EXCEPT ![r] = q]
    BY <1>5 DEF Generate, SetReq
  <2> HIDE DEF q, x
  <2> QED
    BY <1>2, <1>3, <1>4, <1>5, <2>1, <2>2, StoreKeeps DEF Cached
<1>6. CASE ~Cached(r)
  <2>1. reqs' = [reqs EXCEPT ![r] = Idle]
    BY <1>6 DEF Generate, SetReq
  <2> HIDE DEF x
  <2> QED
    BY <1>2, <1>3, <1>4, <2>1, Placeholders, StoreKeeps
<1> QED
  BY <1>5, <1>6

\* Planning failed: the request is answered with an error.
LEMMA GenerateFailsStep ==
    ASSUME IInv, NEW r \in Req, GenerateFails(r)
    PROVE  IInv'
<1>1. reqs' = [reqs EXCEPT ![r] = Idle] /\ UNCHANGED <<ddl, hash, cache, procs, plans, faults>>
  BY DEF GenerateFails, SetReq
<1>2. cache' \subseteq Entry /\ \A e \in cache' : e \in cache
  BY <1>1 DEF IInv, TypeOK
<1> QED
  BY <1>1, <1>2, EndKeeps

\* A new plan goes into the cache.
LEMMA StoreNewPlanStep ==
    ASSUME IInv, NEW r \in Req, NEW ok \in BOOLEAN, StoreNewPlan(r, ok)
    PROVE  IInv'
<1>1. reqs[r].pc = "store" /\ reqs[r].msg \in Msg /\ StoreInCache(r, reqs[r].msg, ok)
  BY DEF StoreNewPlan, At, IInv, TypeOK, Request
<1> QED
  BY <1>1, StoreInCacheKeeps

\* An executed plan goes into the cache.
LEMMA StoreAfterRunStep ==
    ASSUME IInv, NEW r \in Req, NEW ok \in BOOLEAN, StoreAfterRun(r, ok)
    PROVE  IInv'
<1>1. reqs[r].pc = "storeRun" /\ StoreInCache(r, plans[reqs[r].pid].about, ok)
  BY DEF StoreAfterRun, At
<1>2. reqs[r].pid \in PlanId
  BY <1>1 DEF IInv, TypeOK, Structure, ReqOK, Request
<1>3. plans[reqs[r].pid].about \in Msg
  BY <1>2 DEF IInv, TypeOK, Plan
<1> QED
  BY <1>1, <1>3, StoreInCacheKeeps

\* User-entered values change neither the schema nor the process of a plan.
LEMMA WithValuesType ==
    ASSUME NEW x \in Plan, NEW vals \in SUBSET Value
    PROVE  /\ WithValues(x, vals) \in Plan
           /\ WithValues(x, vals).proc = x.proc /\ WithValues(x, vals).ver = x.ver
           /\ WithValues(x, vals).free = x.free /\ WithValues(x, vals).listed = x.listed
<1>1. CASE x.empty
  BY <1>1 DEF WithValues
<1>2. CASE ~x.empty
  BY <1>2 DEF WithValues, Plan
<1> QED
  BY <1>1, <1>2

\* A client enters values for optional fields.
LEMMA PatchStep ==
    ASSUME IInv, NEW p \in Proc, NEW i \in PlanId, NEW v \in Value, PatchPlan(p, i, v)
    PROVE  IInv'
<1> DEFINE x == WithValues(plans[i], {v})
<1>1. plans' = [plans EXCEPT ![i] = x] /\ UNCHANGED <<ddl, hash, cache, procs, reqs, faults>>
  BY DEF PatchPlan, SetPlan
<1>2. /\ x \in Plan /\ x.proc = plans[i].proc /\ x.ver = plans[i].ver /\ x.free = plans[i].free
      /\ x.listed = plans[i].listed
  BY WithValuesType DEF IInv, TypeOK
<1> HIDE DEF x
<1>3. \A j \in PlanId : plans'[j].free = plans[j].free /\ plans'[j].proc = plans[j].proc
  BY <1>1, <1>2 DEF IInv, TypeOK
<1>4. \A r \in Req : reqs[r].pid # "none" => reqs[r].pid \in PlanId
  BY DEF IInv, TypeOK, Request
<1>5. \A r \in Req : ReqOK(r)'
  BY <1>1, <1>3, <1>4 DEF IInv, Structure, ReqOK
<1>6. reqs' \in [Req -> Request]
  BY <1>1 DEF IInv, TypeOK
<1> QED
  BY <1>1, <1>2, <1>5, <1>6, UpdateKeeps

\* An execution holds the plan it runs.
LEMMA ExecuteStep ==
    ASSUME IInv, NEW r \in Req, NEW p \in Proc, NEW i \in PlanId, NEW vals \in SUBSET Value,
           Execute(r, p, i, vals)
    PROVE  IInv'
<1> DEFINE x == WithValues(plans[i], vals)
           q == [Idle EXCEPT !.pc = "run", !.proc = p, !.pid = i]
<1>1. /\ plans' = [plans EXCEPT ![i] = x] /\ reqs' = [reqs EXCEPT ![r] = q]
      /\ UNCHANGED <<ddl, hash, cache, procs, faults>>
      /\ plans[i].listed /\ plans[i].proc = p /\ procs[p].pc = "up"
  BY DEF Execute, SetPlan, SetReq, HasPlan, Up
<1>2. /\ x \in Plan /\ x.proc = plans[i].proc /\ x.ver = plans[i].ver /\ x.free = plans[i].free
      /\ x.listed = plans[i].listed
  BY WithValuesType DEF IInv, TypeOK
<1>3. q \in Request /\ q.pc = "run" /\ q.proc = p /\ q.pid = i
  BY Placeholders DEF Idle, Request
<1> HIDE DEF x, q
<1>4. ~plans[i].free
  BY <1>1 DEF IInv, Structure, PlanOK
<1>5. \A j \in PlanId : plans'[j].free = plans[j].free /\ plans'[j].proc = plans[j].proc
  BY <1>1, <1>2 DEF IInv, TypeOK
<1>6. \A o \in Req : reqs[o].pid # "none" => reqs[o].pid \in PlanId
  BY DEF IInv, TypeOK, Request
<1>7. \A o \in Req : reqs'[o] = IF o = r THEN q ELSE reqs[o]
  BY <1>1 DEF IInv, TypeOK
<1>8. \A o \in Req : ReqOK(o)'
  <2> SUFFICES ASSUME NEW o \in Req PROVE ReqOK(o)'
    OBVIOUS
  <2>1. CASE o = r
    BY <1>1, <1>3, <1>4, <1>5, <1>7, <2>1, ServiceAssumption DEF ReqOK
  <2>2. CASE o # r
    BY <1>1, <1>5, <1>6, <1>7, <2>2 DEF IInv, Structure, ReqOK
  <2> QED
    BY <2>1, <2>2
<1>9. reqs' \in [Req -> Request] /\ \A o \in Req : reqs'[o].pc = "enrich" => reqs'[o] = reqs[o]
  BY <1>1, <1>3, <1>7 DEF IInv, TypeOK
<1> QED
  BY <1>1, <1>2, <1>8, <1>9, UpdateKeeps

\* The execution succeeded; the request still holds its plan.
LEMMA RunSucceedsStep ==
    ASSUME IInv, NEW r \in Req, RunSucceeds(r)
    PROVE  IInv'
<1> DEFINE q == [reqs[r] EXCEPT !.pc = "storeRun"]
<1>1. reqs[r] \in Request /\ reqs[r].pc = "run" /\ ReqOK(r) /\ procs[reqs[r].proc].cacheOn
  BY DEF RunSucceeds, At, Cached, IInv, TypeOK, Structure
<1>2. q \in Request /\ q.pc = "storeRun" /\ q.proc = reqs[r].proc /\ q.pid = reqs[r].pid
  BY <1>1 DEF Request
<1>3. reqs' = [reqs EXCEPT ![r] = q] /\ UNCHANGED <<ddl, hash, cache, procs, plans, faults>>
  BY DEF RunSucceeds, SetReq
<1> HIDE DEF q
<1> QED
  BY <1>1, <1>2, <1>3, RequestKeeps DEF ReqOK

\* The execution failed, or there is no cache.
LEMMA RunEndsStep ==
    ASSUME IInv, NEW r \in Req, RunEnds(r)
    PROVE  IInv'
<1>1. reqs[r].pid \in PlanId
  BY DEF RunEnds, At, IInv, TypeOK, Structure, ReqOK, Request
<1>2. SetReq(r, Idle) /\ Release(r, reqs[r].pid) /\ UNCHANGED <<ddl, hash, cache, procs, faults>>
  BY DEF RunEnds
<1>3. cache' \subseteq Entry /\ \A e \in cache' : e \in cache
  BY <1>2 DEF IInv, TypeOK
<1> QED
  BY <1>1, <1>2, <1>3, ReleaseKeeps

\* An expired plan stays as long as a request holds it.
LEMMA ExpireStep ==
    ASSUME IInv, NEW i \in PlanId, Expire(i)
    PROVE  IInv'
<1>1. UNCHANGED <<ddl, hash, cache, procs, reqs, faults>>
  BY DEF Expire
<1>2. /\ reqs' \in [Req -> Request] /\ plans[i] \in Plan /\ cache' \subseteq Entry
      /\ \A r \in Req : reqs[r].pid # "none" => reqs[r].pid \in PlanId
  BY <1>1 DEF IInv, TypeOK, Request
<1>3. CASE \E r \in Req : reqs[r].pid = i
  <2> DEFINE x == [plans[i] EXCEPT !.listed = FALSE]
  <2>1. plans' = [plans EXCEPT ![i] = x]
    BY <1>3 DEF Expire, SetPlan
  <2>2. /\ x \in Plan /\ x.proc = plans[i].proc /\ x.ver = plans[i].ver /\ x.free = plans[i].free
        /\ ~x.listed
    BY <1>2 DEF Plan
  <2> HIDE DEF x
  <2>3. \A j \in PlanId : plans'[j].free = plans[j].free /\ plans'[j].proc = plans[j].proc
    BY <2>1, <2>2 DEF IInv, TypeOK
  <2>4. \A r \in Req : ReqOK(r)'
    BY <1>1, <1>2, <2>3 DEF IInv, Structure, ReqOK
  <2> QED
    BY <1>1, <1>2, <2>1, <2>2, <2>4, UpdateKeeps
<1>4. CASE ~\E r \in Req : reqs[r].pid = i
  <2>1. plans' = [plans EXCEPT ![i] = NoPlan]
    BY <1>4 DEF Expire, SetPlan
  <2> QED
    BY <1>1, <1>2, <1>4, <2>1, FreeKeeps
<1> QED
  BY <1>3, <1>4

-----------------------------------------------------------------------------
\* No process runs yet.
LEMMA InitIInv == Init => IInv
<1> SUFFICES ASSUME Init PROVE IInv
  OBVIOUS
<1>1. TypeOK
  BY Placeholders, ServiceAssumption DEF Init, TypeOK, Versions, Fault
<1>2. \A p \in Proc : procs[p].pc = "down" /\ ~procs[p].cacheOn
  BY DEF Init, Down
<1>3. \A i \in PlanId : plans[i].free /\ ~plans[i].listed
  BY DEF Init, NoPlan
<1>4. \A r \in Req : reqs[r].pc = "idle" /\ reqs[r].pid = "none"
  BY DEF Init, Idle
<1>5. Structure
  BY <1>2, <1>3, <1>4 DEF Structure, ProcOK, PlanOK, ReqOK
<1>6. cache = {}
  BY DEF Init
<1>7. Fresh
  BY <1>2, <1>3, <1>4, <1>6
     DEF Fresh, Agreed, Checked, ToBeSaved, Known, RowsFresh, PlansFresh, HitsFresh, UsesCache
<1> QED
  BY <1>1, <1>5, <1>7 DEF IInv

\* Every step keeps the invariant.
LEMMA NextIInv == IInv /\ [Next]_vars => IInv'
<1> SUFFICES ASSUME IInv, [Next]_vars PROVE IInv'
  OBVIOUS
<1>1. CASE \E s \in Source : ChangeDDL(s)
  BY <1>1, ChangeDDLStep
<1>2. ASSUME NEW p \in Proc, ProcStep(p) PROVE IInv'
  BY <1>2, BootStep, RunUncachedStep, StartCheckStep, CrashStep, ClearCacheStep, LookupStep,
     InvalidateStep, SaveStep, PatchStep DEF ProcStep
<1>3. ASSUME NEW r \in Req, ReqStep(r) PROVE IInv'
  BY <1>3, PlanRequestStep, LookupHitStep, LookupMissStep, EnrichStep, EnrichFailsStep,
     GenerateStep, GenerateFailsStep, ExecuteStep, RunSucceedsStep, RunEndsStep,
     StoreNewPlanStep, StoreAfterRunStep DEF ReqStep
<1>4. CASE \E i \in PlanId : Expire(i)
  BY <1>4, ExpireStep
<1>5. CASE UNCHANGED vars
  BY <1>5 DEF vars, IInv, TypeOK, Structure, ProcOK, PlanOK, ReqOK, Fresh, Agreed, Checked,
     ToBeSaved, Known, RowsFresh, PlansFresh, HitsFresh, UsesCache
<1> QED
  BY <1>1, <1>2, <1>3, <1>4, <1>5 DEF Next

\* The invariant holds in every reachable state.
LEMMA Invariance == Spec => []IInv
BY InitIInv, NextIInv, PTL DEF Spec

\* However many processes, datasources and requests there are, the service's
\* state stays well typed.
THEOREM ServiceTypeCorrect == Spec => []TypeOK
<1>1. IInv => TypeOK
  BY DEF IInv
<1> QED
  BY <1>1, Invariance, PTL

\* Barring the faults, every valid row of the cache was planned with the
\* recorded schema, wherever a schema check is interrupted.
THEOREM CacheStaysFresh == Spec => []CacheFresh
<1>1. IInv => CacheFresh
  BY DEF IInv, Fresh, RowsFresh, CacheFresh
<1> QED
  BY <1>1, Invariance, PTL

\* Barring the faults, a plan on offer was made for the schema of its process.
THEOREM PlansServedFresh == Spec => []ServedFresh
<1>1. IInv => ServedFresh
  BY DEF IInv, Structure, PlanOK, Fresh, PlansFresh, ServedFresh
<1> QED
  BY <1>1, Invariance, PTL
=============================================================================
