------------------------------ MODULE Manager ------------------------------
(***************************************************************************)
(* The model manager of src/internal/manager: which models have a live     *)
(* instance, how much VRAM they are believed to use, and the calls Infer,  *)
(* Switch (EnsureInstance in the background), Unload and EnsureModel that  *)
(* run concurrently on it.                                                 *)
(*                                                                         *)
(* Each call is an operation o in Requests.  pc[o] says where it is; once  *)
(* an Infer call enters beginGeneration, adm[o] of module Admission does.  *)
(* A step is one critical section of m.mu, or one unlocked access to       *)
(* shared data: the lock is released between any two steps, as in the code.*)
(* The scan of evictUntilFits is several steps with the lock held, because *)
(* it reads the channels, which requests use without the lock.             *)
(* With SpawnMode, calls into the subprocess adapter are steps that take   *)
(* any time; what they do is the subject of module Subprocess.             *)
(***************************************************************************)
EXTENDS Integers, Admission

CONSTANTS
    Models,         \* ids in the registry
    UnknownIds,     \* ids that clients may name and the registry lacks
    NoModel,        \* the empty id, and the nil m.cur
    DefaultModel,   \* m.defaultModel
    Est,            \* Est[m]: estimateVRAMMB of m, at least 1
    BudgetMB,       \* m.budgetMB; 0 turns the budget off
    MarginMB,       \* m.marginMB
    SpawnMode,      \* the adapter is a *llamaSubprocessAdapter
    SpawnMayFail,   \* ensureProcess may return an error
    Kinds,          \* the operations that clients call
    CanCancel,      \* callers' contexts may end
    DeadlineMayPass,\* one round of evictUntilFits may outlast its deadline
    DrainMayTimeOut,\* a drain may outlast drainTimeout
    MaxCalls        \* bound: number of calls in a behaviour

Ids == Models \cup UnknownIds

ASSUME IdsAssumption ==
    /\ NoModel \notin Ids
    /\ Models \cap UnknownIds = {}
    /\ DefaultModel \in Ids \cup {NoModel}
ASSUME EstAssumption == Est \in [Models -> Nat \ {0}]
ASSUME SizesAssumption == BudgetMB \in Nat /\ MarginMB \in Nat /\ MaxCalls \in Nat
ASSUME SwitchesAssumption == 
    {SpawnMode, SpawnMayFail, CanCancel, DeadlineMayPass, DrainMayTimeOut}
        \subseteq BOOLEAN

VARIABLES
    pc,             \* pc[o]: next step of operation o outside beginGeneration
    kind,           \* kind[o]: "infer", "switch", "unload" or "ensureModel"
    model,          \* model[o]: its modelID
    inst,           \* inst[o]: its local variable inst
    added,          \* added[o]: its local variable addedNow
    victim,         \* victim[o]: lru.ID in evictUntilFits
    unseen,         \* unseen[o]: keys its range over m.instances has still to visit
    instances,      \* m.instances, NoInst where the key is absent
    instState,      \* inst.State of each object
    recency,        \* keys of m.instances by LastUsed, oldest first
    usedEstMB,      \* m.usedEstMB
    mstate,         \* m.state; m.err is non-empty iff it is "error"
    cur,            \* m.cur
    calls           \* number of calls so far

opVars == <<pc, kind, model, inst, added, victim, unseen>>
mapVars == <<instances, instState, recency, usedEstMB>>
headVars == <<mstate, cur>>
mgrVars == <<opVars, mapVars, headVars, calls>>
vars == <<mgrVars, admVars>>

EnsurePcs == {"ensure", "touch", "evict", "scan", "stopVictim", "load", "spawn", "warm"}
Pcs == EnsurePcs \cup
       {"idle", "lookup", "drain", "stopUnload", "remove", "setLoading", "warmModel"}

TypeOK ==
    /\ AdmTypeOK
    /\ pc \in [Requests -> Pcs]
    /\ kind \in [Requests -> {"infer", "switch", "unload", "ensureModel"}]
    /\ model \in [Requests -> Ids \cup {NoModel}]
    /\ inst \in [Requests -> Instances \cup {NoInst}]
    /\ added \in [Requests -> BOOLEAN]
    /\ victim \in [Requests -> Models \cup {NoModel}]
    /\ unseen \in [Requests -> SUBSET Models]
    /\ instances \in [Models -> Instances \cup {NoInst}]
    /\ instState \in [Instances -> {"loading", "ready", "draining"}]
    /\ recency \in Seq(Models)
    /\ usedEstMB \in Int
    /\ mstate \in {"loading", "ready", "error"}
    /\ cur \in Ids \cup {NoModel}
    /\ calls \in 0..MaxCalls

\* NewWithConfig: the manager starts loading, with no instance.
Init ==
    /\ AdmInit
    /\ pc = [o \in Requests |-> "idle"]
    /\ kind = [o \in Requests |-> "infer"]
    /\ model = [o \in Requests |-> NoModel]
    /\ inst = [o \in Requests |-> NoInst]
    /\ added = [o \in Requests |-> FALSE]
    /\ victim = [o \in Requests |-> NoModel]
    /\ unseen = [o \in Requests |-> {}]
    /\ instances = [m \in Models |-> NoInst]
    /\ instState = [i \in Instances |-> "loading"]
    /\ recency = <<>>
    /\ usedEstMB = 0
    /\ mstate = "loading"
    /\ cur = NoModel
    /\ calls = 0

-----------------------------------------------------------------------------
(* Helpers.                                                                *)

Mapped == {m \in Models : instances[m] # NoInst}
IsReady(m) == m \in Mapped /\ instState[instances[m]] = "ready"

\* len(inst.genCh) = 0 and len(inst.queueCh) = 0.
Drained(i) == queueLen[i] = 0 /\ genLen[i] = 0
IsIdle(m) == m \in Mapped /\ Drained(instances[m])

\* An object as &Instance{...} allocates it: nobody refers to it and its
\* channels are empty.  Objects that were collected are used again.
IsFresh(i) ==
    /\ \A m \in Models : instances[m] # i
    /\ \A o \in Requests : inst[o] # i /\ target[o] # i
    /\ Drained(i) /\ queueWait[i] = <<>> /\ genWait[i] = <<>>
HaveFresh == \E i \in Instances : IsFresh(i)

\* A deleted key is no longer in the order; it was in it at most once.
Without(keys, m) ==
    LET at == {k \in 1..Len(keys) : keys[k] = m}
    IN  IF at = {} THEN keys ELSE RemoveAt(keys, CHOOSE k \in at : TRUE)

\* LastUsed = time.Now(): the key becomes the most recent one.
Refreshed(keys, m) == Append(Without(keys, m), m)
KeysOf(i) == {m \in Models : instances[m] = i}

\* m.mu is free: nobody is in the scan of evictUntilFits, which holds it.  A
\* guard of every step that takes m.mu, for reading or for writing.
Unlocked == \A p \in Requests : pc[p] # "scan"

Step(o, next) == pc' = [pc EXCEPT ![o] = next]

\* The operation, or the EnsureInstance inside it, ends and forgets its
\* local variables.
Leave(o, next) ==
    /\ Step(o, next)
    /\ inst' = [inst EXCEPT ![o] = NoInst]
    /\ added' = [added EXCEPT ![o] = FALSE]
    /\ UNCHANGED <<kind, model, victim, unseen>>

Fail(o) == Leave(o, "idle")

\* EnsureInstance returned nil: Infer goes on to beginGeneration.
Succeed(o) == Leave(o, IF kind[o] = "infer" THEN "lookup" ELSE "idle")

\* An empty modelID stands for the default model.
Resolve(id) == IF id = NoModel THEN DefaultModel ELSE id

-----------------------------------------------------------------------------
(* Calls.  A call that returns at once without touching the manager (no    *)
(* model resolved, nothing to unload, model already current) is no step.   *)

NewCall(o, k, id, first) ==
    /\ k \in Kinds
    /\ pc[o] = "idle" /\ adm[o] = "idle"
    /\ calls < MaxCalls
    /\ calls' = calls + 1
    /\ kind' = [kind EXCEPT ![o] = k]
    /\ model' = [model EXCEPT ![o] = id]
    /\ Step(o, first)
    /\ FreshCtx(o)
    /\ UNCHANGED <<added, victim, unseen, recency, instances, usedEstMB, headVars>>

\* Infer, or the goroutine of Switch: both start with EnsureInstance.
CallEnsure(o, k, id) ==
    /\ k \in {"infer", "switch"}
    /\ Resolve(id) # NoModel
    /\ NewCall(o, k, Resolve(id), "ensure")
    /\ UNCHANGED <<inst, instState>>

\* Unload up to the release of the lock: the instance is marked draining.
CallUnload(o, m) ==
    /\ Unlocked
    /\ m \in Mapped
    /\ NewCall(o, "unload", m, "drain")
    /\ inst' = [inst EXCEPT ![o] = instances[m]]
    /\ instState' = [instState EXCEPT ![instances[m]] = "draining"]

\* EnsureModel up to the release of the read lock.
CallEnsureModel(o, id) ==
    /\ Unlocked
    /\ id # NoModel /\ cur # id
    /\ NewCall(o, "ensureModel", id, "setLoading")
    /\ UNCHANGED <<inst, instState>>

\* The context of a caller ends.  Switch runs on context.Background() and
\* Unload takes no context.
EndCtx(o) ==
    /\ CanCancel
    /\ kind[o] \in {"infer", "ensureModel"}
    /\ pc[o] # "idle" \/ adm[o] # "idle"
    /\ Cancel(o)
    /\ UNCHANGED mgrVars

-----------------------------------------------------------------------------
(* EnsureInstance.                                                         *)

\* Mutation: a model that the registry lacks is loaded, as one of unknown size.
SlowPath_NoRegistry(o) ==
    /\ Step(o, IF model[o] \in Models /\ BudgetMB > 0 THEN "evict" ELSE "load")
    /\ UNCHANGED <<kind, model, inst, added, victim, unseen>>

\* Where EnsureInstance goes once it knows that it has to load.
SlowPath(o) ==
    /\ IF model[o] \notin Models THEN Step(o, "idle")
       ELSE Step(o, IF BudgetMB > 0 THEN "evict" ELSE "load")
    /\ UNCHANGED <<kind, model, inst, added, victim, unseen>>

\* The read-locked test of the fast path, then the registry lookup.
CheckReady(o) ==
    /\ pc[o] = "ensure" /\ Unlocked
    /\ \/ /\ model[o] \in Models /\ IsReady(model[o])
          /\ Step(o, "touch")
          /\ UNCHANGED <<kind, model, inst, added, victim, unseen>>
       \/ /\ ~(model[o] \in Models /\ IsReady(model[o]))
          /\ SlowPath(o)
    /\ UNCHANGED <<mapVars, headVars, calls, admVars>>

\* The fast path under the write lock: re-check, refresh LastUsed.
TouchReady(o) ==
    /\ pc[o] = "touch" /\ Unlocked
    /\ \/ /\ IsReady(model[o])
          /\ recency' = Refreshed(recency, model[o])
          /\ Succeed(o)
       \/ /\ ~IsReady(model[o])
          /\ SlowPath(o)
          /\ UNCHANGED recency
    /\ UNCHANGED <<instances, instState, usedEstMB, headVars, calls, admVars>>

\* Mutation: the margin is left out.
Fits_NoMargin(m) == usedEstMB + Est[m] <= BudgetMB

\* evictUntilFits: the model fits.
Fits(m) == usedEstMB + Est[m] + MarginMB <= BudgetMB

EvictDone(o) ==
    /\ pc[o] = "evict" /\ Unlocked
    /\ Fits(model[o])
    /\ Step(o, "load")
    /\ UNCHANGED <<kind, model, inst, added, victim, unseen, mapVars, headVars, calls, admVars>>

\* evictUntilFits: the model does not fit, so range over m.instances, in any
\* order, for the idle instance with the oldest LastUsed.
BeginScan(o) ==
    /\ pc[o] = "evict" /\ Unlocked
    /\ ~Fits(model[o])
    /\ Step(o, "scan")
    /\ unseen' = [unseen EXCEPT ![o] = Mapped]
    /\ victim' = [victim EXCEPT ![o] = NoModel]
    /\ UNCHANGED <<kind, model, inst, added, mapVars, headVars, calls, admVars>>

\* LastUsed of m is before that of n.
Before(m, n) ==
    \E k \in 1..Len(recency) :
        recency[k] = m /\ \E l \in (k + 1)..Len(recency) : recency[l] = n

\* One instance.  A request that owns genCh's token owns one of queueCh, so
\* the two lengths that the code reads one after the other are both zero
\* only if they are so at the second read.
Visit(o) ==
    /\ pc[o] = "scan"
    /\ \E m \in unseen[o] :
        /\ unseen' = [unseen EXCEPT ![o] = @ \ {m}]
        /\ victim' = IF IsIdle(m) /\ (victim[o] = NoModel \/ Before(m, victim[o]))
                     THEN [victim EXCEPT ![o] = m] ELSE victim
    /\ UNCHANGED <<pc, kind, model, inst, added, mapVars, headVars, calls, admVars>>

ScanOver(o) == pc[o] = "scan" /\ unseen[o] = {}

\* Mutation: instead of failing fast, start over.
EvictFails_Retries(o) ==
    /\ ScanOver(o) /\ victim[o] = NoModel
    /\ Leave(o, "ensure")
    /\ UNCHANGED <<mapVars, headVars, calls, admVars>>

\* lru == nil: no instance was idle and the model does not fit.
EvictFails(o) ==
    /\ ScanOver(o) /\ victim[o] = NoModel
    /\ Fail(o)
    /\ UNCHANGED <<mapVars, headVars, calls, admVars>>

\* Mutation: the estimate of the evicted instance is not subtracted.
Evict_KeepsUsed(o, v) ==
    /\ instances' = [instances EXCEPT ![v] = NoInst]
    /\ recency' = Without(recency, v)
    /\ \/ Step(o, "evict")
       \/ DeadlineMayPass /\ Step(o, "load")
    /\ victim' = [victim EXCEPT ![o] = NoModel]
    /\ UNCHANGED <<kind, model, inst, added, unseen, instState, usedEstMB>>
    /\ UNCHANGED <<headVars, calls, admVars>>

\* delete(m.instances, v); m.usedEstMB -= lru.EstVRAMMB; then either the
\* next round, or the return after the deadline, which does not test Fits.
Evict(o, v) ==
    /\ instances' = [instances EXCEPT ![v] = NoInst]
    /\ recency' = Without(recency, v)
    /\ usedEstMB' = usedEstMB - Est[v]
    /\ \/ Step(o, "evict")
       \/ DeadlineMayPass /\ Step(o, "load")
    /\ victim' = [victim EXCEPT ![o] = NoModel]
    /\ UNCHANGED <<kind, model, inst, added, unseen, instState, headVars, calls, admVars>>

\* The scan found a victim, which may have got work since it was visited.  In
\* spawn mode the lock is released while the adapter stops its process.
PickVictim(o) ==
    /\ ScanOver(o) /\ victim[o] # NoModel
    /\ \/ ~SpawnMode /\ Evict(o, victim[o])
       \/ /\ SpawnMode
          /\ Step(o, "stopVictim")
          /\ UNCHANGED <<kind, model, inst, added, victim, unseen>>
          /\ UNCHANGED <<mapVars, headVars, calls, admVars>>

VictimStopped(o) ==
    /\ pc[o] = "stopVictim" /\ Unlocked
    /\ Evict(o, victim[o])

\* Under the lock: m.state = StateLoading, and the instance is created, or
\* put back to loading whatever its state was.
Load(o) ==
    LET m == model[o] IN
    /\ pc[o] = "load" /\ Unlocked
    /\ mstate' = "loading"
    /\ \/ /\ m \notin Mapped
          /\ HaveFresh
          /\ LET i == CHOOSE i \in Instances : IsFresh(i) IN
             /\ instances' = [instances EXCEPT ![m] = i]
             /\ instState' = [instState EXCEPT ![i] = "loading"]
             /\ inst' = [inst EXCEPT ![o] = i]
          /\ added' = [added EXCEPT ![o] = TRUE]
       \/ /\ m \in Mapped
          /\ instState' = [instState EXCEPT ![instances[m]] = "loading"]
          /\ inst' = [inst EXCEPT ![o] = instances[m]]
          /\ UNCHANGED <<instances, added>>
    /\ recency' = Refreshed(recency, m)
    /\ Step(o, IF SpawnMode THEN "spawn" ELSE "warm")
    /\ UNCHANGED <<kind, model, victim, unseen, usedEstMB, cur, calls, admVars>>

\* ensureProcess returned without error.
SpawnReady(o) ==
    /\ pc[o] = "spawn" /\ Unlocked
    /\ Step(o, "warm")
    /\ UNCHANGED <<kind, model, inst, added, victim, unseen, mapVars, headVars, calls, admVars>>

\* ensureProcess failed, or ctx was done before the 50 ms of warmup were
\* over: only m.state and m.err change, the instance stays as it is.
LoadFails(o) ==
    /\ Unlocked
    /\ \/ pc[o] = "spawn" /\ SpawnMayFail
       \/ pc[o] = "warm" /\ ctxDone[o]
    /\ mstate' = "error"
    /\ Fail(o)
    /\ UNCHANGED <<mapVars, cur, calls, admVars>>

\* Mutation: the estimate is added even for an instance that existed.
Commit_AlwaysAdds(o) ==
    /\ pc[o] = "warm" /\ Unlocked
    /\ usedEstMB' = usedEstMB + Est[model[o]]
    /\ instState' = [instState EXCEPT ![inst[o]] = "ready"]
    /\ recency' = IF instances[model[o]] = inst[o]
                  THEN Refreshed(recency, model[o]) ELSE recency
    /\ cur' = model[o]
    /\ mstate' = "ready"
    /\ Succeed(o)
    /\ UNCHANGED <<instances, calls, admVars>>

\* Mutation: the instance is not marked ready.
Commit_StaysLoading(o) ==
    /\ pc[o] = "warm" /\ Unlocked
    /\ usedEstMB' = IF added[o] THEN usedEstMB + Est[model[o]] ELSE usedEstMB
    /\ recency' = IF instances[model[o]] = inst[o]
                  THEN Refreshed(recency, model[o]) ELSE recency
    /\ cur' = model[o]
    /\ mstate' = "ready"
    /\ Succeed(o)
    /\ UNCHANGED <<instances, instState, calls, admVars>>

\* The commit after warmup.
Commit(o) ==
    /\ pc[o] = "warm" /\ Unlocked
    /\ usedEstMB' = IF added[o] THEN usedEstMB + Est[model[o]] ELSE usedEstMB
    /\ instState' = [instState EXCEPT ![inst[o]] = "ready"]
    /\ recency' = IF instances[model[o]] = inst[o]
                  THEN Refreshed(recency, model[o]) ELSE recency
    /\ cur' = model[o]
    /\ mstate' = "ready"
    /\ Succeed(o)
    /\ UNCHANGED <<instances, calls, admVars>>

-----------------------------------------------------------------------------
(* Infer after EnsureInstance: beginGeneration, generation, release.       *)

\* inst == nil: the call fails with model-not-found.
LookupMisses(o) ==
    /\ pc[o] = "lookup" /\ Unlocked
    /\ model[o] \notin Mapped
    /\ Fail(o)
    /\ UNCHANGED <<mapVars, headVars, calls, admVars>>

BeginLookup(o) ==
    /\ pc[o] = "lookup" /\ Unlocked
    /\ model[o] \in Mapped
    /\ Lookup(o, instances[model[o]])
    /\ Leave(o, "idle")
    /\ UNCHANGED <<mapVars, headVars, calls>>

\* The unlocked read of inst.State and the first check of ctx.
BeginChecks(o) ==
    /\ adm[o] = "found"
    /\ \/ /\ instState[target[o]] = "draining" \/ ctxDone[o]
          /\ Refuse(o)
       \/ /\ instState[target[o]] # "draining"
          /\ PassChecks(o)
    /\ UNCHANGED mgrVars

Admit(o) == AdmStep(o) /\ UNCHANGED mgrVars

\* Mutation: LastUsed is refreshed without m.mu.
BeginGrant_NoLock(o) ==
    /\ Grant(o)
    /\ \/ \E m \in KeysOf(target[o]) : recency' = Refreshed(recency, m)
       \/ KeysOf(target[o]) = {} /\ UNCHANGED recency
    /\ UNCHANGED <<opVars, instances, instState, usedEstMB, headVars, calls>>

\* The lock-protected refresh of LastUsed; it shows in the map only if the
\* object is still there.
BeginGrant(o) ==
    /\ Unlocked
    /\ Grant(o)
    /\ \/ \E m \in KeysOf(target[o]) : recency' = Refreshed(recency, m)
       \/ KeysOf(target[o]) = {} /\ UNCHANGED recency
    /\ UNCHANGED <<opVars, instances, instState, usedEstMB, headVars, calls>>

\* Generation ends, with or without an error, and release() runs.
EndGeneration(o) == ReceiveGen(o) /\ UNCHANGED mgrVars

-----------------------------------------------------------------------------
(* Unload after the instance was marked, and EnsureModel.                  *)

\* The poll finds both channels empty, or the drain timeout is over.
UnloadWaited(o) ==
    /\ pc[o] = "drain" /\ Unlocked
    /\ Drained(inst[o]) \/ DrainMayTimeOut
    /\ Step(o, IF SpawnMode THEN "stopUnload" ELSE "remove")
    /\ UNCHANGED <<kind, model, inst, added, victim, unseen, mapVars, headVars, calls, admVars>>

UnloadStopped(o) ==
    /\ pc[o] = "stopUnload"
    /\ Step(o, "remove")
    /\ UNCHANGED <<kind, model, inst, added, victim, unseen, mapVars, headVars, calls, admVars>>

\* Whatever object the key names now is removed and discounted.
UnloadRemove(o) ==
    LET m == model[o] IN
    /\ pc[o] = "remove" /\ Unlocked
    /\ usedEstMB' = IF m \notin Mapped THEN usedEstMB
                    ELSE IF usedEstMB < Est[m] THEN 0 ELSE usedEstMB - Est[m]
    /\ instances' = [instances EXCEPT ![m] = NoInst]
    /\ recency' = Without(recency, m)
    /\ cur' = IF cur = m THEN NoModel ELSE cur
    /\ Leave(o, "idle")
    /\ UNCHANGED <<instState, mstate, calls, admVars>>

ModelSetLoading(o) ==
    /\ pc[o] = "setLoading" /\ Unlocked
    /\ mstate' = "loading"
    /\ Step(o, "warmModel")
    /\ UNCHANGED <<kind, model, inst, added, victim, unseen, mapVars, cur, calls, admVars>>

ModelFails(o) ==
    /\ pc[o] = "warmModel" /\ ctxDone[o] /\ Unlocked
    /\ mstate' = "error"
    /\ Fail(o)
    /\ UNCHANGED <<mapVars, cur, calls, admVars>>

ModelCommit(o) ==
    /\ pc[o] = "warmModel" /\ Unlocked
    /\ cur' = model[o]
    /\ mstate' = "ready"
    /\ Leave(o, "idle")
    /\ UNCHANGED <<mapVars, calls, admVars>>

-----------------------------------------------------------------------------
Call(o) ==
    \/ \E k \in Kinds, id \in Ids \cup {NoModel} : CallEnsure(o, k, id)
    \/ \E m \in Models : CallUnload(o, m)
    \/ \E id \in Ids : CallEnsureModel(o, id)

EnsureStep(o) ==
    \/ CheckReady(o) \/ TouchReady(o)
    \/ EvictDone(o) \/ BeginScan(o) \/ Visit(o)
    \/ EvictFails(o) \/ PickVictim(o) \/ VictimStopped(o)
    \/ Load(o) \/ SpawnReady(o) \/ LoadFails(o) \/ Commit(o)

InferStep(o) ==
    \/ LookupMisses(o) \/ BeginLookup(o) \/ BeginChecks(o)
    \/ Admit(o) \/ BeginGrant(o)

UnloadStep(o) == UnloadWaited(o) \/ UnloadStopped(o) \/ UnloadRemove(o)
ModelStep(o) == ModelSetLoading(o) \/ ModelFails(o) \/ ModelCommit(o)

Progress(o) ==
    EnsureStep(o) \/ InferStep(o) \/ EndGeneration(o) \/ UnloadStep(o) \/ ModelStep(o)

\* All calls made and returned: the manager rests.
AtRest ==
    /\ calls = MaxCalls
    /\ \A o \in Requests : pc[o] = "idle" /\ adm[o] = "idle"
    /\ UNCHANGED vars

Next == (\E o \in Requests : Call(o) \/ EndCtx(o) \/ Progress(o)) \/ AtRest

Spec == Init /\ [][Next]_vars

\* Every goroutine is scheduled, timers fire, adapter calls and generations
\* end; nothing is assumed about new calls and cancellations.
FairSpec == Spec /\ \A o \in Requests : WF_vars(Progress(o))

-----------------------------------------------------------------------------
(* Properties.                                                             *)

\* The estimates of the models that own an instance.
MappedMB == SumFunctionOnSet(Est, Mapped)

\* Operations that created an instance and have not counted it yet.
Pending == {o \in Requests : added[o]}
PendingMB == SumFunctionOnSet([o \in Pending |-> Est[model[o]]], Pending)

\* No megabyte is lost or counted twice: usedEstMB plus what the warming
\* operations will add is the sum over m.instances, through creations,
\* commits, evictions and unloads in any order.
Conservation == usedEstMB + PendingMB = MappedMB

\* The budget holds for the instances that exist, counted or not.
BudgetRespected == BudgetMB > 0 => MappedMB + MarginMB <= BudgetMB

\* usedEstMB is an amount of memory.
UsedNonNegative == usedEstMB >= 0

\* An instance that is reported as loading is being loaded by somebody.
WarmupOwned ==
    \A m \in Mapped : instState[instances[m]] = "loading" =>
        \E o \in Requests : pc[o] \in {"spawn", "warm"} /\ inst[o] = instances[m]

\* What EnsureInstance established still holds when beginGeneration looks:
\* a registered model is not answered with model-not-found.
EnsuredIsMapped == \A o \in Requests : pc[o] = "lookup" => model[o] \in Mapped

\* Once Unload has marked an instance, it accepts no more work: it stays in
\* state draining until Unload removes it.
DrainingSticks ==
    \A o \in Requests : pc[o] = "drain" => instState[inst[o]] = "draining"

\* "Sets instance state to draining to reject new enqueues": no request gets
\* a queue slot of an instance that was draining before the step.
NoEnqueueWhileDraining ==
    [][\A o \in Requests :
          adm[o] = "atQueue" /\ adm'[o] = "slot" => instState[target[o]] # "draining"]_vars

\* "Pick LRU idle instance (no in-flight and no queued requests)": what
\* evictUntilFits removes from m.instances has neither when it is removed.
\* Only Unload may give up on a busy instance, after its drain timeout.
EvictionSparesBusy ==
    [][\A m \in Mapped :
          instances'[m] = NoInst
              => \/ Drained(instances[m])
                 \/ \E o \in Requests : pc[o] = "remove" /\ pc'[o] = "idle"]_vars

\* What the lock does promise of an eviction in process: the instance that is
\* deleted serves no request whose beginGeneration has returned, although the
\* channels are used without the lock while the scan reads them.
Served(i) == \E r \in Requests : target[r] = i /\ adm[r] \in {"inflight", "release"}
EvictionSparesRunning ==
    [][\A o \in Requests, m \in Mapped :
          pc[o] \in {"scan", "stopVictim"} /\ pc'[o] # pc[o] /\ instances'[m] = NoInst
              => ~Served(instances[m])]_vars

\* A model generates for one request at a time, over all its instances.
SingleInFlightPerModel ==
    \A o, p \in Requests :
        adm[o] = "inflight" /\ adm[p] = "inflight" /\ model[o] = model[p] => o = p

\* Ready() of manager.go, the answer of /readyz.
Ready ==
    /\ mstate # "error"
    /\ (\E m \in Mapped : IsReady(m)) \/ (mstate = "ready" /\ cur # NoModel)

\* /readyz says ready once an instance is ready ...
ReadyInstanceIsReported == (\E m \in Mapped : IsReady(m)) => Ready

\* ... and, with no call under way and no use of the legacy EnsureModel, only then.
ReadyMeansInstance ==
    Ready /\ (\A o \in Requests : pc[o] = "idle") => \E m \in Mapped : IsReady(m)

\* Every call returns.
CallsReturn ==
    \A o \in Requests :
        pc[o] # "idle" \/ adm[o] # "idle" ~> pc[o] = "idle" /\ adm[o] = "idle"

\* What a call relies on at each of its steps: past the registry lookup its
\* model is a registered one, past the insertion it holds an instance.
Located ==
    \A o \in Requests :
        /\ pc[o] \in Pcs \ {"idle", "ensure", "setLoading", "warmModel"}
               => model[o] \in Models
        /\ pc[o] \in {"spawn", "warm", "drain", "stopUnload", "remove"}
               => inst[o] \in Instances
        /\ pc[o] = "stopVictim" => victim[o] \in Models

\* The eviction order lists the keys of m.instances, each of them once.
RecencyIsMap ==
    /\ \A k, l \in 1..Len(recency) : recency[k] = recency[l] => k = l
    /\ \A m \in Models : m \in Mapped <=> \E k \in 1..Len(recency) : recency[k] = m

\* Holds in every configuration, and is inductive.
MgrInv == TypeOK /\ Located /\ RecencyIsMap

\* No load is given up: no caller goes away and every process starts.
LoadsSucceed == ~CanCancel /\ ~(SpawnMode /\ SpawnMayFail)

\* One call at a time.
Serial == \A o, p \in Requests : o = p

\* Which steps a configuration rules out.
Unreached ==
    /\ ~CanCancel => \A o \in Requests : ~ctxDone[o]
    /\ ~SpawnMode => \A o \in Requests : pc[o] \notin {"stopVictim", "spawn", "stopUnload"}
    /\ "unload" \notin Kinds =>
           \A o \in Requests : pc[o] \notin {"drain", "stopUnload", "remove"}
    /\ BudgetMB = 0 => \A o \in Requests : pc[o] \notin {"evict", "scan", "stopVictim"}

\* Only a call between the insertion and the commit has an instance to
\* count, and what is summed over is finite.
Tally ==
    /\ \A o \in Requests : added[o] => pc[o] \in {"spawn", "warm"}
    /\ IsFiniteSet(Mapped) /\ IsFiniteSet(Pending)

\* What an eviction chose is still there when its process has stopped.
VictimMapped == \A o \in Requests : pc[o] = "stopVictim" => victim[o] \in Mapped

\* One holder of m.mu; and what its scan has found stays in the map, with no
\* request on it whose beginGeneration has returned.
Scanning ==
    /\ \A o, p \in Requests : pc[o] = "scan" /\ pc[p] = "scan" => o = p
    /\ \A o \in Requests : pc[o] = "scan" =>
        /\ unseen[o] \subseteq Mapped
        /\ victim[o] # NoModel => victim[o] \in Mapped /\ ~Served(instances[victim[o]])

\* The instance that a call loads is the one its key names, up to the lookup
\* of beginGeneration.
LoadedIsMapped ==
    \A o \in Requests :
        /\ pc[o] \in {"spawn", "warm"} => instances[model[o]] = inst[o]
        /\ pc[o] = "lookup" => model[o] \in Mapped

\* A load follows a test that the model fits.
LoadFits ==
    BudgetMB > 0 => \A o \in Requests : pc[o] = "load" => Fits(model[o])
=============================================================================
