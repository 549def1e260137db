---------------------------- MODULE ManagerProofs ----------------------------
(* The manager uses the channels of its instances only in the way module   *)
(* Admission describes, so what is proved there holds for every run of the *)
(* manager: any models, sizes, budget, kinds of call, cancellations,       *)
(* evictions and unloads.  Then the manager's own state: types, the map    *)
(* of instances, evictions, the memory account and the budget.             *)
EXTENDS Manager, AdmissionProofs, SumProofs

\* All that the argument needs of the manager's own state: m.instances maps
\* registered models to instances or to nothing.
MapOK == instances \in [Models -> Instances \cup {NoInst}]

\* Calls and context changes touch at most ctxDone.
LEMMA CallIsAdmission ==
    ASSUME NEW o \in Requests, Call(o) \/ EndCtx(o)
    PROVE  [AdmNext]_admVars
<1>1. CASE Call(o)
    <2>1. FreshCtx(o)
        BY <1>1 DEF Call, CallEnsure, CallUnload, CallEnsureModel, NewCall
    <2> QED
        BY <2>1 DEF AdmNext
<1>2. CASE EndCtx(o)
    BY <1>2 DEF EndCtx, AdmNext
<1> QED
    BY <1>1, <1>2

\* EnsureInstance, with its evictions, leaves the channels alone.
LEMMA EnsureIsAdmission ==
    ASSUME NEW o \in Requests, EnsureStep(o)
    PROVE  UNCHANGED admVars
<1>1. CASE CheckReady(o) \/ TouchReady(o)
    BY <1>1 DEF CheckReady, TouchReady
<1>2. CASE EvictDone(o) \/ BeginScan(o) \/ Visit(o) \/ EvictFails(o) \/ PickVictim(o)
           \/ VictimStopped(o)
    BY <1>2 DEF EvictDone, BeginScan, Visit, ScanOver, EvictFails, PickVictim,
                VictimStopped, Evict
<1>3. CASE Load(o) \/ SpawnReady(o) \/ LoadFails(o) \/ Commit(o)
    BY <1>3 DEF Load, SpawnReady, LoadFails, Commit
<1> QED
    BY <1>1, <1>2, <1>3 DEF EnsureStep

\* Unload and EnsureModel leave the channels alone: Unload only reads them.
LEMMA UnloadIsAdmission ==
    ASSUME NEW o \in Requests, UnloadStep(o) \/ ModelStep(o)
    PROVE  UNCHANGED admVars
    BY DEF UnloadStep, ModelStep, UnloadWaited, UnloadStopped, UnloadRemove,
           ModelSetLoading, ModelFails, ModelCommit

\* The steps of Infer after EnsureInstance are Admission's steps, taken on
\* an instance that was in m.instances at the lookup.
LEMMA InferIsAdmission ==
    ASSUME MapOK, NEW o \in Requests, InferStep(o) \/ EndGeneration(o)
    PROVE  [AdmNext]_admVars
<1>1. CASE LookupMisses(o)
    BY <1>1 DEF LookupMisses
<1>2. CASE BeginLookup(o)
    <2>1. instances[model[o]] \in Instances /\ Lookup(o, instances[model[o]])
        BY <1>2 DEF BeginLookup, Mapped, MapOK
    <2> QED
        BY <2>1 DEF AdmNext
<1>3. CASE BeginChecks(o)
    BY <1>3 DEF BeginChecks, AdmNext
<1>4. CASE Admit(o)
    BY <1>4 DEF Admit, AdmNext
<1>5. CASE BeginGrant(o)
    BY <1>5 DEF BeginGrant, AdmNext
<1>6. CASE EndGeneration(o)
    BY <1>6 DEF EndGeneration, AdmNext
<1> QED
    BY <1>1, <1>2, <1>3, <1>4, <1>5, <1>6 DEF InferStep

\* No step puts anything else into m.instances.
LEMMA MapKept ==
    ASSUME MapOK, [Next]_vars
    PROVE  MapOK'
<1>1. CASE UNCHANGED instances
    BY <1>1 DEF MapOK
<1>2. ASSUME NEW o \in Requests, Load(o)
      PROVE  MapOK'
    <2>1. CASE model[o] \notin Mapped /\ HaveFresh
        <3> DEFINE i == CHOOSE i \in Instances : IsFresh(i)
        <3>1. i \in Instances
            BY <2>1 DEF HaveFresh
        <3>2. instances' = [instances EXCEPT ![model[o]] = i]
            BY <1>2, <2>1 DEF Load
        <3> QED
            BY <3>1, <3>2 DEF MapOK
    <2>2. CASE UNCHANGED instances
        BY <2>2 DEF MapOK
    <2> QED
        BY <1>2, <2>1, <2>2 DEF Load
<1>3. ASSUME NEW o \in Requests, NEW v, Evict(o, v)
      PROVE  MapOK'
    BY <1>3 DEF Evict, MapOK
<1>4. ASSUME NEW o \in Requests, UnloadRemove(o)
      PROVE  MapOK'
    BY <1>4 DEF UnloadRemove, MapOK
<1>5. ASSUME NEW o \in Requests, EnsureStep(o)
      PROVE  MapOK'
    <2>1. CASE CheckReady(o) \/ TouchReady(o) \/ EvictDone(o) \/ BeginScan(o)
               \/ Visit(o) \/ EvictFails(o)
               \/ SpawnReady(o) \/ LoadFails(o) \/ Commit(o)
        BY <2>1, <1>1
           DEF CheckReady, TouchReady, EvictDone, BeginScan, Visit, ScanOver, EvictFails,
               SpawnReady, LoadFails,
               Commit, mapVars
    <2>2. CASE PickVictim(o)
        BY <2>2, <1>1, <1>3 DEF PickVictim, ScanOver, mapVars
    <2>3. CASE VictimStopped(o)
        BY <2>3, <1>3 DEF VictimStopped
    <2>4. CASE Load(o)
        BY <2>4, <1>2
    <2> QED
        BY <1>5, <2>1, <2>2, <2>3, <2>4 DEF EnsureStep
<1>6. ASSUME NEW o \in Requests, UnloadStep(o) \/ ModelStep(o)
      PROVE  MapOK'
    BY <1>6, <1>1, <1>4
       DEF UnloadStep, ModelStep, UnloadWaited, UnloadStopped, ModelSetLoading,
           ModelFails, ModelCommit, mapVars
<1>7. ASSUME NEW o \in Requests,
             Call(o) \/ EndCtx(o) \/ InferStep(o) \/ EndGeneration(o)
      PROVE  MapOK'
    BY <1>7, <1>1
       DEF Call, CallEnsure, CallUnload, CallEnsureModel, NewCall, EndCtx, InferStep,
           LookupMisses, BeginLookup, BeginChecks, Admit, BeginGrant, EndGeneration,
           mgrVars, mapVars
<1>8. CASE AtRest \/ UNCHANGED vars
    BY <1>8, <1>1 DEF AtRest, vars, mgrVars, mapVars
<1> QED
    BY <1>5, <1>6, <1>7, <1>8 DEF Next, Progress

\* Every step of the manager is a step of Admission, or leaves its
\* variables alone.
LEMMA StepIsAdmission ==
    ASSUME MapOK, [Next]_vars
    PROVE  [AdmNext]_admVars
<1>1. ASSUME NEW o \in Requests, Call(o) \/ EndCtx(o)
      PROVE  [AdmNext]_admVars
    BY <1>1, CallIsAdmission
<1>2. ASSUME NEW o \in Requests, Progress(o)
      PROVE  [AdmNext]_admVars
    BY <1>2, EnsureIsAdmission, InferIsAdmission, UnloadIsAdmission DEF Progress
<1>3. CASE AtRest \/ UNCHANGED vars
    BY <1>3 DEF AtRest, vars
<1> QED
    BY <1>1, <1>2, <1>3 DEF Next

\* So the manager uses the channels as module Admission says.
LEMMA ManagerIsAdmission == Spec => AdmSpec
<1>1. Init => AdmInit /\ MapOK
    BY DEF Init, MapOK
<1>2. MapOK /\ [Next]_vars => MapOK'
    BY MapKept
<1>3. MapOK /\ [Next]_vars => [AdmNext]_admVars
    BY StepIsAdmission
<1> QED
    BY <1>1, <1>2, <1>3, PTL DEF Spec, AdmSpec

\* Whatever loads, evictions, unloads and cancellations do, no instance
\* serves two generations at a time, even when it is no longer in
\* m.instances.
THEOREM ManagerSingleInFlight == Spec => []SingleInFlight
<1>1. Spec => AdmSpec
    BY ManagerIsAdmission
<1> QED
    BY <1>1, MutualExclusion, PTL

\* Nor do they make a channel lose or gain a token: len(queueCh) and
\* len(genCh), which eviction, Unload and Status read, count the requests
\* that hold the instance.
THEOREM ManagerTokensAreCounted == Spec => []SlotsMatchHolders
<1>1. Spec => AdmSpec
    BY ManagerIsAdmission
<1> QED
    BY <1>1, TokensAreCounted, PTL

\* What the instances of the manager look like to their requests is the
\* gate of module InstanceGate: at most MaxQueueDepth requests inside, one
\* of them running, and one run for each request let in.
THEOREM ManagerImplementsGate == Spec => ImplementsGate
<1>1. Spec => AdmSpec
    BY ManagerIsAdmission
<1> QED
    BY <1>1, AdmissionImplementsGate, PTL

-----------------------------------------------------------------------------
(* Typing, and the eviction order.                                         *)

\* The local variables of the calls.
OpsOK ==
    /\ pc \in [Requests -> Pcs]
    /\ kind \in [Requests -> {"infer", "switch", "unload", "ensureModel"}]
    /\ model \in [Requests -> Ids \cup {NoModel}]
    /\ inst \in [Requests -> Instances \cup {NoInst}]
    /\ added \in [Requests -> BOOLEAN]
    /\ victim \in [Requests -> Models \cup {NoModel}]
    /\ unseen \in [Requests -> SUBSET Models]
    /\ Located

\* The fields of the manager, the eviction order apart.
FieldsOK ==
    /\ MapOK
    /\ instState \in [Instances -> {"loading", "ready", "draining"}]
    /\ usedEstMB \in Int
    /\ mstate \in {"loading", "ready", "error"}
    /\ cur \in Ids \cup {NoModel}
    /\ calls \in 0..MaxCalls

\* New calls set up their local variables.
LEMMA CallKeepsOps ==
    ASSUME OpsOK, FieldsOK, NEW o \in Requests, Call(o)
    PROVE  OpsOK'
<1> USE DEF OpsOK, Located, Pcs, EnsurePcs
<1>1. ASSUME NEW k \in Kinds, NEW id \in Ids \cup {NoModel}, CallEnsure(o, k, id)
      PROVE  OpsOK'
    BY <1>1, IdsAssumption DEF CallEnsure, NewCall, Resolve, Step
<1>2. ASSUME NEW m \in Models, CallUnload(o, m)
      PROVE  OpsOK'
    <2>1. instances[m] \in Instances
        BY <1>2 DEF CallUnload, Mapped, FieldsOK, MapOK
    <2> QED
        BY <1>2, <2>1, IdsAssumption DEF CallUnload, NewCall, Step, Ids
<1>3. ASSUME NEW id \in Ids, CallEnsureModel(o, id)
      PROVE  OpsOK'
    BY <1>3 DEF CallEnsureModel, NewCall, Step
<1> QED
    BY <1>1, <1>2, <1>3 DEF Call

\* The steps of EnsureInstance keep the call's local variables in order: a
\* model that is to be loaded is a registered one, and the instance that is
\* warmed up is the one that Load found or made.
LEMMA EnsureKeepsOps ==
    ASSUME OpsOK, FieldsOK, NEW o \in Requests, EnsureStep(o)
    PROVE  OpsOK'
<1> USE DEF OpsOK, Located, Pcs, EnsurePcs
<1>1. CASE CheckReady(o)
    BY <1>1 DEF CheckReady, SlowPath, Step
<1>2. CASE TouchReady(o)
    BY <1>2 DEF TouchReady, SlowPath, Succeed, Leave, Step
<1>3. CASE EvictDone(o) \/ EvictFails(o)
    BY <1>3 DEF EvictDone, ScanOver, EvictFails, Fail, Leave, Step
<1>9. CASE BeginScan(o)
    BY <1>9 DEF BeginScan, Mapped, Step
<1>10. CASE Visit(o)
    <2>1. \E m \in unseen[o] :
              /\ unseen' = [unseen EXCEPT ![o] = @ \ {m}]
              /\ victim' = [victim EXCEPT ![o] = m] \/ victim' = victim
        BY <1>10 DEF Visit
    <2>2. unseen[o] \subseteq Models
        OBVIOUS
    <2> QED
        BY <1>10, <2>1, <2>2 DEF Visit
<1>4. ASSUME NEW v, Evict(o, v), pc[o] \in {"scan", "stopVictim"}
      PROVE  OpsOK'
    BY <1>4 DEF Evict, Step
<1>5. CASE PickVictim(o)
    <2>1. CASE Evict(o, victim[o])
        BY <1>4, <1>5, <2>1 DEF PickVictim, ScanOver
    <2>2. CASE Step(o, "stopVictim") /\ UNCHANGED <<kind, model, inst, added, victim, unseen>>
        BY <1>5, <2>2 DEF PickVictim, ScanOver, Step
    <2> QED
        BY <1>5, <2>1, <2>2 DEF PickVictim
<1>6. CASE VictimStopped(o)
    BY <1>4, <1>6 DEF VictimStopped
<1>7. CASE Load(o)
    <2>1. \E i \in Instances : inst' = [inst EXCEPT ![o] = i]
        <3>1. CASE model[o] \in Mapped
            BY <1>7, <3>1 DEF Load, Mapped, FieldsOK, MapOK
        <3>2. CASE model[o] \notin Mapped
            <4> DEFINE i == CHOOSE i \in Instances : IsFresh(i)
            <4>1. i \in Instances /\ inst' = [inst EXCEPT ![o] = i]
                BY <1>7, <3>2 DEF Load, HaveFresh
            <4> QED
                BY <4>1
        <3> QED
            BY <3>1, <3>2
    <2>2. added' = [added EXCEPT ![o] = TRUE] \/ UNCHANGED added
        BY <1>7 DEF Load
    <2>3. /\ pc' = [pc EXCEPT ![o] = IF SpawnMode THEN "spawn" ELSE "warm"]
          /\ pc[o] = "load" /\ UNCHANGED <<kind, model, victim, unseen>>
        BY <1>7 DEF Load, Step
    <2> QED
        BY <2>1, <2>2, <2>3
<1>8. CASE SpawnReady(o) \/ LoadFails(o) \/ Commit(o)
    BY <1>8 DEF SpawnReady, LoadFails, Commit, Succeed, Fail, Leave, Step
<1> QED
    BY <1>1, <1>2, <1>3, <1>5, <1>6, <1>7, <1>8, <1>9, <1>10 DEF EnsureStep

\* So do the steps of Infer, Unload and EnsureModel after their first one.
LEMMA OtherStepsKeepOps ==
    ASSUME OpsOK, NEW o \in Requests,
           \/ EndCtx(o) \/ InferStep(o) \/ EndGeneration(o)
           \/ UnloadStep(o) \/ ModelStep(o)
    PROVE  OpsOK'
<1> USE DEF OpsOK, Located, Pcs, EnsurePcs
<1>1. CASE UNCHANGED opVars
    BY <1>1 DEF opVars
<1>2. CASE EndCtx(o) \/ EndGeneration(o) \/ BeginChecks(o) \/ Admit(o) \/ BeginGrant(o)
    BY <1>1, <1>2 DEF EndCtx, EndGeneration, BeginChecks, Admit, BeginGrant, mgrVars
<1>3. CASE LookupMisses(o) \/ BeginLookup(o)
    BY <1>3 DEF LookupMisses, BeginLookup, Fail, Leave, Step
<1>4. CASE UnloadStep(o)
    BY <1>4 DEF UnloadStep, UnloadWaited, UnloadStopped, UnloadRemove, Leave, Step
<1>5. CASE ModelStep(o)
    BY <1>5 DEF ModelStep, ModelSetLoading, ModelFails, ModelCommit, Fail, Leave, Step
<1> QED
    BY <1>2, <1>3, <1>4, <1>5 DEF InferStep

\* Every step keeps the local variables in order.
LEMMA OpsKept ==
    ASSUME OpsOK, FieldsOK, [Next]_vars
    PROVE  OpsOK'
<1>1. CASE AtRest \/ UNCHANGED vars
    BY <1>1 DEF AtRest, vars, mgrVars, opVars, OpsOK, Located
<1> QED
    BY <1>1, CallKeepsOps, EnsureKeepsOps, OtherStepsKeepOps DEF Next, Progress

\* Every step keeps the fields of the manager in their types; the estimates
\* that are added and subtracted belong to registered models.
LEMMA FieldsKept ==
    ASSUME OpsOK, FieldsOK, [Next]_vars
    PROVE  FieldsOK'
<1>1. MapOK'
    BY MapKept DEF FieldsOK
<1> DEFINE Rest == /\ instState \in [Instances -> {"loading", "ready", "draining"}]
                   /\ usedEstMB \in Int
                   /\ mstate \in {"loading", "ready", "error"}
                   /\ cur \in Ids \cup {NoModel}
                   /\ calls \in 0..MaxCalls
<1>2. Rest
    BY DEF FieldsOK
<1>3. ASSUME UNCHANGED <<instState, usedEstMB, mstate, cur, calls>>
      PROVE  Rest'
    BY <1>2, <1>3
<1>4. ASSUME NEW o \in Requests, Call(o)
      PROVE  Rest'
    <2>1. calls' \in 0..MaxCalls
        BY <1>4, <1>2, SizesAssumption
           DEF Call, CallEnsure, CallUnload, CallEnsureModel, NewCall
    <2>2. instState' \in [Instances -> {"loading", "ready", "draining"}]
        BY <1>4, <1>2 DEF Call, CallEnsure, CallUnload, CallEnsureModel
    <2>3. UNCHANGED <<usedEstMB, mstate, cur>>
        BY <1>4 DEF Call, CallEnsure, CallUnload, CallEnsureModel, NewCall, headVars
    <2> QED
        BY <1>2, <2>1, <2>2, <2>3
<1>5. ASSUME NEW o \in Requests, EnsureStep(o)
      PROVE  Rest'
    <2>1. CASE CheckReady(o) \/ TouchReady(o) \/ EvictDone(o) \/ BeginScan(o)
               \/ Visit(o) \/ EvictFails(o) \/ SpawnReady(o)
        BY <2>1, <1>3
           DEF CheckReady, TouchReady, EvictDone, BeginScan, Visit, ScanOver, EvictFails,
               SpawnReady, mapVars, headVars
    <2>2. ASSUME NEW v \in Models, Evict(o, v)
          PROVE  Rest'
        BY <2>2, <1>2, EstAssumption DEF Evict, headVars
    <2>3. CASE PickVictim(o)
        BY <2>2, <2>3, <1>3 DEF PickVictim, ScanOver, OpsOK, mapVars, headVars
    <2>4. CASE VictimStopped(o)
        BY <2>2, <2>4 DEF VictimStopped, OpsOK, Located
    <2>5. CASE Load(o)
        <3>1. instState' \in [Instances -> {"loading", "ready", "draining"}]
            BY <2>5, <1>2 DEF Load
        <3> QED
            BY <2>5, <3>1, <1>2 DEF Load
    <2>6. CASE LoadFails(o)
        BY <2>6, <1>2 DEF LoadFails, mapVars
    <2>7. CASE Commit(o)
        <3>1. model[o] \in Models
            BY <2>7 DEF Commit, OpsOK, Located, Pcs, EnsurePcs
        <3>2. usedEstMB' = usedEstMB + Est[model[o]] \/ usedEstMB' = usedEstMB
            BY <2>7, Zenon DEF Commit
        <3>3. usedEstMB' \in Int
            BY <3>1, <3>2, <1>2, EstAssumption
        <3>4. instState' \in [Instances -> {"loading", "ready", "draining"}]
            BY <2>7, <1>2 DEF Commit
        <3>5. cur' = model[o] /\ mstate' = "ready" /\ calls' = calls
            BY <2>7 DEF Commit
        <3> QED
            BY <3>1, <3>3, <3>4, <3>5, <1>2 DEF Ids
    <2> QED
        BY <1>5, <2>1, <2>3, <2>4, <2>5, <2>6, <2>7 DEF EnsureStep
<1>6. ASSUME NEW o \in Requests, UnloadStep(o) \/ ModelStep(o)
      PROVE  Rest'
    <2>1. CASE UnloadRemove(o)
        <3>1. model[o] \in Models
            BY <2>1 DEF UnloadRemove, OpsOK, Located, Pcs
        <3> QED
            BY <2>1, <3>1, <1>2, EstAssumption DEF UnloadRemove
    <2>2. CASE UnloadWaited(o) \/ UnloadStopped(o)
        BY <2>2, <1>3 DEF UnloadWaited, UnloadStopped, mapVars, headVars
    <2>3. CASE ModelStep(o)
        BY <2>3, <1>2
           DEF ModelStep, ModelSetLoading, ModelFails, ModelCommit, mapVars, OpsOK
    <2> QED
        BY <1>6, <2>1, <2>2, <2>3 DEF UnloadStep
<1>7. ASSUME NEW o \in Requests, EndCtx(o) \/ InferStep(o) \/ EndGeneration(o)
      PROVE  Rest'
    BY <1>7, <1>3
       DEF EndCtx, InferStep, LookupMisses, BeginLookup, BeginChecks, Admit, BeginGrant,
           EndGeneration, mgrVars, mapVars, headVars
<1>8. ASSUME AtRest \/ UNCHANGED vars
      PROVE  Rest'
    BY <1>8, <1>3 DEF AtRest, vars, mgrVars, mapVars, headVars
<1>9. Rest'
    BY <1>4, <1>5, <1>6, <1>7, <1>8 DEF Next, Progress
<1> QED
    BY <1>1, <1>9 DEF FieldsOK

\* The sequence lists the members of S, each of them once.
Lists(s, S) ==
    /\ s \in Seq(Models)
    /\ Distinct(s)
    /\ \A m \in Models : m \in S <=> \E k \in 1..Len(s) : s[k] = m

\* Without takes a key out of the order and leaves the others.
LEMMA WithoutLists ==
    ASSUME NEW s, NEW S, Lists(s, S), NEW m \in Models
    PROVE  Lists(Without(s, m), S \ {m})
<1> DEFINE at == {k \in 1..Len(s) : s[k] = m}
<1>1. CASE at = {}
    <2>1. Without(s, m) = s
        BY <1>1 DEF Without
    <2>2. m \notin S
        BY <1>1 DEF Lists
    <2> QED
        BY <2>1, <2>2 DEF Lists
<1>2. CASE at # {}
    <2> DEFINE k == CHOOSE k \in at : TRUE
               t == RemoveAt(s, k)
    <2>1. k \in 1..Len(s) /\ s[k] = m
        BY <1>2
    <2>2. Without(s, m) = t
        BY <1>2 DEF Without
    <2> HIDE DEF at, k
    <2>3. /\ t \in Seq(Models) /\ Distinct(t)
          /\ \A j \in 1..Len(t) : \E l \in 1..Len(s) : t[j] = s[l] /\ s[l] # s[k]
        BY <2>1, LeaveDistinct DEF Lists
    <2>4. /\ Len(t) = Len(s) - 1
          /\ \A j \in 1..(Len(s) - 1) : t[j] = IF j < k THEN s[j] ELSE s[j + 1]
        BY <2>1, RemoveAtElements DEF Lists
    <2> HIDE DEF t
    <2>5. ASSUME NEW l \in 1..Len(s), s[l] # m
          PROVE  \E j \in 1..Len(t) : t[j] = s[l]
        <3>0. Len(s) \in Nat /\ s \in Seq(Models)
            BY DEF Lists
        <3>1. CASE l < k
            <4>1. l \in 1..Len(t) /\ l \in 1..(Len(s) - 1)
                BY <3>0, <3>1, <2>1, <2>4
            <4>2. t[l] = s[l]
                BY <4>1, <3>1, <2>4
            <4> QED
                BY <4>1, <4>2
        <3>2. CASE l > k
            <4>1. l - 1 \in 1..Len(t) /\ l - 1 \in 1..(Len(s) - 1) /\ ~(l - 1 < k)
                  /\ (l - 1) + 1 = l
                BY <3>0, <3>2, <2>1, <2>4
            <4>2. t[l - 1] = s[l]
                BY <4>1, <2>4
            <4> QED
                BY <4>1, <4>2
        <3> QED
            BY <3>0, <3>1, <3>2, <2>1, <2>5
    <2>6. ASSUME NEW n \in Models
          PROVE  n \in S \ {m} <=> \E j \in 1..Len(t) : t[j] = n
        <3>1. ASSUME n \in S, n # m
              PROVE  \E j \in 1..Len(t) : t[j] = n
            <4>1. PICK l \in 1..Len(s) : s[l] = n
                BY <3>1 DEF Lists
            <4> QED
                BY <3>1, <4>1, <2>5
        <3>2. ASSUME NEW j \in 1..Len(t), t[j] = n
              PROVE  n \in S /\ n # m
            BY <3>2, <2>1, <2>3 DEF Lists
        <3> QED
            BY <3>1, <3>2
    <2> QED
        BY <2>2, <2>3, <2>6 DEF Lists
<1> QED
    BY <1>1, <1>2

\* Refreshed puts a key at the end, whether or not it was listed before.
LEMMA RefreshedLists ==
    ASSUME NEW s, NEW S, Lists(s, S), NEW m \in Models
    PROVE  Lists(Refreshed(s, m), S \cup {m})
<1> DEFINE t == Without(s, m)
           u == Append(t, m)
<1>1. Lists(t, S \ {m})
    BY WithoutLists
<1>2. Refreshed(s, m) = u
    BY DEF Refreshed
<1> HIDE DEF t
<1>3. t \in Seq(Models) /\ Distinct(t) /\ \A k \in 1..Len(t) : t[k] # m
    BY <1>1 DEF Lists
<1>4. /\ u \in Seq(Models) /\ Distinct(u)
      /\ \A k \in 1..Len(u) : u[k] = m \/ \E l \in 1..Len(t) : u[k] = t[l]
    BY <1>3, JoinDistinct
<1>5. /\ Len(t) \in Nat /\ Len(u) = Len(t) + 1 /\ u[Len(t) + 1] = m
      /\ \A k \in 1..Len(t) : u[k] = t[k]
    BY <1>3, AppendProperties
<1> HIDE DEF u
<1>6. \E k \in 1..Len(u) : u[k] = m
    BY <1>5
<1>7. \A k \in 1..Len(t) : k \in 1..Len(u) /\ u[k] = t[k]
    BY <1>5
<1>8. ASSUME NEW n \in Models
      PROVE  n \in S \cup {m} <=> \E j \in 1..Len(u) : u[j] = n
    BY <1>1, <1>4, <1>6, <1>7 DEF Lists
<1> QED
    BY <1>2, <1>4, <1>8 DEF Lists

\* delete(m.instances, key).
LEMMA KeyDeleted ==
    ASSUME MapOK, NEW m \in Models, instances' = [instances EXCEPT ![m] = NoInst]
    PROVE  Mapped' = Mapped \ {m}
    BY DEF MapOK, Mapped

\* m.instances[key] = inst.
LEMMA KeyInserted ==
    ASSUME MapOK, NEW m \in Models, NEW i \in Instances,
           instances' = [instances EXCEPT ![m] = i]
    PROVE  Mapped' = Mapped \cup {m}
    BY NoInstAssumption DEF MapOK, Mapped

\* Load inserts the key or finds it, and then holds what the key names.
LEMMA LoadEffect ==
    ASSUME OpsOK, FieldsOK, NEW o \in Requests, Load(o)
    PROVE  /\ model[o] \in Models /\ Mapped' = Mapped \cup {model[o]}
           /\ \E i \in Instances :
                 /\ instances' = [instances EXCEPT ![model[o]] = i]
                 /\ instState' = [instState EXCEPT ![i] = "loading"]
                 /\ inst' = [inst EXCEPT ![o] = i]
                 /\ \/ /\ model[o] \notin Mapped /\ IsFresh(i)
                       /\ added' = [added EXCEPT ![o] = TRUE]
                    \/ model[o] \in Mapped /\ instances[model[o]] = i /\ UNCHANGED added
<1> DEFINE m == model[o]
<1>1. m \in Models /\ MapOK
    BY DEF Load, OpsOK, Located, Pcs, EnsurePcs, FieldsOK
<1>2. CASE m \in Mapped
    <2>1. instances[m] \in Instances /\ [instances EXCEPT ![m] = instances[m]] = instances
        BY <1>1, <1>2 DEF Mapped, MapOK
    <2>2. /\ instances' = [instances EXCEPT ![m] = instances[m]]
          /\ instState' = [instState EXCEPT ![instances[m]] = "loading"]
          /\ inst' = [inst EXCEPT ![o] = instances[m]]
          /\ UNCHANGED added
        BY <1>2, <2>1 DEF Load
    <2>3. Mapped' = Mapped \cup {m}
        BY <1>1, <2>1, <2>2, KeyInserted
    <2> QED
        BY <1>1, <1>2, <2>1, <2>2, <2>3
<1>3. CASE m \notin Mapped
    <2> DEFINE i == CHOOSE i \in Instances : IsFresh(i)
    <2>1. i \in Instances /\ IsFresh(i)
        BY <1>3 DEF Load, HaveFresh
    <2>2. /\ instances' = [instances EXCEPT ![m] = i]
          /\ instState' = [instState EXCEPT ![i] = "loading"]
          /\ inst' = [inst EXCEPT ![o] = i]
          /\ added' = [added EXCEPT ![o] = TRUE]
        BY <1>3 DEF Load
    <2> HIDE DEF i
    <2>3. Mapped' = Mapped \cup {m}
        BY <1>1, <2>1, <2>2, KeyInserted
    <2> QED
        BY <1>1, <1>3, <2>1, <2>2, <2>3
<1> QED
    BY <1>2, <1>3

\* The eviction order follows m.instances: whoever deletes a key takes it
\* out of the order, and only keys that are in the map are refreshed.
LEMMA OrderKept ==
    ASSUME AdmTypeOK, OpsOK, FieldsOK, Lists(recency, Mapped), [Next]_vars
    PROVE  Lists(recency, Mapped)'
<1> DEFINE Good == Lists(recency', Mapped')
<1>1. MapOK
    BY DEF FieldsOK
<1>2. ASSUME UNCHANGED <<instances, recency>>
      PROVE  Good
    <2>1. Mapped' = Mapped /\ recency' = recency
        BY <1>2 DEF Mapped
    <2> QED
        BY <2>1
<1>3. ASSUME NEW m \in Mapped, recency' = Refreshed(recency, m), UNCHANGED instances
      PROVE  Good
    <2>1. m \in Models /\ Mapped \cup {m} = Mapped /\ Mapped' = Mapped
        BY <1>3 DEF Mapped
    <2> QED
        BY <1>3, <2>1, RefreshedLists
<1>4. ASSUME NEW m \in Models, recency' = Without(recency, m),
             instances' = [instances EXCEPT ![m] = NoInst]
      PROVE  Good
    <2>1. Mapped' = Mapped \ {m}
        BY <1>1, <1>4, KeyDeleted
    <2>2. Lists(Without(recency, m), Mapped \ {m})
        BY WithoutLists
    <2> QED
        BY <1>4, <2>1, <2>2
<1>5. ASSUME NEW o \in Requests, EnsureStep(o)
      PROVE  Good
    <2>1. CASE CheckReady(o) \/ EvictDone(o) \/ BeginScan(o) \/ Visit(o)
               \/ EvictFails(o) \/ SpawnReady(o) \/ LoadFails(o)
        BY <2>1, <1>2 DEF CheckReady, EvictDone, BeginScan, Visit, ScanOver, EvictFails,
                          SpawnReady, LoadFails, mapVars
    <2>2. CASE TouchReady(o)
        BY <2>2, <1>2, <1>3 DEF TouchReady, IsReady
    <2>3. CASE PickVictim(o)
        BY <2>3, <1>2, <1>4 DEF PickVictim, ScanOver, Evict, OpsOK, mapVars
    <2>4. CASE VictimStopped(o)
        <3>1. victim[o] \in Models
            BY <2>4 DEF VictimStopped, OpsOK, Located
        <3> QED
            BY <2>4, <3>1, <1>4 DEF VictimStopped, Evict
    <2>5. CASE Load(o)
        <3>1. model[o] \in Models /\ Mapped' = Mapped \cup {model[o]}
            BY <2>5, LoadEffect
        <3>2. recency' = Refreshed(recency, model[o])
            BY <2>5 DEF Load
        <3> QED
            BY <3>1, <3>2, RefreshedLists
    <2>6. CASE Commit(o)
        <3>1. model[o] \in Models /\ inst[o] \in Instances
            BY <2>6 DEF Commit, OpsOK, Located, Pcs, EnsurePcs
        <3>2. instances[model[o]] = inst[o] => model[o] \in Mapped
            BY <3>1, NoInstAssumption DEF Mapped
        <3> QED
            BY <2>6, <3>2, <1>2, <1>3 DEF Commit
    <2> QED
        BY <1>5, <2>1, <2>2, <2>3, <2>4, <2>5, <2>6 DEF EnsureStep
<1>6. ASSUME NEW o \in Requests, BeginGrant(o)
      PROVE  Good
    <2>1. target[o] \in Instances
        BY <1>6 DEF BeginGrant, Grant, AdmTypeOK
    <2>2. KeysOf(target[o]) \subseteq Mapped
        BY <2>1, NoInstAssumption DEF KeysOf, Mapped
    <2> QED
        BY <1>6, <2>2, <1>2, <1>3 DEF BeginGrant
<1>7. ASSUME NEW o \in Requests, UnloadStep(o) \/ ModelStep(o)
      PROVE  Good
    <2>1. CASE UnloadRemove(o)
        <3>1. model[o] \in Models
            BY <2>1 DEF UnloadRemove, OpsOK, Located, Pcs
        <3> QED
            BY <2>1, <3>1, <1>4 DEF UnloadRemove
    <2>2. CASE UnloadWaited(o) \/ UnloadStopped(o) \/ ModelStep(o)
        BY <2>2, <1>2
           DEF UnloadWaited, UnloadStopped, ModelStep, ModelSetLoading, ModelFails,
               ModelCommit, mapVars
    <2> QED
        BY <1>7, <2>1, <2>2 DEF UnloadStep
<1>8. ASSUME NEW o \in Requests,
             \/ Call(o) \/ EndCtx(o) \/ EndGeneration(o)
             \/ LookupMisses(o) \/ BeginLookup(o) \/ BeginChecks(o) \/ Admit(o)
      PROVE  Good
    BY <1>8, <1>2
       DEF Call, CallEnsure, CallUnload, CallEnsureModel, NewCall, EndCtx, LookupMisses,
           BeginLookup, BeginChecks, Admit, EndGeneration, mgrVars, mapVars
<1>9. ASSUME AtRest \/ UNCHANGED vars
      PROVE  Good
    BY <1>9, <1>2 DEF AtRest, vars, mgrVars, mapVars
<1> QED
    BY <1>5, <1>6, <1>7, <1>8, <1>9 DEF Next, Progress, InferStep, Lists

\* MgrInv, cut into the parts that the lemmas above keep.
LEMMA MgrInvParts ==
    MgrInv <=> AdmTypeOK /\ OpsOK /\ FieldsOK /\ Lists(recency, Mapped)
    BY DEF MgrInv, TypeOK, OpsOK, FieldsOK, MapOK, RecencyIsMap, Lists, Distinct

\* The same in the next state.
LEMMA MgrInvPartsNext ==
    MgrInv' <=> AdmTypeOK' /\ OpsOK' /\ FieldsOK' /\ Lists(recency, Mapped)'
    BY DEF MgrInv, TypeOK, OpsOK, FieldsOK, MapOK, RecencyIsMap, Lists, Distinct

\* MgrInv holds at the start.
LEMMA MgrInvInit == Init => MgrInv
<1> SUFFICES ASSUME Init PROVE MgrInv
    OBVIOUS
<1>1. AdmTypeOK
    BY InvInit DEF Init, AdmInv
<1>2. OpsOK
    BY DEF Init, OpsOK, Located, Pcs
<1>3. FieldsOK
    BY SizesAssumption DEF Init, FieldsOK, MapOK
<1>4. Lists(recency, Mapped)
    <2>1. recency = <<>> /\ Mapped = {}
        BY DEF Init, Mapped
    <2>2. recency \in Seq(Models) /\ Len(recency) = 0
        BY <2>1
    <2> QED
        BY <2>1, <2>2 DEF Lists, Distinct
<1> QED
    BY <1>1, <1>2, <1>3, <1>4, MgrInvParts

\* MgrInv is inductive, given the invariant of Admission.
THEOREM ManagerInvariant == Spec => [](AdmInv /\ MgrInv)
<1>1. Spec => []AdmInv
    <2>1. Spec => AdmSpec
        BY ManagerIsAdmission
    <2> QED
        BY <2>1, AdmissionInvariant, PTL
<1>2. AdmInv' /\ MgrInv /\ [Next]_vars => MgrInv'
    <2> SUFFICES ASSUME AdmInv', MgrInv, [Next]_vars
                 PROVE  MgrInv'
        OBVIOUS
    <2>1. AdmTypeOK /\ OpsOK /\ FieldsOK /\ Lists(recency, Mapped)
        BY MgrInvParts
    <2>2. AdmTypeOK'
        BY DEF AdmInv
    <2>3. OpsOK' /\ FieldsOK' /\ Lists(recency, Mapped)'
        BY <2>1, OpsKept, FieldsKept, OrderKept
    <2> QED
        BY <2>2, <2>3, MgrInvPartsNext
<1> QED
    BY <1>1, <1>2, MgrInvInit, PTL DEF Spec

\* Every variable of the manager keeps its type, for any models, sizes,
\* budget and calls.
THEOREM ManagerTyping == Spec => []TypeOK
<1>1. MgrInv => TypeOK
    BY DEF MgrInv
<1> QED
    BY <1>1, ManagerInvariant, PTL

-----------------------------------------------------------------------------
(* What the configuration rules out.                                       *)

\* Only EndCtx ends a context; a new call has a fresh one.
LEMMA ContextsKept ==
    ASSUME AdmTypeOK, ~CanCancel, \A p \in Requests : ~ctxDone[p], [Next]_vars
    PROVE  \A p \in Requests : ~ctxDone'[p]
<1>1. ASSUME UNCHANGED ctxDone
      PROVE  \A p \in Requests : ~ctxDone'[p]
    BY <1>1
<1>2. ASSUME NEW o \in Requests, Call(o)
      PROVE  \A p \in Requests : ~ctxDone'[p]
    <2>1. ctxDone' = [ctxDone EXCEPT ![o] = FALSE]
        BY <1>2 DEF Call, CallEnsure, CallUnload, CallEnsureModel, NewCall, FreshCtx
    <2> QED
        BY <2>1 DEF AdmTypeOK
<1>3. ASSUME NEW o \in Requests, EnsureStep(o) \/ UnloadStep(o) \/ ModelStep(o)
      PROVE  UNCHANGED ctxDone
    BY <1>3, EnsureIsAdmission, UnloadIsAdmission DEF admVars
<1>4. ASSUME NEW o \in Requests, InferStep(o) \/ EndGeneration(o)
      PROVE  UNCHANGED ctxDone
    <2>1. CASE LookupMisses(o) \/ BeginLookup(o) \/ BeginChecks(o) \/ BeginGrant(o)
               \/ EndGeneration(o)
        BY <2>1
           DEF LookupMisses, BeginLookup, BeginChecks, BeginGrant, EndGeneration, admVars,
               Lookup, Refuse, PassChecks, Grant, ReceiveGen
    <2>2. CASE Admit(o)
        BY <2>2
           DEF Admit, AdmStep, ReserveQueue, ParkQueue, QueueSelectFails, RecheckCtx,
               AcquireGen, ParkGen, GenSelectFails, ReceiveQueue
    <2> QED
        BY <1>4, <2>1, <2>2 DEF InferStep
<1>5. ASSUME NEW o \in Requests, EndCtx(o)
      PROVE  FALSE
    BY <1>5 DEF EndCtx
<1>6. ASSUME AtRest \/ UNCHANGED vars
      PROVE  UNCHANGED ctxDone
    BY <1>6 DEF AtRest, vars, admVars
<1> QED
    BY <1>1, <1>2, <1>3, <1>4, <1>5, <1>6 DEF Next, Progress

\* A call moves on its own: a step leaves the place of every other call
\* alone, and takes its own along the paths that the configuration has.
LEMMA PlaceMoves ==
    ASSUME OpsOK, Unreached, [Next]_vars, NEW p \in Requests
    PROVE  /\ pc'[p] \in {"stopVictim", "spawn", "stopUnload"} /\ pc'[p] # pc[p] => SpawnMode
           /\ pc'[p] \in {"drain", "stopUnload", "remove"} /\ pc'[p] # pc[p]
                  => "unload" \in Kinds
           /\ pc'[p] \in {"evict", "scan", "stopVictim"} /\ pc'[p] # pc[p] => BudgetMB > 0
<1> DEFINE Good == 
           /\ pc'[p] \in {"stopVictim", "spawn", "stopUnload"} /\ pc'[p] # pc[p] => SpawnMode
           /\ pc'[p] \in {"drain", "stopUnload", "remove"} /\ pc'[p] # pc[p]
                  => "unload" \in Kinds
           /\ pc'[p] \in {"evict", "scan", "stopVictim"} /\ pc'[p] # pc[p] => BudgetMB > 0
<1>1. pc \in [Requests -> Pcs] /\ BudgetMB \in Nat
    BY SizesAssumption DEF OpsOK
<1>2. ASSUME NEW o \in Requests, Call(o)
      PROVE  Good
    BY <1>1, <1>2 DEF Call, CallEnsure, CallUnload, CallEnsureModel, NewCall, Step
<1>3. ASSUME NEW o \in Requests, EnsureStep(o)
      PROVE  Good
    <2>1. BudgetMB > 0 \/ pc[o] \notin {"evict", "scan", "stopVictim"}
        BY <1>1 DEF Unreached
    <2>2. CASE CheckReady(o) \/ TouchReady(o)
        BY <1>1, <2>2 DEF CheckReady, TouchReady, SlowPath, Succeed, Leave, Step
    <2>3. CASE EvictDone(o) \/ BeginScan(o) \/ Visit(o) \/ EvictFails(o)
        BY <1>1, <2>1, <2>3 DEF EvictDone, BeginScan, Visit, ScanOver, EvictFails, Fail,
                                Leave, Step
    <2>4. CASE PickVictim(o) \/ VictimStopped(o)
        BY <1>1, <2>1, <2>4 DEF PickVictim, ScanOver, VictimStopped, Evict, Step
    <2>5. CASE Load(o) \/ SpawnReady(o) \/ LoadFails(o) \/ Commit(o)
        BY <1>1, <2>5 DEF Load, SpawnReady, LoadFails, Commit, Succeed, Fail, Leave, Step
    <2> QED
        BY <1>3, <2>2, <2>3, <2>4, <2>5 DEF EnsureStep
<1>4. ASSUME NEW o \in Requests, InferStep(o) \/ EndGeneration(o) \/ EndCtx(o)
      PROVE  Good
    BY <1>1, <1>4
       DEF InferStep, LookupMisses, BeginLookup, BeginChecks, Admit, BeginGrant,
           EndGeneration, EndCtx, mgrVars, opVars, Fail, Leave, Step
<1>5. ASSUME NEW o \in Requests, UnloadStep(o)
      PROVE  Good
    <2>1. "unload" \in Kinds
        BY <1>5 DEF UnloadStep, UnloadWaited, UnloadStopped, UnloadRemove, Unreached
    <2> QED
        BY <1>1, <1>5, <2>1
           DEF UnloadStep, UnloadWaited, UnloadStopped, UnloadRemove, Leave, Step
<1>6. ASSUME NEW o \in Requests, ModelStep(o)
      PROVE  Good
    BY <1>1, <1>6 DEF ModelStep, ModelSetLoading, ModelFails, ModelCommit, Fail, Leave, Step
<1>7. ASSUME AtRest \/ UNCHANGED vars
      PROVE  Good
    BY <1>1, <1>7 DEF AtRest, vars, mgrVars, opVars
<1> QED
    BY <1>2, <1>3, <1>4, <1>5, <1>6, <1>7 DEF Next, Progress

\* No step reaches what the configuration rules out.
LEMMA UnreachedKept ==
    ASSUME AdmTypeOK, OpsOK, Unreached, [Next]_vars
    PROVE  Unreached'
<1>1. ~CanCancel => \A o \in Requests : ~ctxDone'[o]
    BY ContextsKept DEF Unreached
<1> QED
    BY <1>1, PlaceMoves, SizesAssumption DEF Unreached

\* What a configuration rules out is never reached.
THEOREM ManagerUnreached == Spec => [](AdmInv /\ MgrInv /\ Unreached)
<1>1. Init => Unreached
    BY DEF Init, AdmInit, Unreached
<1>2. AdmInv /\ MgrInv /\ Unreached /\ [Next]_vars => Unreached'
    BY UnreachedKept, MgrInvParts
<1> QED
    BY <1>1, <1>2, ManagerInvariant, PTL DEF Spec

-----------------------------------------------------------------------------
(* Evictions.                                                              *)

\* Both channels of an instance are empty only if no request is on it whose
\* beginGeneration has returned.
LEMMA DrainedIsUnserved ==
    ASSUME AdmInv, NEW i \in Instances, Drained(i)
    PROVE  ~Served(i)
<1>1. IsFiniteSet(QueueHolders(i)) /\ Cardinality(QueueHolders(i)) = 0
    BY DEF AdmInv, Counted, Drained
<1>2. QueueHolders(i) = {}
    BY <1>1, FS_EmptySet
<1> QED
    BY <1>2 DEF Served, QueueHolders, HoldsQueue, HoldsGen

\* Only Grant, which the manager takes with m.mu, lets beginGeneration return.
LEMMA ServedShrinks ==
    ASSUME AdmTypeOK, NEW o \in Requests,
           \/ Refuse(o) \/ PassChecks(o) \/ AdmStep(o) \/ ReceiveGen(o)
           \/ Cancel(o) \/ FreshCtx(o),
           NEW i \in Instances, Served(i)'
    PROVE  Served(i)
<1>1. PICK r \in Requests : target'[r] = i /\ adm'[r] \in {"inflight", "release"}
    BY DEF Served
<1>2. SUFFICES target[r] = i /\ adm[r] \in {"inflight", "release"}
    BY DEF Served
<1>3. CASE Refuse(o) \/ PassChecks(o)
    BY <1>1, <1>3, NoInstAssumption DEF Refuse, PassChecks, Return, Goto, AdmTypeOK
<1>4. CASE Cancel(o) \/ FreshCtx(o)
    BY <1>1, <1>4 DEF Cancel, FreshCtx
<1>5. CASE ReserveQueue(o) \/ ParkQueue(o) \/ RecheckCtx(o) \/ AcquireGen(o) \/ ParkGen(o)
           \/ GenSelectFails(o)
    BY <1>1, <1>5
       DEF ReserveQueue, ParkQueue, RecheckCtx, AcquireGen, ParkGen, GenSelectFails, Goto,
           AdmTypeOK
<1>6. CASE QueueSelectFails(o)
    BY <1>1, <1>6 DEF QueueSelectFails, Return, Goto, AdmTypeOK
<1>7. CASE ReceiveQueue(o)
    <2>1. /\ target' = [target EXCEPT ![o] = NoInst]
          /\ \/ adm' = [adm EXCEPT ![o] = "idle"]
             \/ \E h : adm' = [adm EXCEPT ![o] = "idle", ![h] = "slot"]
        BY <1>7 DEF ReceiveQueue, Goto
    <2> QED
        BY <1>1, <2>1 DEF AdmTypeOK
<1>8. CASE ReceiveGen(o)
    <2>1. /\ UNCHANGED target /\ adm[o] = "inflight"
          /\ \/ adm' = [adm EXCEPT ![o] = "release"]
             \/ \E h : adm' = [adm EXCEPT ![o] = "release", ![h] = "granted"]
        BY <1>8 DEF ReceiveGen, Goto
    <2> QED
        BY <1>1, <2>1 DEF AdmTypeOK
<1> QED
    BY <1>3, <1>4, <1>5, <1>6, <1>7, <1>8 DEF AdmStep

\* A scan ends in one of two ways.
LEMMA ScanEnds ==
    ASSUME OpsOK, NEW o \in Requests, pc[o] = "scan", pc'[o] # "scan", [Next]_vars
    PROVE  EvictFails(o) \/ PickVictim(o)
<1>1. ASSUME UNCHANGED pc
      PROVE  FALSE
    BY <1>1
<1>2. ASSUME NEW p \in Requests,
             UNCHANGED pc \/ (pc[p] # "scan" /\ \E st : pc' = [pc EXCEPT ![p] = st])
      PROVE  FALSE
    BY <1>2 DEF OpsOK
<1>3. ASSUME NEW p \in Requests, Call(p)
      PROVE  FALSE
    BY <1>2, <1>3 DEF Call, CallEnsure, CallUnload, CallEnsureModel, NewCall, Step
<1>4. ASSUME NEW p \in Requests, EnsureStep(p)
      PROVE  EvictFails(o) \/ PickVictim(o)
    <2>1. CASE CheckReady(p) \/ TouchReady(p)
        <3>1. pc[p] # "scan" /\ \E st : pc' = [pc EXCEPT ![p] = st]
            BY <2>1 DEF CheckReady, TouchReady, SlowPath, Succeed, Leave, Step
        <3> QED
            BY <1>2, <3>1
    <2>2. CASE EvictDone(p) \/ BeginScan(p) \/ Visit(p)
        BY <1>2, <2>2 DEF EvictDone, BeginScan, Visit, Step
    <2>3. CASE EvictFails(p) \/ PickVictim(p)
        <3>1. \E st : pc' = [pc EXCEPT ![p] = st]
            BY <2>3 DEF EvictFails, PickVictim, Evict, Fail, Leave, Step
        <3> QED
            BY <2>3, <3>1 DEF OpsOK
    <2>4. CASE VictimStopped(p)
        <3>1. pc[p] # "scan" /\ \E st : pc' = [pc EXCEPT ![p] = st]
            BY <2>4 DEF VictimStopped, Evict, Step
        <3> QED
            BY <1>2, <3>1
    <2>5. CASE Load(p) \/ SpawnReady(p) \/ LoadFails(p) \/ Commit(p)
        <3>1. pc[p] # "scan" /\ \E st : pc' = [pc EXCEPT ![p] = st]
            BY <2>5 DEF Load, SpawnReady, LoadFails, Commit, Succeed, Fail, Leave, Step
        <3> QED
            BY <1>2, <3>1
    <2> QED
        BY <1>4, <2>1, <2>2, <2>3, <2>4, <2>5 DEF EnsureStep
<1>5. ASSUME NEW p \in Requests, LookupMisses(p) \/ BeginLookup(p)
      PROVE  FALSE
    BY <1>2, <1>5 DEF LookupMisses, BeginLookup, Fail, Leave, Step
<1>6. ASSUME NEW p \in Requests, UnloadStep(p) \/ ModelStep(p)
      PROVE  FALSE
    <2>1. pc[p] # "scan" /\ \E st : pc' = [pc EXCEPT ![p] = st]
        BY <1>6
           DEF UnloadStep, UnloadWaited, UnloadStopped, UnloadRemove, ModelStep,
               ModelSetLoading, ModelFails, ModelCommit, Fail, Leave, Step
    <2> QED
        BY <1>2, <2>1
<1>7. ASSUME NEW p \in Requests,
             EndCtx(p) \/ BeginChecks(p) \/ Admit(p) \/ BeginGrant(p) \/ EndGeneration(p)
      PROVE  FALSE
    BY <1>1, <1>7
       DEF EndCtx, BeginChecks, Admit, BeginGrant, EndGeneration, mgrVars, opVars
<1>8. ASSUME AtRest \/ UNCHANGED vars
      PROVE  FALSE
    BY <1>1, <1>8 DEF AtRest, vars, mgrVars, opVars
<1> QED
    BY <1>3, <1>4, <1>5, <1>6, <1>7, <1>8 DEF Next, Progress, InferStep

\* While one call scans, whoever needs the lock waits; and what the others do
\* without it neither changes the map nor lets beginGeneration return.
LEMMA ScanKept ==
    ASSUME AdmInv, OpsOK, FieldsOK, Scanning, [Next]_vars
    PROVE  Scanning'
\* A step with the lock free that begins no scan.
<1>1. ASSUME NEW o \in Requests, Unlocked,
             UNCHANGED pc \/ \E st : st # "scan" /\ pc' = [pc EXCEPT ![o] = st]
      PROVE  Scanning'
    <2>1. \A p \in Requests : pc'[p] # "scan"
        BY <1>1 DEF Unlocked, OpsOK
    <2> QED
        BY <2>1 DEF Scanning
\* A step outside the lock.
<1>2. ASSUME NEW o \in Requests,
             \/ Refuse(o) \/ PassChecks(o) \/ AdmStep(o) \/ ReceiveGen(o)
             \/ Cancel(o) \/ FreshCtx(o) \/ UNCHANGED admVars,
             UNCHANGED <<victim, unseen, instances>>,
             \A p \in Requests : pc'[p] = "scan" => pc[p] = "scan"
      PROVE  Scanning'
    <2>1. ASSUME NEW i \in Instances, Served(i)'
          PROVE  Served(i)
        <3>1. CASE UNCHANGED admVars
            BY <2>1, <3>1 DEF Served, admVars
        <3>2. CASE ~UNCHANGED admVars
            BY <1>2, <2>1, <3>2, ServedShrinks DEF AdmInv
        <3> QED
            BY <3>1, <3>2
    <2>2. \A m \in Mapped : instances[m] \in Instances
        BY DEF Mapped, FieldsOK, MapOK
    <2>3. Mapped' = Mapped
        BY <1>2 DEF Mapped
    <2>4. \A p, q \in Requests : pc'[p] = "scan" /\ pc'[q] = "scan" => p = q
        BY <1>2 DEF Scanning
    <2>5. ASSUME NEW p \in Requests, pc'[p] = "scan"
          PROVE  /\ unseen'[p] \subseteq Mapped'
                 /\ victim'[p] # NoModel => victim'[p] \in Mapped' /\ ~Served(instances[victim[p]])'
        <3>1. pc[p] = "scan" /\ unseen[p] \subseteq Mapped
            BY <1>2, <2>5 DEF Scanning
        <3>2. ASSUME victim[p] # NoModel
              PROVE  victim[p] \in Mapped /\ ~Served(instances[victim[p]])
            BY <3>1, <3>2 DEF Scanning
        <3> QED
            BY <1>2, <2>1, <2>2, <2>3, <3>1, <3>2
    <2> QED
        BY <2>4, <2>5 DEF Scanning
<1>3. ASSUME NEW o \in Requests, Call(o)
      PROVE  Scanning'
    <2>1. CASE \E k \in Kinds, id \in Ids \cup {NoModel} : CallEnsure(o, k, id)
        <3>1. /\ FreshCtx(o) /\ UNCHANGED <<victim, unseen, instances>>
              /\ pc' = [pc EXCEPT ![o] = "ensure"]
            BY <2>1 DEF CallEnsure, NewCall, Step
        <3> QED
            BY <1>2, <3>1 DEF OpsOK
    <2>2. CASE ~\E k \in Kinds, id \in Ids \cup {NoModel} : CallEnsure(o, k, id)
        <3>1. Unlocked /\ \E st \in {"drain", "setLoading"} : pc' = [pc EXCEPT ![o] = st]
            BY <1>3, <2>2 DEF Call, CallUnload, CallEnsureModel, NewCall, Step
        <3> QED
            BY <1>1, <3>1
    <2> QED
        BY <2>1, <2>2
<1>4. ASSUME NEW o \in Requests, EnsureStep(o)
      PROVE  Scanning'
    <2>1. CASE CheckReady(o) \/ TouchReady(o)
        <3>1. Unlocked /\ \E st : st # "scan" /\ pc' = [pc EXCEPT ![o] = st]
            BY <2>1 DEF CheckReady, TouchReady, SlowPath, Succeed, Leave, Step
        <3> QED
            BY <1>1, <3>1
    <2>2. CASE EvictDone(o) \/ VictimStopped(o)
        <3>1. Unlocked /\ \E st : st # "scan" /\ pc' = [pc EXCEPT ![o] = st]
            BY <2>2 DEF EvictDone, VictimStopped, Evict, Step
        <3> QED
            BY <1>1, <3>1
    <2>3. CASE BeginScan(o)
        <3>1. /\ \A p \in Requests : pc'[p] = "scan" => p = o
              /\ unseen'[o] = Mapped /\ victim'[o] = NoModel /\ UNCHANGED instances
            BY <2>3 DEF BeginScan, Unlocked, Step, OpsOK, mapVars
        <3>2. Mapped' = Mapped
            BY <3>1 DEF Mapped
        <3> QED
            BY <3>1, <3>2 DEF Scanning
    <2>4. CASE Visit(o)
        <3>1. /\ pc[o] = "scan" /\ UNCHANGED <<pc, instances, admVars>>
            BY <2>4 DEF Visit, mapVars
        <3>2. PICK m \in unseen[o] :
                 /\ unseen' = [unseen EXCEPT ![o] = @ \ {m}]
                 /\ \/ IsIdle(m) /\ victim' = [victim EXCEPT ![o] = m]
                    \/ UNCHANGED victim
            BY <2>4 DEF Visit
        <3>3. unseen[o] \subseteq Mapped /\ m \in Mapped /\ instances[m] \in Instances
            BY <3>1, <3>2 DEF Scanning, Mapped, FieldsOK, MapOK
        <3>4. IsIdle(m) => ~Served(instances[m])
            BY <3>3, DrainedIsUnserved DEF IsIdle
        <3>5. /\ Mapped' = Mapped
              /\ \A i : Served(i)' = Served(i)
            BY <3>1 DEF Mapped, Served, admVars
        <3>6. /\ unseen'[o] \subseteq Mapped
              /\ victim'[o] # NoModel => victim'[o] \in Mapped /\ ~Served(instances[victim'[o]])
            BY <3>1, <3>2, <3>3, <3>4 DEF Scanning, OpsOK
        <3>7. \A p \in Requests : pc'[p] = "scan" => p = o
            BY <3>1 DEF Scanning
        <3>8. victim'[o] # NoModel => ~Served(instances[victim[o]])'
            BY <3>1, <3>6 DEF Served, admVars
        <3> QED
            BY <3>5, <3>6, <3>7, <3>8 DEF Scanning
    <2>5. CASE EvictFails(o) \/ PickVictim(o)
        <3>1. pc[o] = "scan" /\ \E st : st # "scan" /\ pc' = [pc EXCEPT ![o] = st]
            BY <2>5 DEF EvictFails, PickVictim, ScanOver, Evict, Fail, Leave, Step
        <3>2. \A p \in Requests : pc'[p] # "scan"
            BY <3>1 DEF Scanning, OpsOK
        <3> QED
            BY <3>2 DEF Scanning
    <2>6. CASE Load(o) \/ SpawnReady(o) \/ LoadFails(o) \/ Commit(o)
        <3>1. Unlocked /\ \E st : st # "scan" /\ pc' = [pc EXCEPT ![o] = st]
            BY <2>6 DEF Load, SpawnReady, LoadFails, Commit, Succeed, Fail, Leave, Step
        <3> QED
            BY <1>1, <3>1
    <2> QED
        BY <1>4, <2>1, <2>2, <2>3, <2>4, <2>5, <2>6 DEF EnsureStep
<1>5. ASSUME NEW o \in Requests, LookupMisses(o) \/ BeginLookup(o)
      PROVE  Scanning'
    BY <1>1, <1>5 DEF LookupMisses, BeginLookup, Fail, Leave, Step
<1>6. ASSUME NEW o \in Requests, BeginGrant(o)
      PROVE  Scanning'
    BY <1>1, <1>6 DEF BeginGrant, opVars
<1>7. ASSUME NEW o \in Requests, UnloadStopped(o)
      PROVE  Scanning'
    <2>1. /\ pc' = [pc EXCEPT ![o] = "remove"]
          /\ UNCHANGED <<victim, unseen, instances>> /\ UNCHANGED admVars
        BY <1>7 DEF UnloadStopped, Step, mapVars
    <2> QED
        BY <1>2, <2>1 DEF OpsOK
<1>8. ASSUME NEW o \in Requests, UnloadWaited(o) \/ UnloadRemove(o) \/ ModelStep(o)
      PROVE  Scanning'
    <2>1. Unlocked /\ \E st : st # "scan" /\ pc' = [pc EXCEPT ![o] = st]
        BY <1>8
           DEF UnloadWaited, UnloadRemove, ModelStep, ModelSetLoading, ModelFails,
               ModelCommit, Fail, Leave, Step
    <2> QED
        BY <1>1, <2>1
<1>9. ASSUME NEW o \in Requests,
             EndCtx(o) \/ BeginChecks(o) \/ Admit(o) \/ EndGeneration(o)
      PROVE  Scanning'
    <2>1. /\ Refuse(o) \/ PassChecks(o) \/ AdmStep(o) \/ ReceiveGen(o) \/ Cancel(o)
          /\ UNCHANGED <<pc, victim, unseen, instances>>
        BY <1>9 DEF EndCtx, BeginChecks, Admit, EndGeneration, mgrVars, opVars, mapVars
    <2> QED
        BY <1>2, <2>1
<1>10. ASSUME AtRest \/ UNCHANGED vars
       PROVE  Scanning'
    BY <1>10
       DEF AtRest, vars, mgrVars, opVars, mapVars, admVars, Scanning, Mapped, Served
<1> QED
    BY <1>3, <1>4, <1>5, <1>6, <1>7, <1>8, <1>9, <1>10
       DEF Next, Progress, InferStep, UnloadStep

\* The scan is made under the lock, in every configuration.
THEOREM ScanIsLocked == Spec => []Scanning
<1>1. Init => Scanning
    BY DEF Init, Scanning
<1>2. AdmInv /\ MgrInv /\ Scanning /\ [Next]_vars => Scanning'
    BY ScanKept, MgrInvParts
<1> QED
    BY <1>1, <1>2, ManagerInvariant, PTL DEF Spec

\* In process no eviction deletes the instance of a request that generates,
\* although the tokens are sent without the lock between the test of an
\* instance and its removal: the request that sends its tokens meanwhile must
\* still take the lock before beginGeneration returns.
THEOREM EvictionIsSafe ==
    ASSUME ~SpawnMode
    PROVE  Spec => EvictionSparesRunning
<1> DEFINE Spares ==
        \A o \in Requests, m \in Mapped :
            pc[o] \in {"scan", "stopVictim"} /\ pc'[o] # pc[o] /\ instances'[m] = NoInst
                => ~Served(instances[m])
<1>1. AdmInv /\ MgrInv /\ Unreached /\ Scanning /\ [Next]_vars => [Spares]_vars
    <2> SUFFICES ASSUME AdmInv, MgrInv, Unreached, Scanning, [Next]_vars,
                        NEW o \in Requests, NEW m \in Mapped,
                        pc[o] \in {"scan", "stopVictim"}, pc'[o] # pc[o],
                        instances'[m] = NoInst
                 PROVE  ~Served(instances[m])
        OBVIOUS
    <2>1. OpsOK /\ MapOK /\ m \in Models /\ instances[m] # NoInst
        BY MgrInvParts DEF FieldsOK, Mapped
    <2>2. pc[o] = "scan"
        BY DEF Unreached
    <2>3. EvictFails(o) \/ PickVictim(o)
        BY <2>1, <2>2, ScanEnds
    <2>4. PickVictim(o) /\ Evict(o, victim[o])
        BY <2>1, <2>3 DEF EvictFails, PickVictim, mapVars
    <2>5. instances' = [instances EXCEPT ![victim[o]] = NoInst] /\ victim[o] # NoModel
        BY <2>4 DEF PickVictim, Evict
    <2>6. m = victim[o]
        BY <2>1, <2>5 DEF MapOK
    <2> QED
        BY <2>2, <2>5, <2>6 DEF Scanning
<1> QED
    BY <1>1, ManagerUnreached, ScanIsLocked, PTL DEF Spec, EvictionSparesRunning

-----------------------------------------------------------------------------
(* Loading.                                                                *)

\* When no load is given up, an instance in state loading is being loaded.
LEMMA WarmupKept ==
    ASSUME LoadsSucceed, AdmTypeOK, OpsOK, FieldsOK, Unreached, WarmupOwned, [Next]_vars
    PROVE  WarmupOwned'
<1> DEFINE Owned(m) == \E p \in Requests : pc[p] \in {"spawn", "warm"} /\ inst[p] = instances[m]
           Loading(m) == m \in Mapped /\ instState[instances[m]] = "loading"
<1>1. \A m \in Models : Loading(m) => Owned(m)
    BY DEF WarmupOwned, Mapped
<1>2. WarmupOwned' <=> \A m \in Models : Loading(m)' => Owned(m)'
    BY DEF WarmupOwned, Mapped
<1>3. SUFFICES ASSUME NEW m \in Models, Loading(m)'
               PROVE  Owned(m)'
    BY <1>2
\* A step that neither starts a load nor ends one.
<1>4. ASSUME NEW o \in Requests,
             instances'[m] = instances[m],
             (instances[m] # NoInst /\ instState'[instances[m]] = "loading")
                 => instState[instances[m]] = "loading",
             pc[o] \notin {"spawn", "warm"},
             \A p \in Requests \ {o} : pc'[p] = pc[p] /\ inst'[p] = inst[p]
      PROVE  Owned(m)'
    <2>1. Loading(m)
        BY <1>3, <1>4 DEF Mapped
    <2>2. PICK p \in Requests : pc[p] \in {"spawn", "warm"} /\ inst[p] = instances[m]
        BY <2>1, <1>1
    <2>3. p # o
        BY <2>2, <1>4
    <2> QED
        BY <1>4, <2>2, <2>3
\* A step in which every load goes on.
<1>5. ASSUME UNCHANGED <<inst, instances, instState>>,
             \A p \in Requests : pc[p] \in {"spawn", "warm"} => pc'[p] \in {"spawn", "warm"}
      PROVE  Owned(m)'
    BY <1>1, <1>3, <1>5 DEF Mapped
<1> USE DEF OpsOK, FieldsOK, MapOK
<1>6. ASSUME NEW o \in Requests, Call(o)
      PROVE  Owned(m)'
    <2>1. pc[o] = "idle" /\ \A p \in Requests \ {o} : pc'[p] = pc[p] /\ inst'[p] = inst[p]
        BY <1>6 DEF Call, CallEnsure, CallUnload, CallEnsureModel, NewCall, Step
    <2>2. UNCHANGED instances
        BY <1>6 DEF Call, CallEnsure, CallUnload, CallEnsureModel, NewCall
    <2>3. (instances[m] # NoInst /\ instState'[instances[m]] = "loading")
              => instState[instances[m]] = "loading"
        BY <1>6 DEF Call, CallEnsure, CallUnload, CallEnsureModel
    <2> QED
        BY <1>4, <2>1, <2>2, <2>3
<1>7. ASSUME NEW o \in Requests, EnsureStep(o)
      PROVE  Owned(m)'
    <2>1. CASE CheckReady(o) \/ TouchReady(o) \/ EvictDone(o) \/ BeginScan(o)
               \/ Visit(o) \/ EvictFails(o)
        <3>1. /\ pc[o] \notin {"spawn", "warm"} /\ UNCHANGED <<instances, instState>>
              /\ \A p \in Requests \ {o} : pc'[p] = pc[p] /\ inst'[p] = inst[p]
            BY <2>1
               DEF CheckReady, TouchReady, EvictDone, BeginScan, Visit, ScanOver,
                   EvictFails, SlowPath, Succeed, Fail,
                   Leave, Step, mapVars
        <3> QED
            BY <3>1, <1>4
    <2>2. ASSUME NEW v, Evict(o, v), pc[o] \in {"scan", "stopVictim"}
          PROVE  Owned(m)'
        <3>1. /\ UNCHANGED <<inst, instState>> /\ instances' = [instances EXCEPT ![v] = NoInst]
              /\ \A p \in Requests \ {o} : pc'[p] = pc[p] /\ inst'[p] = inst[p]
            BY <2>2 DEF Evict, Step
        <3>2. instances'[m] = instances[m]
            BY <3>1, <1>3 DEF Mapped
        <3> QED
            BY <2>2, <3>1, <3>2, <1>4
    <2>3. CASE PickVictim(o)
        <3>1. CASE Evict(o, victim[o])
            BY <2>2, <2>3, <3>1 DEF PickVictim, ScanOver
        <3>2. CASE Step(o, "stopVictim") /\ UNCHANGED <<inst, mapVars>>
            BY <1>5, <2>3, <3>2 DEF PickVictim, ScanOver, Step, mapVars
        <3> QED
            BY <2>3, <3>1, <3>2 DEF PickVictim
    <2>4. CASE VictimStopped(o)
        BY <2>2, <2>4 DEF VictimStopped
    <2>5. CASE Load(o)
        <3>1. PICK i \in Instances :
                 /\ instances' = [instances EXCEPT ![model[o]] = i]
                 /\ instState' = [instState EXCEPT ![i] = "loading"]
                 /\ inst' = [inst EXCEPT ![o] = i]
            BY <2>5, LoadEffect
        <3>2. pc[o] = "load" /\ pc' = [pc EXCEPT ![o] = IF SpawnMode THEN "spawn" ELSE "warm"]
            BY <2>5 DEF Load, Step
        <3>3. pc'[o] \in {"spawn", "warm"} /\ inst'[o] = i
            BY <3>1, <3>2
        <3>4. CASE instances'[m] = i
            BY <3>3, <3>4
        <3>5. CASE instances'[m] # i
            <4>1. instances'[m] = instances[m] /\ instances[m] # i
                BY <3>1, <3>5
            <4>2. (instances[m] # NoInst /\ instState'[instances[m]] = "loading")
                      => instState[instances[m]] = "loading"
                BY <3>1, <4>1
            <4>3. \A p \in Requests \ {o} : pc'[p] = pc[p] /\ inst'[p] = inst[p]
                BY <3>1, <3>2
            <4> QED
                BY <1>4, <3>2, <4>1, <4>2, <4>3
        <3> QED
            BY <3>4, <3>5
    <2>6. CASE SpawnReady(o)
        BY <1>5, <2>6 DEF SpawnReady, Step, mapVars
    <2>7. CASE LoadFails(o)
        BY <2>7 DEF LoadFails, LoadsSucceed, Unreached
    <2>8. CASE Commit(o)
        <3>1. /\ instState' = [instState EXCEPT ![inst[o]] = "ready"] /\ UNCHANGED instances
              /\ \A p \in Requests \ {o} : pc'[p] = pc[p] /\ inst'[p] = inst[p]
            BY <2>8 DEF Commit, Succeed, Leave, Step
        <3>2. inst[o] \in Instances /\ instances[m] # inst[o] /\ Loading(m)
            BY <2>8, <3>1, <1>3 DEF Commit, Located, Mapped
        <3>3. PICK p \in Requests : pc[p] \in {"spawn", "warm"} /\ inst[p] = instances[m]
            BY <3>2, <1>1
        <3> QED
            BY <3>1, <3>2, <3>3
    <2> QED
        BY <1>7, <2>1, <2>3, <2>4, <2>5, <2>6, <2>7, <2>8 DEF EnsureStep
<1>8. ASSUME NEW o \in Requests, LookupMisses(o) \/ BeginLookup(o)
      PROVE  Owned(m)'
    BY <1>4, <1>8 DEF LookupMisses, BeginLookup, Fail, Leave, Step, mapVars
<1>9. ASSUME NEW o \in Requests,
             EndCtx(o) \/ BeginChecks(o) \/ Admit(o) \/ BeginGrant(o) \/ EndGeneration(o)
      PROVE  Owned(m)'
    BY <1>5, <1>9
       DEF EndCtx, BeginChecks, Admit, BeginGrant, EndGeneration, mgrVars, opVars, mapVars
<1>10. ASSUME NEW o \in Requests, UnloadStep(o)
       PROVE  Owned(m)'
    <2>1. /\ pc[o] \notin {"spawn", "warm"} /\ UNCHANGED instState
          /\ \A p \in Requests \ {o} : pc'[p] = pc[p] /\ inst'[p] = inst[p]
        BY <1>10 DEF UnloadStep, UnloadWaited, UnloadStopped, UnloadRemove, Leave, Step, mapVars
    <2>2. UNCHANGED instances \/ instances' = [instances EXCEPT ![model[o]] = NoInst]
        BY <1>10 DEF UnloadStep, UnloadWaited, UnloadStopped, UnloadRemove, mapVars
    <2>3. instances'[m] = instances[m]
        BY <2>2, <1>3 DEF Mapped
    <2> QED
        BY <1>4, <2>1, <2>3
<1>11. ASSUME NEW o \in Requests, ModelStep(o)
       PROVE  Owned(m)'
    BY <1>4, <1>11
       DEF ModelStep, ModelSetLoading, ModelFails, ModelCommit, Fail, Leave, Step, mapVars
<1>12. ASSUME AtRest \/ UNCHANGED vars
       PROVE  Owned(m)'
    BY <1>5, <1>12 DEF AtRest, vars, mgrVars, opVars, mapVars
<1> QED
    BY <1>6, <1>7, <1>8, <1>9, <1>10, <1>11, <1>12 DEF Next, Progress, InferStep

\* As long as no caller goes away and every process starts, nothing stays
\* behind in state loading: whoever put it there is still at work.
THEOREM LoadingIsOwned ==
    ASSUME LoadsSucceed
    PROVE  Spec => []WarmupOwned
<1>1. Init => WarmupOwned
    BY DEF Init, WarmupOwned, Mapped
<1>2. AdmInv /\ MgrInv /\ Unreached /\ WarmupOwned /\ [Next]_vars => WarmupOwned'
    BY WarmupKept, MgrInvParts
<1> QED
    BY <1>1, <1>2, ManagerUnreached, PTL DEF Spec

-----------------------------------------------------------------------------
(* What EnsureInstance established still holds at the lookup.              *)

\* Nothing takes away the instance that a call loads: the call is alone, or
\* there is no budget to evict for and nobody unloads.
Stable == Serial \/ (BudgetMB = 0 /\ "unload" \notin Kinds)

\* A step that keeps the keys it finds keeps them for every call: the one
\* that takes the step has loaded or found its instance, if it gets that far.
LEMMA LoadedKeepers ==
    ASSUME OpsOK, FieldsOK, LoadedIsMapped, NEW o \in Requests,
           \A m \in Mapped : instances'[m] = instances[m],
           instances' \in [Models -> Instances \cup {NoInst}],
           UNCHANGED model \/ pc[o] = "idle",
           \A p \in Requests \ {o} :
               pc'[p] = pc[p] /\ inst'[p] = inst[p] /\ model'[p] = model[p],
           pc'[o] \in {"spawn", "warm"} => instances'[model'[o]] = inst'[o],
           pc'[o] = "lookup" => model'[o] \in Mapped
    PROVE  LoadedIsMapped'
<1>1. \A m \in Mapped : m \in Models /\ instances'[m] # NoInst
    BY DEF Mapped
<1>2. \A m \in Mapped : m \in Mapped'
    BY <1>1 DEF Mapped
<1>3. ASSUME NEW p \in Requests \ {o}
      PROVE  /\ pc'[p] \in {"spawn", "warm"} => instances'[model'[p]] = inst'[p]
             /\ pc'[p] = "lookup" => model'[p] \in Mapped'
    <2>1. CASE pc[p] \in {"spawn", "warm"}
        <3>1. inst[p] \in Instances /\ model[p] \in Models /\ instances[model[p]] = inst[p]
            BY <2>1 DEF OpsOK, Located, Pcs, EnsurePcs, LoadedIsMapped
        <3>2. model[p] \in Mapped
            BY <3>1, NoInstAssumption DEF Mapped
        <3> QED
            BY <2>1, <3>1, <3>2
    <2>2. CASE pc[p] = "lookup"
        BY <2>2, <1>2 DEF LoadedIsMapped
    <2> QED
        BY <2>1, <2>2
<1> QED
    BY <1>2, <1>3 DEF LoadedIsMapped

\* Every step of a stable configuration keeps LoadedIsMapped.
LEMMA LoadedKept ==
    ASSUME Stable, AdmTypeOK, OpsOK, FieldsOK, Unreached, LoadedIsMapped, [Next]_vars
    PROVE  LoadedIsMapped'
<1>1. instances' \in [Models -> Instances \cup {NoInst}]
    BY MapKept DEF FieldsOK, MapOK
<1>2. ASSUME NEW o \in Requests, UNCHANGED instances,
             UNCHANGED model \/ pc[o] = "idle",
             \A p \in Requests \ {o} :
                 pc'[p] = pc[p] /\ inst'[p] = inst[p] /\ model'[p] = model[p],
             pc'[o] \in {"spawn", "warm"} => instances[model'[o]] = inst'[o],
             pc'[o] = "lookup" => model'[o] \in Mapped
      PROVE  LoadedIsMapped'
    BY <1>1, <1>2, LoadedKeepers
<1>3. ASSUME NEW o \in Requests, pc'[o] \notin {"spawn", "warm", "lookup"},
             pc[o] \in {"scan", "stopVictim", "remove"}
      PROVE  LoadedIsMapped'
    <2>1. \A p \in Requests : p = o
        BY <1>3 DEF Stable, Serial, Unreached
    <2> QED
        BY <1>3, <2>1 DEF LoadedIsMapped
<1>4. ASSUME UNCHANGED <<pc, inst, model, instances>>
      PROVE  LoadedIsMapped'
    BY <1>4 DEF LoadedIsMapped, Mapped
<1>5. ASSUME NEW o \in Requests, Call(o)
      PROVE  LoadedIsMapped'
    <2>1. /\ pc[o] = "idle" /\ pc'[o] \in {"ensure", "drain", "setLoading"}
          /\ UNCHANGED instances
          /\ \A p \in Requests \ {o} :
                 pc'[p] = pc[p] /\ inst'[p] = inst[p] /\ model'[p] = model[p]
        BY <1>5 DEF Call, CallEnsure, CallUnload, CallEnsureModel, NewCall, Step, OpsOK
    <2> QED
        BY <2>1, <1>2
<1>6. ASSUME NEW o \in Requests, EnsureStep(o)
      PROVE  LoadedIsMapped'
    <2>1. CASE CheckReady(o) \/ EvictDone(o) \/ BeginScan(o) \/ Visit(o)
               \/ EvictFails(o) \/ SpawnReady(o) \/ LoadFails(o)
        <3>1. /\ UNCHANGED <<instances, model>>
              /\ \A p \in Requests \ {o} :
                    pc'[p] = pc[p] /\ inst'[p] = inst[p] /\ model'[p] = model[p]
              /\ pc'[o] # "lookup" /\ (pc'[o] \in {"spawn", "warm"} => pc[o] = "spawn" /\ inst'[o] = inst[o])
            BY <2>1
               DEF CheckReady, EvictDone, BeginScan, Visit, ScanOver, EvictFails,
                   SpawnReady, LoadFails, SlowPath, Fail,
                   Leave, Step, OpsOK, mapVars
        <3>2. pc'[o] \in {"spawn", "warm"} => instances[model'[o]] = inst'[o]
            BY <3>1 DEF LoadedIsMapped
        <3> QED
            BY <3>1, <3>2, <1>2
    <2>2. CASE TouchReady(o)
        <3>1. /\ UNCHANGED <<instances, model>>
              /\ \A p \in Requests \ {o} :
                    pc'[p] = pc[p] /\ inst'[p] = inst[p] /\ model'[p] = model[p]
              /\ pc'[o] \notin {"spawn", "warm"} /\ (pc'[o] = "lookup" => model[o] \in Mapped)
            BY <2>2 DEF TouchReady, IsReady, SlowPath, Succeed, Leave, Step, OpsOK
        <3> QED
            BY <3>1, <1>2
    <2>3. CASE PickVictim(o) \/ VictimStopped(o)
        BY <2>3, <1>3 DEF PickVictim, ScanOver, VictimStopped, Evict, Step, OpsOK
    <2>4. CASE Load(o)
        <3>1. PICK i \in Instances :
                 /\ instances' = [instances EXCEPT ![model[o]] = i]
                 /\ inst' = [inst EXCEPT ![o] = i]
                 /\ model[o] \in Mapped => instances[model[o]] = i
            BY <2>4, LoadEffect
        <3>2. /\ UNCHANGED model /\ pc'[o] # "lookup"
              /\ \A p \in Requests \ {o} : pc'[p] = pc[p] /\ model'[p] = model[p]
            BY <2>4 DEF Load, Step, OpsOK
        <3>3. model[o] \in Models
            BY <2>4, LoadEffect
        <3>4. \A m \in Mapped : instances'[m] = instances[m]
            BY <3>1 DEF FieldsOK, MapOK, Mapped
        <3>5. instances'[model[o]] = i /\ inst'[o] = i
            BY <3>1, <3>3 DEF FieldsOK, MapOK, OpsOK
        <3>6. \A p \in Requests \ {o} : inst'[p] = inst[p]
            BY <3>1 DEF OpsOK
        <3> QED
            BY <1>1, <3>2, <3>4, <3>5, <3>6, LoadedKeepers
    <2>5. CASE Commit(o)
        <3>1. /\ UNCHANGED <<instances, model>> /\ pc[o] = "warm"
              /\ \A p \in Requests \ {o} :
                    pc'[p] = pc[p] /\ inst'[p] = inst[p] /\ model'[p] = model[p]
              /\ pc'[o] \notin {"spawn", "warm"}
            BY <2>5 DEF Commit, Succeed, Leave, Step, OpsOK
        <3>2. inst[o] \in Instances /\ model[o] \in Models /\ instances[model[o]] = inst[o]
            BY <3>1 DEF OpsOK, Located, Pcs, EnsurePcs, LoadedIsMapped
        <3>3. model[o] \in Mapped
            BY <3>2, NoInstAssumption DEF Mapped
        <3> QED
            BY <3>1, <3>3, <1>2
    <2> QED
        BY <1>6, <2>1, <2>2, <2>3, <2>4, <2>5 DEF EnsureStep
<1>7. ASSUME NEW o \in Requests, LookupMisses(o) \/ BeginLookup(o) \/ ModelStep(o)
      PROVE  LoadedIsMapped'
    <2>1. /\ UNCHANGED <<instances, model>> /\ pc'[o] \in {"idle", "warmModel"}
          /\ \A p \in Requests \ {o} :
                 pc'[p] = pc[p] /\ inst'[p] = inst[p] /\ model'[p] = model[p]
        BY <1>7
           DEF LookupMisses, BeginLookup, ModelStep, ModelSetLoading, ModelFails, ModelCommit,
               Fail, Leave, Step, OpsOK, mapVars
    <2> QED
        BY <2>1, <1>2
<1>8. ASSUME NEW o \in Requests,
             EndCtx(o) \/ BeginChecks(o) \/ Admit(o) \/ BeginGrant(o) \/ EndGeneration(o)
      PROVE  LoadedIsMapped'
    BY <1>4, <1>8
       DEF EndCtx, BeginChecks, Admit, BeginGrant, EndGeneration, mgrVars, opVars, mapVars
<1>9. ASSUME NEW o \in Requests, UnloadStep(o)
      PROVE  LoadedIsMapped'
    <2>1. CASE UnloadWaited(o) \/ UnloadStopped(o)
        <3>1. /\ UNCHANGED <<instances, model>> /\ pc'[o] \in {"stopUnload", "remove"}
              /\ \A p \in Requests \ {o} :
                     pc'[p] = pc[p] /\ inst'[p] = inst[p] /\ model'[p] = model[p]
            BY <2>1 DEF UnloadWaited, UnloadStopped, Step, OpsOK, mapVars
        <3> QED
            BY <3>1, <1>2
    <2>2. CASE UnloadRemove(o)
        BY <2>2, <1>3 DEF UnloadRemove, Leave, Step, OpsOK
    <2> QED
        BY <1>9, <2>1, <2>2 DEF UnloadStep
<1>10. ASSUME AtRest \/ UNCHANGED vars
       PROVE  LoadedIsMapped'
    BY <1>4, <1>10 DEF AtRest, vars, mgrVars, opVars, mapVars
<1> QED
    BY <1>5, <1>6, <1>7, <1>8, <1>9, <1>10 DEF Next, Progress, InferStep

\* A stable configuration keeps what a load and a lookup rely on.
THEOREM LoadedStaysMapped ==
    ASSUME Stable
    PROVE  Spec => []LoadedIsMapped
<1>1. Init => LoadedIsMapped
    BY DEF Init, LoadedIsMapped
<1>2. AdmInv /\ MgrInv /\ Unreached /\ LoadedIsMapped /\ [Next]_vars => LoadedIsMapped'
    BY LoadedKept, MgrInvParts
<1> QED
    BY <1>1, <1>2, ManagerUnreached, PTL DEF Spec

-----------------------------------------------------------------------------
(* The estimate of used memory.                                            *)

\* The sums are natural numbers.
LEMMA SumsAreNat ==
    ASSUME Tally, OpsOK
    PROVE  MappedMB \in Nat /\ PendingMB \in Nat
<1>1. \A m \in Mapped : Est[m] \in Nat
    BY EstAssumption DEF Mapped
<1>2. MappedMB \in Nat
    BY <1>1, SumType DEF MappedMB, Tally
<1> DEFINE f == [o \in Pending |-> Est[model[o]]]
<1>3. \A o \in Pending : f[o] \in Nat
    BY EstAssumption DEF Pending, Tally, OpsOK, Located, Pcs, EnsurePcs
<1> HIDE DEF f
<1>4. SumFunctionOnSet(f, Pending) \in Nat
    BY <1>3, SumType DEF Tally
<1> QED
    BY <1>2, <1>4 DEF PendingMB, f

\* m.instances keeps its keys.
LEMMA MapStays ==
    ASSUME Mapped' = Mapped
    PROVE  MappedMB' = MappedMB
    BY DEF MappedMB

\* A key joins m.instances.
LEMMA MapGrows ==
    ASSUME IsFiniteSet(Mapped), NEW m \in Models, m \notin Mapped, Mapped' = Mapped \cup {m}
    PROVE  IsFiniteSet(Mapped') /\ MappedMB' = Est[m] + MappedMB
<1>1. \A n \in Mapped \cup {m} : Est[n] \in Int
    BY EstAssumption DEF Mapped
<1> QED
    BY <1>1, SumJoin DEF MappedMB

\* A key leaves m.instances.
LEMMA MapShrinks ==
    ASSUME IsFiniteSet(Mapped), NEW m \in Mapped, Mapped' = Mapped \ {m}
    PROVE  IsFiniteSet(Mapped') /\ MappedMB = Est[m] + MappedMB'
<1>1. \A n \in Mapped : Est[n] \in Int
    BY EstAssumption DEF Mapped
<1>2. IsFiniteSet(Mapped \ {m})
    BY FS_RemoveElement
<1>3. SumFunctionOnSet(Est, Mapped) = Est[m] + SumFunctionOnSet(Est, Mapped \ {m})
    BY <1>1, SumSplit
<1> QED
    BY <1>2, <1>3 DEF MappedMB

\* What a call has pending depends on its own variables only.
LEMMA PendingStays ==
    ASSUME IsFiniteSet(Pending), Pending' = Pending,
           \A o \in Pending : model'[o] = model[o]
    PROVE  PendingMB' = PendingMB
<1> DEFINE f == [o \in Pending |-> Est[model[o]]]
           g == [o \in Pending |-> Est[model'[o]]]
<1>1. \A o \in Pending : g[o] = f[o]
    OBVIOUS
<1>2. PendingMB' = SumFunctionOnSet(g, Pending) /\ PendingMB = SumFunctionOnSet(f, Pending)
    BY DEF PendingMB
<1> HIDE DEF f, g
<1> QED
    BY <1>1, <1>2, SumCongruence

\* A call has made an instance that it will count.
LEMMA PendingGrows ==
    ASSUME Tally, OpsOK, NEW o \in Requests, o \notin Pending, Pending' = Pending \cup {o},
           UNCHANGED model, model[o] \in Models
    PROVE  IsFiniteSet(Pending') /\ PendingMB' = Est[model[o]] + PendingMB
<1> DEFINE f == [p \in Pending |-> Est[model[p]]]
           g == [p \in Pending \cup {o} |-> Est[model[p]]]
<1>1. \A p \in Pending : g[p] = f[p]
    OBVIOUS
<1>2. \A p \in Pending \cup {o} : g[p] \in Int
    BY EstAssumption DEF Pending, Tally, OpsOK, Located, Pcs, EnsurePcs
<1>3. g[o] = Est[model[o]] /\ IsFiniteSet(Pending)
    BY DEF Tally
<1>4. PendingMB' = SumFunctionOnSet(g, Pending \cup {o})
      /\ PendingMB = SumFunctionOnSet(f, Pending)
    BY DEF PendingMB
<1> HIDE DEF f, g
<1>5. SumFunctionOnSet(f, Pending) = SumFunctionOnSet(g, Pending)
    BY <1>1, <1>3, SumCongruence
<1>6. /\ IsFiniteSet(Pending \cup {o})
      /\ SumFunctionOnSet(g, Pending \cup {o}) = g[o] + SumFunctionOnSet(g, Pending)
    BY <1>2, <1>3, SumJoin
<1> QED
    BY <1>3, <1>4, <1>5, <1>6

\* A call counts its instance, or has none any more.
LEMMA PendingShrinks ==
    ASSUME Tally, OpsOK, NEW o \in Pending, Pending' = Pending \ {o}, UNCHANGED model
    PROVE  IsFiniteSet(Pending') /\ PendingMB = Est[model[o]] + PendingMB'
<1> DEFINE f == [p \in Pending |-> Est[model[p]]]
           g == [p \in Pending \ {o} |-> Est[model[p]]]
<1>1. \A p \in Pending \ {o} : g[p] = f[p]
    OBVIOUS
<1>2. \A p \in Pending : f[p] \in Int
    BY EstAssumption DEF Pending, Tally, OpsOK, Located, Pcs, EnsurePcs
<1>3. f[o] = Est[model[o]] /\ IsFiniteSet(Pending)
    BY DEF Tally
<1>4. PendingMB' = SumFunctionOnSet(g, Pending \ {o})
      /\ PendingMB = SumFunctionOnSet(f, Pending)
    BY DEF PendingMB
<1> HIDE DEF f, g
<1>5. IsFiniteSet(Pending \ {o})
    BY <1>3, FS_RemoveElement
<1>6. SumFunctionOnSet(f, Pending \ {o}) = SumFunctionOnSet(g, Pending \ {o})
    BY <1>1, <1>5, SumCongruence
<1>7. SumFunctionOnSet(f, Pending) = f[o] + SumFunctionOnSet(f, Pending \ {o})
    BY <1>2, <1>3, SumSplit
<1> QED
    BY <1>3, <1>4, <1>5, <1>6, <1>7

\* The configurations in which the books can be kept: no load is given up
\* after the instance was made, and nobody removes an instance on the
\* strength of what it saw before it let go of the lock.
Accountable == LoadsSucceed /\ (Serial \/ (~SpawnMode /\ "unload" \notin Kinds))

\* A victim stays in the map while its process is stopped: there is no
\* process, or nobody else to remove it.
LEMMA VictimKept ==
    ASSUME Serial \/ ~SpawnMode, OpsOK, FieldsOK, Unreached, Unreached', Scanning,
           VictimMapped, [Next]_vars
    PROVE  VictimMapped'
<1>1. CASE ~SpawnMode
    BY <1>1 DEF Unreached, VictimMapped
<1>2. CASE Serial
    <2>1. ASSUME NEW o \in Requests, pc'[o] # "stopVictim"
          PROVE  VictimMapped'
        BY <1>2, <2>1 DEF Serial, VictimMapped
    <2>2. ASSUME UNCHANGED <<pc, victim, instances>>
          PROVE  VictimMapped'
        BY <2>2 DEF VictimMapped, Mapped
    <2>3. ASSUME NEW o \in Requests, Call(o)
          PROVE  VictimMapped'
        BY <2>1, <2>3 DEF Call, CallEnsure, CallUnload, CallEnsureModel, NewCall, Step, OpsOK
    <2>4. ASSUME NEW o \in Requests, EnsureStep(o)
          PROVE  VictimMapped'
        <3>1. CASE PickVictim(o)
            <4>1. CASE Evict(o, victim[o])
                BY <2>1, <4>1 DEF Evict, Step, OpsOK
            <4>2. CASE Step(o, "stopVictim") /\ UNCHANGED <<victim, mapVars>>
                <5>1. victim[o] \in Mapped
                    BY <3>1 DEF PickVictim, ScanOver, Scanning
                <5>2. victim'[o] \in Mapped'
                    BY <4>2, <5>1 DEF Mapped, mapVars
                <5> QED
                    BY <1>2, <5>2 DEF Serial, VictimMapped
            <4> QED
                BY <3>1, <4>1, <4>2 DEF PickVictim
        <3>2. CASE CheckReady(o) \/ TouchReady(o) \/ EvictDone(o) \/ BeginScan(o)
                   \/ Visit(o) \/ EvictFails(o)
                   \/ VictimStopped(o)
            BY <2>1, <3>2
               DEF CheckReady, TouchReady, EvictDone, BeginScan, Visit, ScanOver,
                   EvictFails, VictimStopped, Evict,
                   SlowPath, Succeed, Fail, Leave, Step, OpsOK
        <3>3. CASE Load(o) \/ SpawnReady(o) \/ LoadFails(o) \/ Commit(o)
            BY <2>1, <3>3
               DEF Load, SpawnReady, LoadFails, Commit, Succeed, Fail, Leave, Step, OpsOK
        <3> QED
            BY <2>4, <3>1, <3>2, <3>3 DEF EnsureStep
    <2>5. ASSUME NEW o \in Requests,
                 LookupMisses(o) \/ BeginLookup(o) \/ UnloadStep(o) \/ ModelStep(o)
          PROVE  VictimMapped'
        BY <2>1, <2>5
           DEF LookupMisses, BeginLookup, UnloadStep, UnloadWaited, UnloadStopped,
               UnloadRemove, ModelStep, ModelSetLoading, ModelFails, ModelCommit, Fail,
               Leave, Step, OpsOK
    <2>6. ASSUME NEW o \in Requests,
                 EndCtx(o) \/ BeginChecks(o) \/ Admit(o) \/ BeginGrant(o) \/ EndGeneration(o)
          PROVE  VictimMapped'
        BY <2>2, <2>6
           DEF EndCtx, BeginChecks, Admit, BeginGrant, EndGeneration, mgrVars, opVars, mapVars
    <2>7. ASSUME AtRest \/ UNCHANGED vars
          PROVE  VictimMapped'
        BY <2>2, <2>7 DEF AtRest, vars, mgrVars, opVars, mapVars
    <2> QED
        BY <2>3, <2>4, <2>5, <2>6, <2>7 DEF Next, Progress, InferStep
<1> QED
    BY <1>1, <1>2

\* Load makes an instance that its call has yet to count, or finds one.
LEMMA LoadKeepsBooks ==
    ASSUME OpsOK, FieldsOK, Tally, Conservation, NEW o \in Requests, Load(o)
    PROVE  Tally' /\ Conservation'
<1> DEFINE m == model[o]
<1>1. /\ m \in Models /\ Mapped' = Mapped \cup {m}
      /\ \/ m \notin Mapped /\ added' = [added EXCEPT ![o] = TRUE]
         \/ m \in Mapped /\ UNCHANGED added
    BY LoadEffect
<1>2. /\ UNCHANGED <<model, usedEstMB>> /\ pc[o] = "load"
      /\ pc'[o] \in {"spawn", "warm"} /\ \A p \in Requests \ {o} : pc'[p] = pc[p]
    BY DEF Load, Step, OpsOK
<1>3. o \notin Pending /\ ~added[o] /\ IsFiniteSet(Mapped) /\ IsFiniteSet(Pending)
    BY <1>2 DEF Tally, Pending
<1>4. MappedMB \in Nat /\ PendingMB \in Nat /\ usedEstMB \in Int /\ Est[m] \in Nat
    BY <1>1, SumsAreNat, EstAssumption DEF FieldsOK
<1>5. \A p \in Requests : added'[p] => pc'[p] \in {"spawn", "warm"}
    BY <1>1, <1>2 DEF Tally, OpsOK
<1>6. CASE m \notin Mapped
    <2>1. Pending' = Pending \cup {o}
        BY <1>1, <1>6 DEF Pending, OpsOK
    <2>2. IsFiniteSet(Mapped') /\ MappedMB' = Est[m] + MappedMB
        BY <1>1, <1>3, <1>6, MapGrows
    <2>3. IsFiniteSet(Pending') /\ PendingMB' = Est[m] + PendingMB
        BY <1>1, <1>2, <1>3, <2>1, PendingGrows
    <2>4. usedEstMB' + PendingMB' = MappedMB'
        BY <1>2, <1>4, <2>2, <2>3 DEF Conservation
    <2> QED
        BY <1>5, <2>2, <2>3, <2>4 DEF Tally, Conservation
<1>7. CASE m \in Mapped
    <2>1. Pending' = Pending /\ Mapped' = Mapped
        BY <1>1, <1>7 DEF Pending
    <2>2. MappedMB' = MappedMB /\ PendingMB' = PendingMB
        BY <1>2, <1>3, <2>1, MapStays, PendingStays
    <2> QED
        BY <1>2, <1>3, <1>5, <2>1, <2>2 DEF Tally, Conservation
<1> QED
    BY <1>6, <1>7

\* Commit counts the instance if its call made it.
LEMMA CommitKeepsBooks ==
    ASSUME OpsOK, FieldsOK, Tally, Conservation, NEW o \in Requests, Commit(o)
    PROVE  Tally' /\ Conservation'
<1> DEFINE m == model[o]
<1>1. /\ m \in Models /\ UNCHANGED <<model, instances>>
      /\ added' = [added EXCEPT ![o] = FALSE]
      /\ \A p \in Requests \ {o} : pc'[p] = pc[p]
    BY DEF Commit, Succeed, Leave, Step, OpsOK, Located, Pcs, EnsurePcs
<1>2. IsFiniteSet(Mapped) /\ IsFiniteSet(Pending)
    BY DEF Tally
<1>3. MappedMB \in Nat /\ PendingMB \in Nat /\ usedEstMB \in Int /\ Est[m] \in Nat
    BY <1>1, SumsAreNat, EstAssumption DEF FieldsOK
<1>4. \A p \in Requests : added'[p] => pc'[p] \in {"spawn", "warm"}
    BY <1>1 DEF Tally, OpsOK
<1>5. Mapped' = Mapped /\ MappedMB' = MappedMB
    BY <1>1, MapStays DEF Mapped
<1>6. CASE added[o]
    <2>1. usedEstMB' = usedEstMB + Est[m]
        BY <1>6 DEF Commit
    <2>2. o \in Pending /\ Pending' = Pending \ {o}
        BY <1>1, <1>6 DEF Pending, OpsOK
    <2>3. IsFiniteSet(Pending') /\ PendingMB = Est[m] + PendingMB'
        BY <1>1, <2>2, PendingShrinks
    <2>4. PendingMB' \in Nat
        <3>1. \A p \in Pending' : [q \in Pending' |-> Est[model'[q]]][p] \in Nat
            BY <1>1, <2>2, EstAssumption DEF Pending, Tally, OpsOK, Located, Pcs, EnsurePcs
        <3> QED
            BY <2>3, <3>1, SumType DEF PendingMB
    <2>5. usedEstMB' + PendingMB' = MappedMB'
        BY <1>3, <1>5, <2>1, <2>3, <2>4 DEF Conservation
    <2> QED
        BY <1>2, <1>4, <1>5, <2>3, <2>5 DEF Tally, Conservation
<1>7. CASE ~added[o]
    <2>1. usedEstMB' = usedEstMB
        BY <1>7 DEF Commit
    <2>2. Pending' = Pending
        BY <1>1, <1>7 DEF Pending, OpsOK
    <2>3. PendingMB' = PendingMB
        BY <1>1, <1>2, <2>2, PendingStays
    <2> QED
        BY <1>2, <1>4, <1>5, <2>1, <2>2, <2>3 DEF Tally, Conservation
<1> QED
    BY <1>6, <1>7

\* A key that leaves the map is discounted by its estimate.
LEMMA RemovalKeepsBooks ==
    ASSUME OpsOK, FieldsOK, Tally, Conservation, NEW m \in Mapped,
           instances' = [instances EXCEPT ![m] = NoInst],
           usedEstMB' = usedEstMB - Est[m],
           Pending' = Pending, \A p \in Pending : model'[p] = model[p],
           \A p \in Requests : added'[p] => pc'[p] \in {"spawn", "warm"}
    PROVE  Tally' /\ Conservation'
<1>1. m \in Models /\ MapOK /\ Est[m] \in Nat /\ usedEstMB \in Int
    BY EstAssumption DEF Mapped, FieldsOK
<1>2. Mapped' = Mapped \ {m}
    BY <1>1, KeyDeleted
<1>3. IsFiniteSet(Mapped) /\ IsFiniteSet(Pending)
    BY DEF Tally
<1>4. IsFiniteSet(Mapped') /\ MappedMB = Est[m] + MappedMB'
    BY <1>2, <1>3, MapShrinks
<1>5. MappedMB \in Nat /\ PendingMB \in Nat
    BY SumsAreNat
<1>6. PendingMB' = PendingMB
    BY <1>3, PendingStays
<1>7. MappedMB' \in Nat
    <2>1. \A n \in Mapped' : Est[n] \in Nat
        BY <1>2, EstAssumption DEF Mapped
    <2> QED
        BY <1>4, <2>1, SumType DEF MappedMB
<1>8. usedEstMB' + PendingMB' = MappedMB'
    BY <1>1, <1>4, <1>5, <1>6, <1>7 DEF Conservation
<1> QED
    BY <1>3, <1>4, <1>8 DEF Tally, Conservation

\* Every step of an accountable configuration keeps the books.
LEMMA BooksKept ==
    ASSUME Accountable, OpsOK, FieldsOK, Unreached, Scanning, Tally, VictimMapped,
           Conservation, [Next]_vars
    PROVE  Tally' /\ Conservation'
<1> DEFINE Good == Tally' /\ Conservation'
<1> USE DEF OpsOK
\* A step that leaves the map and what is pending alone.
<1>1. ASSUME NEW o \in Requests, UNCHANGED <<instances, usedEstMB>>,
             \A p \in Requests \ {o} : pc'[p] = pc[p] /\ model'[p] = model[p],
             \A p \in Requests : added'[p] = added[p],
             ~added[o] \/ (UNCHANGED model /\ pc'[o] \in {"spawn", "warm"})
      PROVE  Good
    <2>1. Mapped' = Mapped /\ Pending' = Pending
        BY <1>1 DEF Mapped, Pending
    <2>2. \A p \in Pending : model'[p] = model[p]
        BY <1>1 DEF Pending
    <2>3. IsFiniteSet(Mapped) /\ IsFiniteSet(Pending)
        BY DEF Tally
    <2>4. MappedMB' = MappedMB /\ PendingMB' = PendingMB
        BY <2>1, <2>2, <2>3, MapStays, PendingStays
    <2>5. \A p \in Requests : added'[p] => pc'[p] \in {"spawn", "warm"}
        BY <1>1 DEF Tally
    <2> QED
        BY <1>1, <2>1, <2>3, <2>4, <2>5 DEF Tally, Conservation
<1>2. \A o \in Requests : pc[o] \notin {"spawn", "warm"} => added[o] = FALSE
    BY DEF Tally
<1>3. ASSUME UNCHANGED <<opVars, instances, usedEstMB>>
      PROVE  Good
    <2>1. UNCHANGED <<pc, model, added, instances, usedEstMB>>
        BY <1>3 DEF opVars
    <2>2. Mapped' = Mapped /\ Pending' = Pending
        BY <2>1 DEF Mapped, Pending
    <2>3. IsFiniteSet(Mapped) /\ IsFiniteSet(Pending)
        BY DEF Tally
    <2>4. MappedMB' = MappedMB /\ PendingMB' = PendingMB
        BY <2>1, <2>2, <2>3, MapStays, PendingStays
    <2> QED
        BY <2>1, <2>2, <2>3, <2>4 DEF Tally, Conservation
<1>4. ASSUME NEW o \in Requests, Call(o)
      PROVE  Good
    <2>1. /\ UNCHANGED <<added, instances, usedEstMB>> /\ pc[o] = "idle"
          /\ \A p \in Requests \ {o} : pc'[p] = pc[p] /\ model'[p] = model[p]
        BY <1>4 DEF Call, CallEnsure, CallUnload, CallEnsureModel, NewCall, Step
    <2> QED
        BY <1>1, <1>2, <2>1
<1>5. ASSUME NEW o \in Requests, NEW v \in Mapped, Evict(o, v),
             pc[o] \in {"scan", "stopVictim"}
      PROVE  Good
    <2>1. /\ instances' = [instances EXCEPT ![v] = NoInst]
          /\ usedEstMB' = usedEstMB - Est[v]
          /\ UNCHANGED <<added, model>>
          /\ \A p \in Requests \ {o} : pc'[p] = pc[p]
        BY <1>5 DEF Evict, Step
    <2>2. Pending' = Pending
        BY <2>1 DEF Pending
    <2>3. \A p \in Requests : added'[p] => pc'[p] \in {"spawn", "warm"}
        BY <1>2, <1>5, <2>1 DEF Tally
    <2> QED
        BY <2>1, <2>2, <2>3, RemovalKeepsBooks
<1>6. ASSUME NEW o \in Requests, EnsureStep(o)
      PROVE  Good
    <2>1. CASE CheckReady(o) \/ TouchReady(o) \/ EvictDone(o) \/ BeginScan(o)
               \/ Visit(o) \/ EvictFails(o)
        <3>1. pc[o] \notin {"spawn", "warm"}
            BY <2>1 DEF CheckReady, TouchReady, EvictDone, BeginScan, Visit, ScanOver,
                        EvictFails
        <3>2. ~added[o]
            BY <3>1, <1>2
        <3>3. /\ UNCHANGED <<instances, usedEstMB, model>>
              /\ \A p \in Requests \ {o} : pc'[p] = pc[p]
              /\ UNCHANGED added \/ added' = [added EXCEPT ![o] = FALSE]
            BY <2>1
               DEF CheckReady, TouchReady, EvictDone, BeginScan, Visit, ScanOver,
                   EvictFails, SlowPath, Succeed, Fail,
                   Leave, Step, mapVars
        <3>4. \A p \in Requests : added'[p] = added[p]
            BY <1>2, <3>1, <3>3
        <3> QED
            BY <1>1, <3>2, <3>3, <3>4
    <2>2. CASE PickVictim(o)
        <3>1. victim[o] \in Mapped /\ pc[o] = "scan"
            BY <2>2 DEF PickVictim, ScanOver, Scanning
        <3>2. CASE Evict(o, victim[o])
            BY <1>5, <3>1, <3>2
        <3>3. CASE Step(o, "stopVictim") /\ UNCHANGED <<model, added, mapVars>>
            <4>1. /\ UNCHANGED <<added, instances, usedEstMB, model>>
                  /\ \A p \in Requests \ {o} : pc'[p] = pc[p]
                BY <3>3 DEF Step, mapVars
            <4> QED
                BY <1>1, <1>2, <3>1, <4>1
        <3> QED
            BY <2>2, <3>2, <3>3 DEF PickVictim
    <2>3. CASE VictimStopped(o)
        BY <1>5, <2>3 DEF VictimStopped, VictimMapped
    <2>4. CASE Load(o)
        BY <2>4, LoadKeepsBooks
    <2>5. CASE SpawnReady(o)
        <3>1. /\ UNCHANGED <<added, instances, usedEstMB, model>>
              /\ \A p \in Requests \ {o} : pc'[p] = pc[p]
              /\ pc'[o] \in {"spawn", "warm"}
            BY <2>5 DEF SpawnReady, Step, mapVars
        <3> QED
            BY <1>1, <3>1
    <2>6. CASE LoadFails(o)
        BY <2>6 DEF LoadFails, Accountable, LoadsSucceed, Unreached
    <2>7. CASE Commit(o)
        BY <2>7, CommitKeepsBooks
    <2> QED
        BY <1>6, <2>1, <2>2, <2>3, <2>4, <2>5, <2>6, <2>7 DEF EnsureStep
<1>7. ASSUME NEW o \in Requests,
             \/ LookupMisses(o) \/ BeginLookup(o) \/ ModelStep(o)
             \/ UnloadWaited(o) \/ UnloadStopped(o)
      PROVE  Good
    <2>1. pc[o] \notin {"spawn", "warm"}
        BY <1>7
           DEF LookupMisses, BeginLookup, ModelStep, ModelSetLoading, ModelFails, ModelCommit,
               UnloadWaited, UnloadStopped
    <2>2. /\ UNCHANGED <<instances, usedEstMB, model>>
          /\ \A p \in Requests \ {o} : pc'[p] = pc[p]
          /\ UNCHANGED added \/ added' = [added EXCEPT ![o] = FALSE]
        BY <1>7
           DEF LookupMisses, BeginLookup, ModelStep, ModelSetLoading, ModelFails, ModelCommit,
               UnloadWaited, UnloadStopped, Fail, Leave, Step, mapVars
    <2>3. \A p \in Requests : added'[p] = added[p]
        BY <1>2, <2>1, <2>2
    <2> QED
        BY <1>1, <1>2, <2>1, <2>2, <2>3
<1>8. ASSUME NEW o \in Requests, UnloadRemove(o)
      PROVE  Good
    <2> DEFINE m == model[o]
    <2>1. m \in Models /\ pc[o] = "remove" /\ MapOK
        BY <1>8 DEF UnloadRemove, Located, Pcs, FieldsOK
    <2>2. Serial
        BY <2>1 DEF Accountable, Unreached
    <2>3. Pending = {}
        BY <1>2, <2>1, <2>2 DEF Serial, Pending
    <2>4. PendingMB = 0
        BY <2>3, SumEmpty DEF PendingMB
    <2>5. /\ UNCHANGED model /\ instances' = [instances EXCEPT ![m] = NoInst]
          /\ added' = [added EXCEPT ![o] = FALSE]
        BY <1>8 DEF UnloadRemove, Leave
    <2>6. \A p \in Requests : ~added'[p]
        BY <2>2, <2>5 DEF Serial
    <2>7. Pending' = {}
        BY <2>6 DEF Pending
    <2>8. CASE m \in Mapped
        <3>1. \A n \in Mapped : Est[n] \in Nat
            BY EstAssumption DEF Mapped
        <3>2. IsFiniteSet(Mapped) /\ IsFiniteSet(Mapped \ {m})
            BY FS_RemoveElement DEF Tally
        <3>3. MappedMB = Est[m] + SumFunctionOnSet(Est, Mapped \ {m})
            BY <2>8, <3>1, <3>2, SumSplit DEF MappedMB
        <3>4. SumFunctionOnSet(Est, Mapped \ {m}) \in Nat
            BY <3>1, <3>2, SumType
        <3>5. usedEstMB \in Int /\ Est[m] \in Nat
            BY <2>8, <3>1 DEF FieldsOK
        <3>6. ~(usedEstMB < Est[m])
            BY <2>4, <3>3, <3>4, <3>5 DEF Conservation
        <3>7. usedEstMB' = usedEstMB - Est[m]
            BY <1>8, <2>8, <3>6 DEF UnloadRemove
        <3> QED
            BY <2>3, <2>5, <2>6, <2>7, <2>8, <3>7, RemovalKeepsBooks
    <2>9. CASE m \notin Mapped
        <3>1. UNCHANGED usedEstMB
            BY <1>8, <2>9 DEF UnloadRemove
        <3>2. Mapped' = Mapped
            <4>1. Mapped' = Mapped \ {m}
                BY <2>1, <2>5, KeyDeleted
            <4> QED
                BY <2>9, <4>1
        <3>3. MappedMB' = MappedMB /\ PendingMB' = PendingMB
            BY <2>3, <2>5, <2>7, <3>2, MapStays, PendingStays DEF Tally
        <3> QED
            BY <2>3, <2>6, <2>7, <3>1, <3>2, <3>3 DEF Tally, Conservation
    <2> QED
        BY <2>8, <2>9
<1>9. ASSUME NEW o \in Requests,
             EndCtx(o) \/ BeginChecks(o) \/ Admit(o) \/ BeginGrant(o) \/ EndGeneration(o)
      PROVE  Good
    BY <1>3, <1>9
       DEF EndCtx, BeginChecks, Admit, BeginGrant, EndGeneration, mgrVars, mapVars
<1>10. ASSUME AtRest \/ UNCHANGED vars
       PROVE  Good
    BY <1>3, <1>10 DEF AtRest, vars, mgrVars, mapVars
<1> QED
    BY <1>4, <1>6, <1>7, <1>8, <1>9, <1>10 DEF Next, Progress, InferStep, UnloadStep

\* The inductive invariant of the accounts.
Books == AdmInv /\ MgrInv /\ Unreached /\ Scanning /\ Tally /\ VictimMapped /\ Conservation

\* In an accountable configuration it holds.
LEMMA BooksHold ==
    ASSUME Accountable
    PROVE  Spec => []Books
<1>1. Init => Tally /\ VictimMapped /\ Conservation
    <2> SUFFICES ASSUME Init PROVE Tally /\ VictimMapped /\ Conservation
        OBVIOUS
    <2>1. Mapped = {} /\ Pending = {} /\ usedEstMB = 0
        BY DEF Init, Mapped, Pending
    <2>2. MappedMB = 0 /\ PendingMB = 0
        BY <2>1, SumEmpty DEF MappedMB, PendingMB
    <2> QED
        BY <2>1, <2>2, FS_EmptySet DEF Init, Tally, VictimMapped, Conservation
<1>2. /\ AdmInv /\ MgrInv /\ Unreached /\ Unreached' /\ Scanning
      /\ Tally /\ VictimMapped /\ Conservation /\ [Next]_vars
      => Tally' /\ VictimMapped' /\ Conservation'
    BY VictimKept, BooksKept, MgrInvParts DEF Accountable
<1> QED
    BY <1>1, <1>2, ManagerUnreached, ScanIsLocked, PTL DEF Spec, Books

\* usedEstMB, and what the loads under way will still add to it, is the sum
\* of the estimates of the instances that exist, for any number of models
\* and calls.
THEOREM BooksBalance ==
    ASSUME Accountable
    PROVE  Spec => []Conservation
<1>1. Books => Conservation
    BY DEF Books
<1> QED
    BY <1>1, BooksHold, PTL

-----------------------------------------------------------------------------
(* The budget.                                                             *)

\* Only Load lets the map grow.
LEMMA MapChanges ==
    ASSUME OpsOK, FieldsOK, [Next]_vars
    PROVE  \/ Mapped' = Mapped
           \/ \E m \in Models : Mapped' = Mapped \ {m}
           \/ \E o \in Requests : Load(o)
<1> DEFINE Good == \/ Mapped' = Mapped
                   \/ \E m \in Models : Mapped' = Mapped \ {m}
                   \/ \E o \in Requests : Load(o)
<1>1. MapOK
    BY DEF FieldsOK
<1>2. ASSUME UNCHANGED instances
      PROVE  Good
    BY <1>2 DEF Mapped
<1>3. ASSUME NEW m \in Models, instances' = [instances EXCEPT ![m] = NoInst]
      PROVE  Good
    BY <1>1, <1>3, KeyDeleted
<1>4. ASSUME NEW o \in Requests, EnsureStep(o)
      PROVE  Good
    <2>1. CASE CheckReady(o) \/ TouchReady(o) \/ EvictDone(o) \/ BeginScan(o)
               \/ Visit(o) \/ EvictFails(o)
               \/ SpawnReady(o) \/ LoadFails(o) \/ Commit(o)
        BY <2>1, <1>2
           DEF CheckReady, TouchReady, EvictDone, BeginScan, Visit, ScanOver, EvictFails,
               SpawnReady, LoadFails, Commit,
               mapVars
    <2>2. CASE PickVictim(o)
        BY <2>2, <1>2, <1>3 DEF PickVictim, ScanOver, Evict, OpsOK, mapVars
    <2>3. CASE VictimStopped(o)
        BY <2>3, <1>3 DEF VictimStopped, Evict, OpsOK, Located
    <2> QED
        BY <1>4, <2>1, <2>2, <2>3 DEF EnsureStep
<1>5. ASSUME NEW o \in Requests, UnloadStep(o) \/ ModelStep(o)
      PROVE  Good
    <2>1. CASE UnloadRemove(o)
        BY <2>1, <1>3 DEF UnloadRemove, OpsOK, Located, Pcs
    <2>2. CASE UnloadWaited(o) \/ UnloadStopped(o) \/ ModelStep(o)
        BY <2>2, <1>2
           DEF UnloadWaited, UnloadStopped, ModelStep, ModelSetLoading, ModelFails,
               ModelCommit, mapVars
    <2> QED
        BY <1>5, <2>1, <2>2 DEF UnloadStep
<1>6. ASSUME NEW o \in Requests, Call(o) \/ EndCtx(o) \/ InferStep(o) \/ EndGeneration(o)
      PROVE  Good
    BY <1>6, <1>2
       DEF Call, CallEnsure, CallUnload, CallEnsureModel, NewCall, EndCtx, InferStep,
           LookupMisses, BeginLookup, BeginChecks, Admit, BeginGrant, EndGeneration,
           mgrVars, mapVars
<1>7. ASSUME AtRest \/ UNCHANGED vars
      PROVE  Good
    BY <1>7, <1>2 DEF AtRest, vars, mgrVars, mapVars
<1> QED
    BY <1>4, <1>5, <1>6, <1>7 DEF Next, Progress

\* A call that is alone loads only after it has seen that its model fits,
\* unless the deadline of evictUntilFits may pass.
LEMMA FitsKept ==
    ASSUME Serial, ~DeadlineMayPass, OpsOK, LoadFits, [Next]_vars
    PROVE  LoadFits'
<1> SUFFICES ASSUME BudgetMB > 0
             PROVE  \A o \in Requests : pc'[o] = "load" => Fits(model[o])'
    BY DEF LoadFits
<1> DEFINE Good == \A o \in Requests : pc'[o] = "load" => Fits(model[o])'
<1>1. ASSUME NEW o \in Requests, pc'[o] # "load"
      PROVE  Good
    BY <1>1 DEF Serial
<1>2. ASSUME UNCHANGED <<pc, model, usedEstMB>>
      PROVE  Good
    BY <1>2 DEF LoadFits, Fits
<1>3. ASSUME NEW o \in Requests, Call(o)
      PROVE  Good
    BY <1>1, <1>3 DEF Call, CallEnsure, CallUnload, CallEnsureModel, NewCall, Step, OpsOK
<1>4. ASSUME NEW o \in Requests, EnsureStep(o)
      PROVE  Good
    <2>1. CASE EvictDone(o)
        <3>1. Fits(model[o])'
            BY <2>1 DEF EvictDone, Fits, mapVars
        <3> QED
            BY <3>1 DEF Serial
    <2>2. CASE CheckReady(o) \/ TouchReady(o) \/ EvictFails(o)
        BY <1>1, <2>2
           DEF CheckReady, TouchReady, EvictFails, SlowPath, Succeed, Fail, Leave, Step, OpsOK
    <2>3. CASE PickVictim(o) \/ VictimStopped(o)
        BY <1>1, <2>3 DEF PickVictim, ScanOver, VictimStopped, Evict, Step, OpsOK
    <2>4. CASE Load(o) \/ SpawnReady(o) \/ LoadFails(o) \/ Commit(o)
        BY <1>1, <2>4
           DEF Load, SpawnReady, LoadFails, Commit, Succeed, Fail, Leave, Step, OpsOK
    <2>5. CASE BeginScan(o) \/ Visit(o)
        BY <1>1, <2>5 DEF BeginScan, Visit, Step, OpsOK
    <2> QED
        BY <1>4, <2>1, <2>2, <2>3, <2>4, <2>5 DEF EnsureStep
<1>5. ASSUME NEW o \in Requests,
             LookupMisses(o) \/ BeginLookup(o) \/ UnloadStep(o) \/ ModelStep(o)
      PROVE  Good
    BY <1>1, <1>5
       DEF LookupMisses, BeginLookup, UnloadStep, UnloadWaited, UnloadStopped, UnloadRemove,
           ModelStep, ModelSetLoading, ModelFails, ModelCommit, Fail, Leave, Step, OpsOK
<1>6. ASSUME NEW o \in Requests,
             EndCtx(o) \/ BeginChecks(o) \/ Admit(o) \/ BeginGrant(o) \/ EndGeneration(o)
      PROVE  Good
    BY <1>2, <1>6
       DEF EndCtx, BeginChecks, Admit, BeginGrant, EndGeneration, mgrVars, opVars, mapVars
<1>7. ASSUME AtRest \/ UNCHANGED vars
      PROVE  Good
    BY <1>2, <1>7 DEF AtRest, vars, mgrVars, opVars, mapVars
<1> QED
    BY <1>3, <1>4, <1>5, <1>6, <1>7 DEF Next, Progress, InferStep

\* The map grows within the budget.
LEMMA BudgetKept ==
    ASSUME Serial, Books, LoadFits, BudgetRespected, [Next]_vars
    PROVE  BudgetRespected'
<1> SUFFICES ASSUME BudgetMB > 0
             PROVE  MappedMB' + MarginMB <= BudgetMB
    BY DEF BudgetRespected
<1>1. OpsOK /\ FieldsOK /\ Tally /\ Conservation
    BY MgrInvParts DEF Books
<1>2. /\ MappedMB \in Nat /\ MarginMB \in Nat /\ BudgetMB \in Nat /\ usedEstMB \in Int
      /\ MappedMB + MarginMB <= BudgetMB
    BY <1>1, SumsAreNat, SizesAssumption DEF FieldsOK, BudgetRespected
<1>3. IsFiniteSet(Mapped)
    BY <1>1 DEF Tally
<1>4. CASE Mapped' = Mapped
    BY <1>2, <1>4, MapStays
<1>5. ASSUME NEW m \in Mapped, Mapped' = Mapped \ {m}
      PROVE  MappedMB' + MarginMB <= BudgetMB
    <2>1. IsFiniteSet(Mapped') /\ MappedMB = Est[m] + MappedMB'
        BY <1>3, <1>5, MapShrinks
    <2>2. (\A n \in Mapped' : Est[n] \in Nat) /\ Est[m] \in Nat
        BY <1>5, EstAssumption DEF Mapped
    <2>3. MappedMB' \in Nat
        BY <2>1, <2>2, SumType DEF MappedMB
    <2>4. MappedMB' <= MappedMB
        BY <2>1, <2>2, <2>3
    <2>5. \A a, b \in Nat : a <= b /\ b + MarginMB <= BudgetMB => a + MarginMB <= BudgetMB
        BY <1>2
    <2> QED
        BY <1>2, <2>3, <2>4, <2>5
<1>6. ASSUME NEW o \in Requests, Load(o)
      PROVE  MappedMB' + MarginMB <= BudgetMB
    <2>1. pc[o] = "load" /\ Fits(model[o])
        BY <1>6 DEF Load, LoadFits
    <2>2. Pending = {}
        BY <1>1, <2>1 DEF Serial, Pending, Tally
    <2>3. PendingMB = 0
        BY <2>2, SumEmpty DEF PendingMB
    <2>4. model[o] \in Models /\ Mapped' = Mapped \cup {model[o]}
        BY <1>1, <1>6, LoadEffect
    <2>5. CASE model[o] \in Mapped
        <3>1. Mapped' = Mapped
            BY <2>4, <2>5
        <3> QED
            BY <1>4, <3>1
    <2>6. CASE model[o] \notin Mapped
        <3>1. MappedMB' = Est[model[o]] + MappedMB /\ Est[model[o]] \in Nat
            BY <1>3, <2>4, <2>6, MapGrows, EstAssumption
        <3>2. usedEstMB = MappedMB
            BY <1>1, <1>2, <2>3 DEF Conservation
        <3> QED
            BY <1>2, <2>1, <3>1, <3>2 DEF Fits
    <2> QED
        BY <2>5, <2>6
<1>7. ASSUME NEW m \in Models, Mapped' = Mapped \ {m}
      PROVE  MappedMB' + MarginMB <= BudgetMB
    <2>1. CASE m \in Mapped
        BY <1>5, <1>7, <2>1
    <2>2. CASE m \notin Mapped
        <3>1. Mapped' = Mapped
            BY <1>7, <2>2
        <3> QED
            BY <1>4, <3>1
    <2> QED
        BY <2>1, <2>2
<1> QED
    BY <1>1, <1>4, <1>6, <1>7, MapChanges

\* One call at a time, the instances that exist fit into the budget with the
\* margin to spare, whatever is loaded, evicted and unloaded, as long as no
\* load is given up and evictUntilFits is not cut short by its deadline.
THEOREM BudgetHolds ==
    ASSUME Serial, LoadsSucceed, ~DeadlineMayPass, BudgetMB > 0 => MarginMB <= BudgetMB
    PROVE  Spec => []BudgetRespected
<1>1. Spec => []Books
    BY BooksHold DEF Accountable
<1>2. Init => LoadFits /\ BudgetRespected
    <2> SUFFICES ASSUME Init PROVE LoadFits /\ BudgetRespected
        OBVIOUS
    <2>1. Mapped = {}
        BY DEF Init, Mapped
    <2>2. MappedMB = 0
        BY <2>1, SumEmpty DEF MappedMB
    <2> QED
        BY <2>2, SizesAssumption DEF Init, LoadFits, BudgetRespected
<1>3. Books /\ LoadFits /\ [Next]_vars => LoadFits'
    BY FitsKept, MgrInvParts DEF Books
<1>4. Books /\ LoadFits /\ BudgetRespected /\ [Next]_vars => BudgetRespected'
    BY BudgetKept
<1> QED
    BY <1>1, <1>2, <1>3, <1>4, PTL DEF Spec
=============================================================================
