----------------------------- MODULE SpawnProofs -----------------------------
(* Proofs about module SpawnManager: the manager, the adapter and main     *)
(* composed.  What is proved of module Manager and of module Subprocess    *)
(* each on its own is carried over to the composition.                     *)
EXTENDS SpawnManager, ManagerProofs

\* The adapter with its theorems, for calls that never overlap on a path.  The
\* composition has to show that its calls do not.
S == INSTANCE SubprocessProofs WITH
        Callers <- Requests \cup {Main}, Paths <- Models, NoPath <- NoModel,
        Kinds <- {"ensure", "stop", "stopAll"}, Exclusive <- {"ensure", "stop", "stopAll"},
        MaxCalls <- (Cardinality(Models) + 2) * MaxCalls + 1,
        mu <- amu, ready <- aready, pc <- apc, kind <- akind, path <- apath,
        proc <- aproc, port <- aport, todo <- atodo, alive <- aalive, calls <- acalls

\* What module Subprocess assumes of its constants.
LEMMA AdapterConstants ==
    /\ S!PortsAssumption /\ S!NilAssumption /\ S!CallsAssumption
    /\ S!Disjoint
<1>1. Cardinality(Models) \in Nat
    BY AdapterAssumption, FS_CardinalityType
<1>2. (Cardinality(Models) + 2) * MaxCalls + 1 \in Nat
    BY <1>1, SizesAssumption
<1> QED
    BY <1>2, AdapterAssumption, IdsAssumption
       DEF S!PortsAssumption, S!NilAssumption, S!CallsAssumption, S!Disjoint, Ids

-----------------------------------------------------------------------------
(* The manager's side.                                                     *)

\* Every step of the composition is one of the manager or none.
LEMMA StepIsManager == [SpawnNext]_svars => [Next]_vars
<1> SUFFICES ASSUME [SpawnNext]_svars
             PROVE  [Next]_vars
    OBVIOUS
<1>1. ASSUME NEW o \in Requests, Arrive(o) \/ LoseCtx(o) \/ OpStep(o)
      PROVE  [Next]_vars
    <2>1. Call(o) \/ EndCtx(o) \/ Progress(o) \/ UNCHANGED vars
        BY <1>1 DEF Arrive, LoseCtx, OpStep, ManagerStep, LoadSpawns, Spawned, SpawnFails, StopVictim,
                    VictimGone, StopUnloaded, UnloadGone, StartSession, OpenSession, EndSession,
                    Progress, EnsureStep, UnloadStep
    <2> QED
        BY <2>1 DEF Next
<1>2. CASE \/ \E c \in Requests \cup {Main} : AdapterStep(c)
           \/ Signal \/ StopAllReturns \/ Exit \/ Over \/ UNCHANGED svars
           \/ \E p \in Procs : ProcStep(p)
    BY <1>2 DEF AdapterStep, Signal, StopAllReturns, Exit, Over, ProcStep, svars
<1> QED
    BY <1>1, <1>2 DEF SpawnNext

\* So all that is proved of the manager, in spawn mode, holds for it when its
\* calls reach real processes and main shuts down under it.
LEMMA SpawnIsManager == SpawnSpec => Spec
<1>1. SpawnInit => Init
    BY DEF SpawnInit
<1> QED
    BY <1>1, StepIsManager, PTL DEF SpawnSpec, Spec

-----------------------------------------------------------------------------
(* The adapter's side.                                                     *)

\* A and S differ in a constant that only the first step of a call looks at.
LEMMA SameAdapter ==
    /\ A!Init <=> S!Init
    /\ A!TypeOK <=> S!TypeOK
    /\ A!Live = S!Live
    /\ \A c, k, m, first : A!NewCall(c, k, m, first) => S!NewCall(c, k, m, first)
    /\ \A c : A!Progress(c) => S!Progress(c)
    /\ \A p : A!Bind(p) \/ A!Crash(p) => S!Bind(p) \/ S!Crash(p)
<1> USE DEF A!Goto, S!Goto, A!Locked, S!Locked, A!osVars, S!osVars, A!locals, S!locals,
            A!Live, S!Live
<1>1. A!Init <=> S!Init
    BY DEF A!Init, S!Init
<1>2. A!TypeOK <=> S!TypeOK
    BY DEF A!TypeOK, S!TypeOK
<1>3. ASSUME NEW c, NEW k, NEW m, NEW first, A!NewCall(c, k, m, first)
      PROVE  S!NewCall(c, k, m, first)
    BY <1>3 DEF A!NewCall, S!NewCall
<1>4. ASSUME NEW c, A!Progress(c)
      PROVE  S!Progress(c)
    <2> USE DEF A!Listening, S!Listening, A!Forget, S!Forget
    <2>1. A!Enter(c) => S!Enter(c)
        BY DEF A!Enter, S!Enter
    <2>2. A!FoundHealthy(c) => S!FoundHealthy(c)
        BY DEF A!FoundHealthy, S!FoundHealthy
    <2>3. A!FoundUnhealthy(c) => S!FoundUnhealthy(c)
        BY DEF A!FoundUnhealthy, S!FoundUnhealthy
    <2>4. A!PickPort(c) => S!PickPort(c)
        BY DEF A!PickPort, S!PickPort
    <2>5. A!StartProc(c) => S!StartProc(c)
        BY DEF A!StartProc, S!StartProc, A!HaveFresh, S!HaveFresh, A!Fresh, S!Fresh
    <2>6. A!StartFails(c) => S!StartFails(c)
        BY DEF A!StartFails, S!StartFails
    <2>7. A!SaveProc(c) => S!SaveProc(c)
        BY DEF A!SaveProc, S!SaveProc
    <2>8. A!WatchExited(c) => S!WatchExited(c)
        BY DEF A!WatchExited, S!WatchExited
    <2>9. A!WatchAlive(c) => S!WatchAlive(c)
        BY DEF A!WatchAlive, S!WatchAlive
    <2>10. A!WatchTimeout(c) => S!WatchTimeout(c)
        BY DEF A!WatchTimeout, S!WatchTimeout
    <2>11. A!Poll(c) => S!Poll(c)
        BY DEF A!Poll, S!Poll
    <2>12. A!MarkReady(c) => S!MarkReady(c)
        BY DEF A!MarkReady, S!MarkReady
    <2>13. A!StopLookup(c) => S!StopLookup(c)
        BY DEF A!StopLookup, S!StopLookup, A!StopReturns, S!StopReturns
    <2>14. A!KillProc(c) => S!KillProc(c)
        BY DEF A!KillProc, S!KillProc
    <2>15. A!StopForget(c) => S!StopForget(c)
        BY DEF A!StopForget, S!StopForget, A!StopReturns, S!StopReturns
    <2>16. A!StopAllSnapshot(c) => S!StopAllSnapshot(c)
        BY DEF A!StopAllSnapshot, S!StopAllSnapshot
    <2> QED
        BY <1>4, <2>1, <2>2, <2>3, <2>4, <2>5, <2>6, <2>7, <2>8, <2>9, <2>10, <2>11, <2>12, <2>13,
           <2>14, <2>15, <2>16 DEF A!Progress, S!Progress
<1>5. ASSUME NEW p, A!Bind(p) \/ A!Crash(p)
      PROVE  S!Bind(p) \/ S!Crash(p)
    BY <1>5 DEF A!Bind, S!Bind, A!Crash, S!Crash, A!Listening, S!Listening
<1> QED
    BY <1>1, <1>2, <1>3, <1>4, <1>5

\* Calls enter the adapter with a registered model.
LEMMA CallsAreNamed ==
    ASSUME MgrInv, Admitted, NEW o \in Requests,
           LoadSpawns(o) \/ StopVictim(o) \/ StopUnloaded(o) \/ StartSession(o)
    PROVE  \/ (LoadSpawns(o) \/ StartSession(o)) /\ model[o] \in Models
              /\ S!NewCall(o, "ensure", model[o], "enter")
           \/ StopVictim(o) /\ victim'[o] \in Models /\ S!NewCall(o, "stop", victim'[o], "stop")
           \/ StopUnloaded(o) /\ model[o] \in Models /\ S!NewCall(o, "stop", model[o], "stop")
<1> USE DEF Invoke, FirstStep
<1>1. CASE LoadSpawns(o)
    BY <1>1, SameAdapter DEF LoadSpawns, Load, MgrInv, Located, Pcs, EnsurePcs
<1>2. CASE StartSession(o)
    BY <1>2, SameAdapter DEF StartSession, Admitted
<1>3. CASE StopUnloaded(o)
    BY <1>3, SameAdapter DEF StopUnloaded, UnloadWaited, MgrInv, Located, Pcs, EnsurePcs
<1>4. CASE StopVictim(o)
    <2>1. victim'[o] \in Models /\ victim'[o] = victim[o]
        BY <1>4, SpawnAssumption DEF StopVictim, PickVictim, ScanOver, MgrInv, TypeOK
    <2> QED
        BY <1>4, <2>1, SameAdapter DEF StopVictim
<1> QED
    BY <1>1, <1>2, <1>3, <1>4

\* What a step is to the adapter: a call, a step of its own, or nothing.
LEMMA AdapterView ==
    ASSUME MgrInv, Admitted, [SpawnNext]_svars
    PROVE  \/ \E o \in Requests :
                main # "exited" /\ (LoadSpawns(o) \/ StopVictim(o) \/ StopUnloaded(o) \/ StartSession(o))
           \/ Signal /\ S!NewCall(Main, "stopAll", NoModel, "snapshot")
           \/ \E c \in Callers : main # "exited" /\ AdapterStep(c) /\ S!Progress(c)
           \/ \E p \in Procs : ProcStep(p) /\ (S!Bind(p) \/ S!Crash(p))
           \/ UNCHANGED adapterVars
<1>1. ASSUME NEW o \in Requests, Arrive(o) \/ LoseCtx(o) \/ OpStep(o)
      PROVE  \/ LoadSpawns(o) \/ StopVictim(o) \/ StopUnloaded(o) \/ StartSession(o)
             \/ UNCHANGED adapterVars
    BY <1>1 DEF Arrive, LoseCtx, OpStep, ManagerStep, Spawned, SpawnFails, VictimGone,
                UnloadGone, OpenSession, EndSession
<1>2. Signal => S!NewCall(Main, "stopAll", NoModel, "snapshot")
    BY SameAdapter DEF Signal, Invoke, FirstStep
<1>3. StopAllReturns \/ Exit \/ Over \/ UNCHANGED svars => UNCHANGED adapterVars
    BY DEF StopAllReturns, Exit, Over, svars
<1> QED
    BY <1>1, <1>2, <1>3, SameAdapter DEF SpawnNext, AdapterStep, ProcStep, Callers

\* The adapter's invariant is kept by the calls that the composition makes.
LEMMA AdapterKept ==
    ASSUME MgrInv, Admitted, S!SubInv, [SpawnNext]_svars
    PROVE  S!SubInv'
<1>1. ASSUME NEW o \in Requests, LoadSpawns(o) \/ StopVictim(o) \/ StopUnloaded(o) \/ StartSession(o)
      PROVE  S!SubInv'
    BY <1>1, CallsAreNamed, AdapterConstants, S!NewCallKeepsInv
<1>2. CASE Signal /\ S!NewCall(Main, "stopAll", NoModel, "snapshot")
    BY <1>2, AdapterConstants, S!NewCallKeepsInv
<1>3. ASSUME NEW c \in Callers, S!Progress(c)
      PROVE  S!SubInv'
    BY <1>3, AdapterConstants, S!StepKeepsInv DEF S!Next, Callers
<1>4. ASSUME NEW p \in Procs, S!Bind(p) \/ S!Crash(p)
      PROVE  S!SubInv'
    BY <1>4, AdapterConstants, S!StepKeepsInv DEF S!Next
<1>5. CASE UNCHANGED adapterVars
    <2>1. UNCHANGED S!vars
        BY <1>5 DEF adapterVars, S!vars, S!osVars, S!locals
    <2> QED
        BY <2>1, AdapterConstants, S!StepKeepsInv
<1> QED
    BY <1>1, <1>2, <1>3, <1>4, <1>5, AdapterView

\* A step of one request on the channels leaves the others out of the manager
\* or in flight where they were.
LEMMA StagesMove ==
    ASSUME AdmInv, NEW o \in Requests,
           Refuse(o) \/ PassChecks(o) \/ AdmStep(o) \/ Grant(o) \/ ReceiveGen(o)
    PROVE  /\ adm[o] # "idle"
           /\ \A q \in Requests : adm'[q] # "idle" => adm[q] # "idle"
           /\ \A q \in Requests : adm[q] = "inflight" /\ adm'[q] # "inflight" => q = o /\ ReceiveGen(o)
<1> USE DEF AdmInv, AdmTypeOK, Goto, Return
<1>1. target[o] \in Instances \/ adm[o] = "idle"
    OBVIOUS
<1>2. CASE Refuse(o) \/ PassChecks(o) \/ Grant(o)
    BY <1>2 DEF Refuse, PassChecks, Grant
<1>3. CASE ReserveQueue(o) \/ ParkQueue(o) \/ QueueSelectFails(o) \/ RecheckCtx(o)
           \/ AcquireGen(o) \/ ParkGen(o) \/ GenSelectFails(o)
    BY <1>3 DEF ReserveQueue, ParkQueue, QueueSelectFails, RecheckCtx, AcquireGen, ParkGen,
                GenSelectFails
<1>4. CASE ReceiveQueue(o)
    <2> DEFINE i == target[o]
               h == Head(queueWait[i])
    <2>1. i \in Instances
        BY <1>1, <1>4 DEF ReceiveQueue
    <2>2. queueWait[i] # <<>> => h \in Requests /\ adm[h] = "inQueue"
        <3>1. queueWait[i] \in Seq(Requests)
            BY <2>1
        <3>2. ASSUME queueWait[i] # <<>>
              PROVE  1 \in 1..Len(queueWait[i]) /\ h = queueWait[i][1] /\ h \in Requests
            BY <3>1, <3>2
        <3> QED
            BY <2>1, <3>2 DEF Parked
    <2> HIDE DEF h
    <2>3. \/ adm' = [adm EXCEPT ![o] = "idle"]
          \/ queueWait[i] # <<>> /\ adm' = [adm EXCEPT ![o] = "idle", ![h] = "slot"]
        BY <1>4 DEF ReceiveQueue, h
    <2> QED
        BY <1>4, <2>2, <2>3 DEF ReceiveQueue
<1>5. CASE ReceiveGen(o)
    <2> DEFINE i == target[o]
               h == Head(genWait[i])
    <2>1. i \in Instances
        BY <1>1, <1>5 DEF ReceiveGen
    <2>2. genWait[i] # <<>> => h \in Requests /\ adm[h] = "inGen"
        <3>1. genWait[i] \in Seq(Requests)
            BY <2>1
        <3>2. ASSUME genWait[i] # <<>>
              PROVE  1 \in 1..Len(genWait[i]) /\ h = genWait[i][1] /\ h \in Requests
            BY <3>1, <3>2
        <3> QED
            BY <2>1, <3>2 DEF Parked
    <2> HIDE DEF h
    <2>3. \/ adm' = [adm EXCEPT ![o] = "release"]
          \/ genWait[i] # <<>> /\ adm' = [adm EXCEPT ![o] = "release", ![h] = "granted"]
        BY <1>5 DEF ReceiveGen, h
    <2> QED
        BY <1>5, <2>2, <2>3 DEF ReceiveGen
<1> QED
    BY <1>2, <1>3, <1>4, <1>5 DEF AdmStep

\* The types of what the composition adds.
ShellOK ==
    /\ result \in [Requests \cup {Main} -> BOOLEAN]
    /\ session \in [Requests -> {"none", "starting", "open"}]
    /\ pid \in [Instances -> Procs \cup {NoProc}]
    /\ main \in {"serving", "stopping", "draining", "exited"}

\* Steps that leave the channels alone and move an operation that is in
\* EnsureInstance or Unload.
LEMMA OpStepsKeepAdmitted ==
    ASSUME ShellOK, Admitted, MgrInv, NEW o \in Requests, UNCHANGED <<adm, session, model>>,
           pc[o] # "idle", \A q \in Requests \ {o} : pc'[q] = pc[q]
    PROVE  Admitted'
    BY DEF Admitted

\* Admitted requests stay in their place.
LEMMA AdmittedKept ==
    ASSUME ShellOK, Admitted, AdmInv, MgrInv, [SpawnNext]_svars
    PROVE  Admitted'
<1> USE DEF MgrInv, TypeOK
<1>1. ASSUME NEW o \in Requests, Arrive(o)
      PROVE  Admitted'
    <2>1. PICK id, first : /\ adm[o] = "idle" /\ UNCHANGED <<adm, session>>
                           /\ model' = [model EXCEPT ![o] = id] /\ pc' = [pc EXCEPT ![o] = first]
        BY <1>1 DEF Arrive, Call, CallEnsure, CallUnload, CallEnsureModel, NewCall, FreshCtx, Step,
                    shellVars
    <2> QED
        BY <2>1 DEF Admitted
<1>2. ASSUME NEW o \in Requests, LoseCtx(o)
      PROVE  Admitted'
    BY <1>2 DEF LoseCtx, EndCtx, Cancel, mgrVars, opVars, shellVars, Admitted
<1>3. ASSUME NEW o \in Requests,
             \/ CheckReady(o) \/ TouchReady(o) \/ EvictDone(o) \/ BeginScan(o) \/ Visit(o)
             \/ EvictFails(o) \/ Commit(o)
             \/ LookupMisses(o) \/ UnloadRemove(o) \/ PickVictim(o) \/ VictimStopped(o)
             \/ Load(o) \/ SpawnReady(o) \/ LoadFails(o) \/ UnloadWaited(o) \/ UnloadStopped(o)
      PROVE  /\ UNCHANGED <<adm, model>>
             /\ pc[o] # "idle" /\ \A q \in Requests \ {o} : pc'[q] = pc[q]
    <2> USE DEF Step, Leave, Succeed, Fail, admVars
    <2>1. CASE CheckReady(o) \/ TouchReady(o) \/ EvictDone(o) \/ BeginScan(o) \/ Visit(o)
                  \/ EvictFails(o)
        BY <2>1 DEF CheckReady, TouchReady, SlowPath, EvictDone, BeginScan, Visit, ScanOver, EvictFails
    <2>2. CASE Commit(o) \/ LookupMisses(o) \/ UnloadRemove(o)
        BY <2>2 DEF Commit, LookupMisses, UnloadRemove
    <2>3. CASE PickVictim(o) \/ VictimStopped(o)
        BY <2>3 DEF PickVictim, ScanOver, VictimStopped, Evict
    <2>4. CASE Load(o) \/ SpawnReady(o) \/ LoadFails(o) \/ UnloadWaited(o) \/ UnloadStopped(o)
        BY <2>4 DEF Load, SpawnReady, LoadFails, UnloadWaited, UnloadStopped
    <2> QED
        BY <1>3, <2>1, <2>2, <2>3, <2>4
<1>4. ASSUME NEW o \in Requests, BeginLookup(o), UNCHANGED shellVars
      PROVE  Admitted'
    <2>1. /\ adm' = [adm EXCEPT ![o] = "found"] /\ adm[o] = "idle"
          /\ pc' = [pc EXCEPT ![o] = "idle"]
          /\ model[o] \in Models /\ UNCHANGED <<model, session>>
        BY <1>4 DEF BeginLookup, Lookup, Goto, Leave, Step, Mapped, shellVars
    <2> QED
        BY <2>1 DEF Admitted, AdmInv, AdmTypeOK
<1>5. ASSUME NEW o \in Requests, BeginChecks(o) \/ Admit(o) \/ BeginGrant(o), UNCHANGED shellVars
      PROVE  Admitted'
    <2>1. /\ \A q \in Requests : adm'[q] # "idle" => adm[q] # "idle"
          /\ \A q \in Requests : adm[q] = "inflight" => adm'[q] = "inflight"
          /\ UNCHANGED <<model, pc, session>>
        <3>1. Refuse(o) \/ PassChecks(o) \/ AdmStep(o) \/ Grant(o)
            BY <1>5 DEF BeginChecks, Admit, BeginGrant
        <3>2. ReceiveGen(o) => ~(Refuse(o) \/ PassChecks(o) \/ AdmStep(o) \/ Grant(o))
            BY DEF ReceiveGen, Refuse, PassChecks, AdmStep, Grant, ReserveQueue, ParkQueue,
                   QueueSelectFails,
                   RecheckCtx, AcquireGen, ParkGen, GenSelectFails, ReceiveQueue
        <3>3. UNCHANGED <<model, pc, session>>
            BY <1>5 DEF BeginChecks, Admit, BeginGrant, mgrVars, opVars, shellVars
        <3> QED
            BY <3>1, <3>2, <3>3, StagesMove
    <2> QED
        BY <2>1 DEF Admitted
<1>6. ASSUME NEW o \in Requests, EndSession(o)
      PROVE  Admitted'
    <2>1. ReceiveGen(o) /\ UNCHANGED <<model, pc>> /\ session' = [session EXCEPT ![o] = "none"]
        BY <1>6 DEF EndSession, EndGeneration, mgrVars, opVars
    <2> QED
        BY <2>1, StagesMove DEF Admitted, ShellOK
<1>7. ASSUME NEW o \in Requests, StartSession(o) \/ OpenSession(o)
      PROVE  Admitted'
    BY <1>7 DEF StartSession, OpenSession, Admitted, ShellOK, vars, mgrVars, opVars, admVars
<1>8. CASE UNCHANGED <<vars, session>>
    BY <1>8 DEF Admitted, vars, mgrVars, opVars, admVars
<1>9. ASSUME NEW o \in Requests, OpStep(o)
      PROVE  Admitted'
    <2>1. CASE ManagerStep(o)
        BY <2>1, <1>3, <1>4, <1>5, OpStepsKeepAdmitted DEF ManagerStep, InferStep, shellVars
    <2>2. CASE LoadSpawns(o) \/ Spawned(o) \/ SpawnFails(o) \/ StopVictim(o)
        BY <2>2, <1>3, OpStepsKeepAdmitted DEF LoadSpawns, Spawned, SpawnFails, StopVictim, shellVars
    <2>3. CASE VictimGone(o) \/ StopUnloaded(o) \/ UnloadGone(o)
        BY <2>3, <1>3, OpStepsKeepAdmitted DEF VictimGone, StopUnloaded, UnloadGone, shellVars
    <2> QED
        BY <1>6, <1>7, <1>9, <2>1, <2>2, <2>3 DEF OpStep
<1> QED
    BY <1>1, <1>2, <1>8, <1>9
       DEF SpawnNext, AdapterStep, ProcStep, Signal, StopAllReturns, Exit, Over, svars, shellVars

\* The composition's own variables keep their types.
LEMMA ShellKept ==
    ASSUME ShellOK, MgrInv, S!SubInv, [SpawnNext]_svars
    PROVE  ShellOK'
<1> DEFINE Typed == /\ session' \in [Requests -> {"none", "starting", "open"}]
                    /\ pid' \in [Instances -> Procs \cup {NoProc}]
                    /\ main' \in {"serving", "stopping", "draining", "exited"}
<1>1. result' \in [Requests \cup {Main} -> BOOLEAN]
    <2>1. ASSUME NEW c \in Requests \cup {Main}, AdapterStep(c)
          PROVE  result' \in [Requests \cup {Main} -> BOOLEAN]
        <3> DEFINE b == apc[c] \notin {"pick", "start", "watch"}
        <3>1. b \in BOOLEAN
            OBVIOUS
        <3>2. result' = [result EXCEPT ![c] = b]
            BY <2>1 DEF AdapterStep
        <3> HIDE DEF b
        <3> QED
            BY <3>1, <3>2 DEF ShellOK
    <2>2. CASE UNCHANGED result
        BY <2>2 DEF ShellOK
    <2> QED
        BY <2>1, <2>2
           DEF SpawnNext, Arrive, LoseCtx, OpStep, ManagerStep, LoadSpawns, Spawned, SpawnFails,
               StopVictim, VictimGone, StopUnloaded, UnloadGone, StartSession, OpenSession, EndSession,
               ProcStep, Signal, StopAllReturns, Exit, Over, svars, shellVars
<1>2. ASSUME NEW o \in Requests, LoadSpawns(o)
      PROVE  Typed
    BY <1>2 DEF LoadSpawns, ShellOK
<1>3. ASSUME NEW o \in Requests, Spawned(o)
      PROVE  Typed
    <2>1. procs[model[o]] \in Procs \cup {NoProc}
        BY <1>3 DEF Spawned, SpawnReady, MgrInv, Located, Pcs, EnsurePcs, S!SubInv, S!TypeOK
    <2> QED
        BY <1>3, <2>1 DEF Spawned, ShellOK
<1>4. ASSUME NEW o \in Requests, StartSession(o) \/ OpenSession(o) \/ EndSession(o)
      PROVE  Typed
    BY <1>4 DEF StartSession, OpenSession, EndSession, ShellOK
<1>5. ASSUME UNCHANGED <<session, pid>>, main' \in {main, "stopping", "draining", "exited"}
      PROVE  Typed
    BY <1>5 DEF ShellOK
<1>6. Typed
    BY <1>2, <1>3, <1>4, <1>5
       DEF SpawnNext, Arrive, LoseCtx, OpStep, ManagerStep, SpawnFails, StopVictim, VictimGone,
           StopUnloaded, UnloadGone, AdapterStep, ProcStep, Signal, StopAllReturns, Exit, Over, svars,
           shellVars
<1> QED
    BY <1>1, <1>6 DEF ShellOK

\* What holds of the composition whatever is called, fails or is canceled.
SpawnInv == AdmInv /\ MgrInv /\ S!SubInv /\ ShellOK /\ Admitted

\* It holds at the start.
LEMMA SpawnInvInit == SpawnInit => ShellOK /\ Admitted /\ S!SubInv
<1> SUFFICES ASSUME SpawnInit
             PROVE  ShellOK /\ Admitted /\ S!SubInv
    OBVIOUS
<1>1. ShellOK /\ Admitted
    BY DEF SpawnInit, Init, AdmInit, ShellOK, Admitted
<1>2. S!SubInv
    <2>1. S!Init
        BY SameAdapter DEF SpawnInit
    <2> QED
        BY <2>1, AdapterConstants, S!AdapterInvariantInit
<1> QED
    BY <1>1, <1>2

\* And in every state.
THEOREM SpawnInvariant == SpawnSpec => []SpawnInv
<1>1. SpawnSpec => [](AdmInv /\ MgrInv)
    BY SpawnIsManager, ManagerInvariant, PTL
<1>2. /\ ShellOK /\ Admitted /\ S!SubInv /\ AdmInv /\ MgrInv /\ [SpawnNext]_svars
             => (ShellOK /\ Admitted /\ S!SubInv)'
    BY ShellKept, AdmittedKept, AdapterKept
<1>3. SpawnSpec => [](ShellOK /\ Admitted /\ S!SubInv)
    BY <1>1, <1>2, SpawnInvInit, PTL DEF SpawnSpec
<1> QED
    BY <1>1, <1>3, PTL DEF SpawnInv

\* The variables of the manager, of the adapter and of main keep their types,
\* and only a request in flight has a session.
THEOREM SpawnTyping == SpawnSpec => []SpawnTypeOK
<1>1. SpawnInv => SpawnTypeOK
    BY SameAdapter DEF SpawnInv, SpawnTypeOK, MgrInv, S!SubInv, ShellOK, Admitted
<1> QED
    BY <1>1, SpawnInvariant, PTL

-----------------------------------------------------------------------------
(* Who is inside the adapter, when the signal comes to a quiet server.     *)

\* A step of an operation is one of an operation that is under way, and moves
\* no other.
LEMMA OpFrame ==
    ASSUME SpawnInv, NEW o \in Requests, OpStep(o)
    PROVE  /\ ~Idle(o) /\ main' = main /\ model' = model
           /\ \A q \in Requests \ {o} :
                pc'[q] = pc[q] /\ session'[q] = session[q] /\ apc'[q] = apc[q] /\ victim'[q] = victim[q]
           /\ apc'[Main] = apc[Main]
<1> USE DEF SpawnInv, MgrInv, TypeOK, ShellOK, S!SubInv, S!TypeOK
<1>1. CASE ManagerStep(o)
    <2> USE DEF ManagerStep, shellVars, adapterVars, Idle, Step, Leave, Succeed, Fail
    <2>1. CASE CheckReady(o) \/ TouchReady(o) \/ EvictDone(o) \/ BeginScan(o) \/ Visit(o)
                  \/ EvictFails(o)
        BY <1>1, <2>1 DEF CheckReady, TouchReady, SlowPath, EvictDone, BeginScan, Visit, ScanOver,
                          EvictFails
    <2>2. CASE Commit(o) \/ UnloadRemove(o)
        BY <1>1, <2>2 DEF Commit, UnloadRemove
    <2>3. CASE LookupMisses(o) \/ BeginLookup(o)
        BY <1>1, <2>3 DEF LookupMisses, BeginLookup
    <2>4. CASE BeginChecks(o) \/ Admit(o) \/ BeginGrant(o)
        <3>1. Refuse(o) \/ PassChecks(o) \/ AdmStep(o) \/ Grant(o)
            BY <2>4 DEF BeginChecks, Admit, BeginGrant
        <3>2. adm[o] # "idle"
            BY <3>1, StagesMove
        <3> QED
            BY <1>1, <2>4, <3>2 DEF BeginChecks, Admit, BeginGrant, mgrVars, opVars
    <2> QED
        BY <1>1, <2>1, <2>2, <2>3, <2>4 DEF InferStep
<1>2. CASE LoadSpawns(o) \/ StopVictim(o) \/ StopUnloaded(o) \/ StartSession(o)
    <2>1. \A q \in Callers \ {o} : apc'[q] = apc[q]
        BY <1>2, CallsAreNamed DEF S!NewCall, S!Goto, Callers
    <2>2. apc'[Main] = apc[Main] /\ \A q \in Requests \ {o} : apc'[q] = apc[q]
        BY <2>1, SpawnAssumption DEF Callers
    <2>3. /\ ~Idle(o) /\ main' = main /\ model' = model
          /\ \A q \in Requests \ {o} : pc'[q] = pc[q] /\ session'[q] = session[q] /\ victim'[q] = victim[q]
        <3>1. CASE LoadSpawns(o)
            BY <3>1 DEF LoadSpawns, Load, Step, Idle
        <3>2. CASE StopVictim(o)
            BY <3>2, SpawnAssumption DEF StopVictim, PickVictim, ScanOver, Step, Idle, shellVars
        <3>3. CASE StopUnloaded(o)
            BY <3>3 DEF StopUnloaded, UnloadWaited, Step, Idle, shellVars
        <3>4. CASE StartSession(o)
            BY <3>4 DEF StartSession, Idle, vars, mgrVars, opVars
        <3> QED
            BY <1>2, <3>1, <3>2, <3>3, <3>4
    <2> QED
        BY <2>2, <2>3
<1>3. CASE Spawned(o) \/ SpawnFails(o) \/ VictimGone(o) \/ UnloadGone(o)
    BY <1>3 DEF Spawned, SpawnFails, VictimGone, UnloadGone, SpawnReady, LoadFails, VictimStopped, Evict,
                UnloadStopped, Step, Leave, Fail, Idle, adapterVars, shellVars
<1>4. CASE OpenSession(o) \/ EndSession(o)
    BY <1>4 DEF OpenSession, EndSession, EndGeneration, ReceiveGen, Admitted, Idle, vars, mgrVars,
                opVars,
                adapterVars
<1> QED
    BY <1>1, <1>2, <1>3, <1>4 DEF OpStep

\* Inside is kept by the steps of the operations: whoever goes on has returned.
LEMMA OpKeepsInside ==
    ASSUME SpawnInv, Inside, NEW o \in Requests, OpStep(o)
    PROVE  Inside'
<1> USE DEF SpawnInv, MgrInv, TypeOK, ShellOK, Admitted
<1>1. /\ main = "serving" /\ main' = "serving"
      /\ apc'[Main] = apc[Main]
      /\ \A q \in Requests \ {o} : pc'[q] = pc[q] /\ session'[q] = session[q] /\ apc'[q] = apc[q]
    BY OpFrame DEF Inside
<1>2. ASSUME apc'[o] # "idle" => \/ pc'[o] \in {"spawn", "stopVictim", "stopUnload"}
                                 \/ session'[o] = "starting"
      PROVE  Inside'
    BY <1>1, <1>2 DEF Inside
<1>3. ASSUME pc[o] \notin {"idle", "spawn", "stopVictim", "stopUnload"}, UNCHANGED apc
      PROVE  Inside'
    BY <1>2, <1>3 DEF Inside
<1>4. CASE ManagerStep(o)
    <2>1. UNCHANGED <<apc, session>>
        BY <1>4 DEF ManagerStep, adapterVars, shellVars
    <2>2. CASE BeginChecks(o) \/ Admit(o) \/ BeginGrant(o)
        BY <1>2, <2>1, <2>2 DEF BeginChecks, Admit, BeginGrant, mgrVars, opVars, Inside
    <2>3. CASE CheckReady(o) \/ TouchReady(o) \/ EvictDone(o) \/ BeginScan(o) \/ Visit(o)
                  \/ EvictFails(o) \/ Commit(o)
               \/ LookupMisses(o) \/ BeginLookup(o) \/ UnloadRemove(o)
        <3>1. pc[o] \notin {"idle", "spawn", "stopVictim", "stopUnload"}
            BY <2>3 DEF CheckReady, TouchReady, EvictDone, BeginScan, Visit, ScanOver, EvictFails,
                        Commit, LookupMisses, BeginLookup,
                        UnloadRemove
        <3> QED
            BY <1>3, <2>1, <3>1
    <2> QED
        BY <1>4, <2>2, <2>3 DEF ManagerStep, InferStep
<1>5. CASE LoadSpawns(o) \/ StopVictim(o) \/ StopUnloaded(o)
    <2>1. pc'[o] \in {"spawn", "stopVictim", "stopUnload"}
        BY <1>5, SpawnAssumption DEF LoadSpawns, StopVictim, StopUnloaded, Load, PickVictim, ScanOver,
                                     UnloadWaited, Step
    <2> QED
        BY <1>2, <2>1
<1>6. CASE StartSession(o)
    BY <1>2, <1>6 DEF StartSession
<1>7. CASE Spawned(o) \/ VictimGone(o) \/ UnloadGone(o) \/ OpenSession(o)
    BY <1>2, <1>7 DEF Spawned, VictimGone, UnloadGone, OpenSession, Returned, adapterVars
<1>8. CASE SpawnFails(o)
    <2>1. UNCHANGED apc /\ (pc[o] = "warm" \/ apc[o] = "idle")
        BY <1>8 DEF SpawnFails, LoadFails, Returned, adapterVars
    <2> QED
        BY <1>2, <1>3, <2>1
<1>9. CASE EndSession(o)
    <2>1. UNCHANGED apc /\ adm[o] = "inflight"
        BY <1>9 DEF EndSession, EndGeneration, ReceiveGen, adapterVars
    <2>2. pc[o] = "idle" /\ (session[o] = "starting" => apc[o] = "idle")
        BY <1>9, <2>1 DEF EndSession, Returned
    <2> QED
        BY <1>2, <2>1, <2>2 DEF Inside
<1> QED
    BY <1>4, <1>5, <1>6, <1>7, <1>8, <1>9 DEF OpStep

\* Inside is kept by every step, when the signal finds no call under way and
\* none follows it.
LEMMA InsideKept ==
    ASSUME Quiet, SpawnInv, Inside, [SpawnNext]_svars
    PROVE  Inside'
<1> USE DEF SpawnInv, MgrInv, TypeOK, ShellOK, Admitted, S!SubInv, S!TypeOK
<1>1. ASSUME NEW o \in Requests, Arrive(o)
      PROVE  Inside'
    <2>1. PICK first : /\ pc[o] = "idle" /\ adm[o] = "idle" /\ main = "serving"
                       /\ pc' = [pc EXCEPT ![o] = first] /\ UNCHANGED <<main, apc, session>>
        BY <1>1 DEF Arrive, Call, CallEnsure, CallUnload, CallEnsureModel, NewCall, Step, shellVars,
                    adapterVars
    <2> QED
        BY <2>1 DEF Inside
<1>2. ASSUME NEW o \in Requests, LoseCtx(o)
      PROVE  Inside'
    BY <1>2 DEF LoseCtx, EndCtx, Cancel, mgrVars, opVars, shellVars, adapterVars, Inside, Idle
<1>3. ASSUME NEW c \in Callers, AdapterStep(c), S!Progress(c)
      PROVE  Inside'
    <2>1. apc[c] # "idle" /\ \A d \in Callers \ {c} : apc'[d] = apc[d]
        BY <1>3, AdapterConstants, S!ProgressFrame DEF Callers
    <2>2. UNCHANGED <<pc, adm, session, main>>
        BY <1>3 DEF AdapterStep, vars, mgrVars, opVars, admVars
    <2> QED
        BY <2>1, <2>2 DEF Inside, Idle, Callers
<1>4. CASE Signal
    <2>1. main' = "stopping" /\ UNCHANGED <<pc, adm, session>> /\ \A o \in Requests : Idle(o)
        BY <1>4 DEF Signal, vars, mgrVars, opVars, admVars
    <2>2. \A d \in Requests : apc'[d] = apc[d]
        BY <1>4, SameAdapter, SpawnAssumption DEF Signal, Invoke, FirstStep, S!NewCall, S!Goto
    <2> QED
        BY <2>1, <2>2 DEF Inside, Idle
<1>5. CASE StopAllReturns \/ Exit
    BY <1>5 DEF StopAllReturns, Exit, Returned, Inside, Idle, vars, mgrVars, opVars, admVars, adapterVars
<1>6. CASE Over \/ UNCHANGED svars
    BY <1>6 DEF Over, Inside, Idle, svars, vars, mgrVars, opVars, admVars, adapterVars, shellVars
<1>7. ASSUME NEW p \in Procs, ProcStep(p)
      PROVE  Inside'
    BY <1>7 DEF ProcStep, A!Bind, A!Crash, Inside, Idle, vars, mgrVars, opVars, admVars, shellVars
<1> QED
    BY <1>1, <1>2, <1>3, <1>4, <1>5, <1>6, <1>7, OpKeepsInside, SameAdapter DEF SpawnNext, AdapterStep,
                                                                                Callers

\* Only the caller that makes a call is inside the adapter.
LEMMA CallsAreApart ==
    ASSUME Serial, Quiet, SpawnInv, Inside, [SpawnNext]_svars
    PROVE  [S!Next]_(S!vars)
<1> USE DEF SpawnInv, S!SubInv, S!TypeOK
<1>1. ASSUME NEW o \in Requests, OpStep(o), NEW k, NEW m, NEW first, S!NewCall(o, k, m, first)
      PROVE  S!Free(k, m)
    <2>1. main = "serving"
        BY <1>1, OpFrame DEF Inside
    <2>2. \A c \in Requests \cup {Main} : apc[c] = "idle"
        BY <1>1, <2>1 DEF S!NewCall, Serial, Inside
    <2> QED
        BY <2>2 DEF S!Free
<1>2. ASSUME NEW o \in Requests, OpStep(o),
             LoadSpawns(o) \/ StopVictim(o) \/ StopUnloaded(o) \/ StartSession(o)
      PROVE  S!Next
    <2>1. S!CallEnsure(o) \/ S!CallStop(o)
        BY <1>1, <1>2, CallsAreNamed DEF S!CallEnsure, S!CallStop
    <2> QED
        BY <2>1 DEF S!Next, S!Call
<1>3. CASE Signal
    <2>1. \A c \in Requests \cup {Main} : apc[c] = "idle"
        BY <1>3 DEF Signal, Inside, Idle, Admitted, ShellOK
    <2>2. S!CallStopAll(Main)
        BY <1>3, <2>1, SameAdapter DEF Signal, Invoke, FirstStep, S!CallStopAll, S!Free
    <2> QED
        BY <2>2 DEF S!Next, S!Call
<1>4. CASE UNCHANGED adapterVars
    BY <1>4 DEF adapterVars, S!vars, S!osVars, S!locals
<1>5. ASSUME NEW o \in Requests, LoadSpawns(o) \/ StopVictim(o) \/ StopUnloaded(o) \/ StartSession(o)
      PROVE  OpStep(o)
    BY <1>5 DEF OpStep
<1> QED
    BY <1>2, <1>3, <1>4, <1>5, AdapterView DEF S!Next, Callers

\* What the composition keeps of its own and of the adapter's invariants.
ServeInv == SpawnInv /\ Inside /\ S!ApartInv

\* With one call at a time and a signal that waits for it, the adapter never
\* gets two calls at once, so what is proved of it for such calls holds.
THEOREM CallsStayApart ==
    ASSUME Serial, Quiet
    PROVE  SpawnSpec => []ServeInv
<1>1. SpawnInit => Inside /\ S!Init
    BY SameAdapter DEF SpawnInit, A!Init, Inside, Init
<1>2. SpawnInv /\ Inside /\ [SpawnNext]_svars => Inside'
    BY InsideKept
<1>3. SpawnSpec => []Inside
    BY <1>1, <1>2, SpawnInvariant, PTL DEF SpawnSpec
<1>4. SpawnInv /\ Inside /\ [SpawnNext]_svars => [S!Next]_(S!vars)
    BY CallsAreApart
<1>5. SpawnSpec => S!Spec
    BY <1>1, <1>3, <1>4, SpawnInvariant, PTL DEF SpawnSpec, S!Spec
<1>6. S!Spec => []S!ApartInv
    BY AdapterConstants, S!ApartInvariant
<1> QED
    BY <1>3, <1>5, <1>6, SpawnInvariant, PTL DEF ServeInv

-----------------------------------------------------------------------------
(* The processes, when the signal comes to a quiet server.                 *)

\* Neither a process nor StopAll makes another process run.
LEMMA NoneStarts ==
    ASSUME S!SubInv,
           \/ \E p \in Procs : S!Bind(p) \/ S!Crash(p)
           \/ \E c \in Callers : akind[c] # "ensure" /\ S!Progress(c)
    PROVE  S!Live' \subseteq S!Live
<1> USE DEF S!SubInv, S!TypeOK, S!Live
<1>1. ASSUME NEW p \in Procs, S!Bind(p) \/ S!Crash(p)
      PROVE  S!Live' \subseteq S!Live
    BY <1>1 DEF S!Bind, S!Crash
<1>2. ASSUME NEW c \in Callers, akind[c] # "ensure", S!Progress(c)
      PROVE  S!Live' \subseteq S!Live
    <2>1. apc[c] \in {"idle", "snapshot", "stop", "kill", "forget"}
        BY <1>2 DEF S!Placed, Callers
    <2>2. CASE S!KillProc(c)
        BY <2>2 DEF S!KillProc
    <2>3. CASE UNCHANGED status
        BY <2>3
    <2> QED
        BY <1>2, <2>1, <2>2, <2>3
           DEF S!Progress, S!Enter, S!FoundHealthy, S!FoundUnhealthy, S!PickPort, S!StartProc,
               S!StartFails,
               S!SaveProc, S!WatchExited, S!WatchAlive, S!WatchTimeout, S!Poll, S!MarkReady,
               S!StopLookup,
               S!StopForget, S!StopAllSnapshot, S!osVars
<1> QED
    BY <1>1, <1>2

\* From the signal to the exit nothing but StopAll acts on the processes, and
\* it leaves none that it could know of.
LEMMA SweptKept ==
    ASSUME Quiet, ServeInv, Swept, [SpawnNext]_svars
    PROVE  Swept'
<1> USE DEF ServeInv, SpawnInv, S!SubInv, S!TypeOK
<1>0. A!Live = S!Live /\ A!Live' = S!Live'
    BY DEF A!Live, S!Live
<1>1. ASSUME main' = "serving"
      PROVE  Swept'
    BY <1>1 DEF Swept
<1>2. ASSUME NEW o \in Requests, Arrive(o) \/ LoseCtx(o) \/ OpStep(o)
      PROVE  Swept'
    <2>1. CASE Arrive(o)
        BY <1>1, <2>1 DEF Arrive, shellVars
    <2>2. CASE LoseCtx(o)
        BY <1>1, <2>2 DEF LoseCtx, EndCtx, Inside, Idle, shellVars
    <2>3. CASE OpStep(o)
        BY <1>1, <2>3, OpFrame DEF Inside
    <2> QED
        BY <1>2, <2>1, <2>2, <2>3
<1>3. ASSUME NEW c \in Callers, AdapterStep(c), S!Progress(c)
      PROVE  Swept'
    <2>1. /\ apc[c] # "idle" /\ \A d \in Callers \ {c} : apc'[d] = apc[d]
          /\ akind' = akind /\ aalive' = aalive /\ abandoned \subseteq abandoned'
        BY <1>3, AdapterConstants, S!ProgressFrame DEF Callers
    <2>2. main' = main
        BY <1>3 DEF AdapterStep
    <2>3. CASE c \in Requests
        <3>1. main = "serving"
            BY <2>1, <2>3 DEF Inside, Idle, Admitted
        <3> QED
            BY <1>1, <2>2, <3>1
    <2>4. CASE c = Main
        <3>1. main = "stopping" /\ akind[Main] = "stopAll" /\ S!Live \subseteq aalive[Main]
            BY <2>1, <2>4, <1>0 DEF Inside, Swept
        <3>2. S!Live' \subseteq S!Live
            BY <1>3, <2>4, <3>1, NoneStarts
        <3>3. ASSUME apc'[Main] = "idle", NEW p \in S!Live'
              PROVE  p \in abandoned'
            <4>1. p \in aalive[Main] /\ status'[p] # "dead"
                BY <3>1, <3>2, <3>3 DEF S!Live
            <4>2. p \in abandoned
                BY <1>3, <2>4, <3>1, <3>3, <4>1, AdapterConstants, S!StopAllSweeps DEF Callers
            <4> QED
                BY <2>1, <4>2
        <3> QED
            BY <1>0, <2>1, <2>2, <3>1, <3>2, <3>3 DEF Swept
    <2> QED
        BY <2>3, <2>4 DEF Callers
<1>4. CASE Signal
    <2>1. /\ apc'[Main] = "snapshot" /\ akind'[Main] = "stopAll" /\ aalive'[Main] = S!Live
          /\ status' = status
        BY <1>4, SameAdapter DEF Signal, Invoke, FirstStep, S!NewCall, S!Goto, S!osVars
    <2> QED
        BY <1>0, <1>4, <2>1 DEF Signal, Swept, S!Live
<1>5. CASE StopAllReturns \/ Exit
    BY <1>0, <1>5 DEF StopAllReturns, Exit, Returned, Swept, adapterVars, S!Live
<1>6. CASE Over \/ UNCHANGED svars
    BY <1>0, <1>6 DEF Over, Swept, svars, adapterVars, shellVars, S!Live
<1>7. ASSUME NEW p \in Procs, ProcStep(p), S!Bind(p) \/ S!Crash(p)
      PROVE  Swept'
    <2>1. S!Live' \subseteq S!Live
        BY <1>7, NoneStarts
    <2>2. UNCHANGED <<apc, akind, aalive, abandoned, main>>
        BY <1>7 DEF ProcStep, A!Bind, A!Crash, A!locals, shellVars
    <2> QED
        BY <1>0, <2>1, <2>2 DEF Swept
<1> QED
    BY <1>2, <1>3, <1>4, <1>5, <1>6, <1>7, SameAdapter DEF SpawnNext, AdapterStep, ProcStep, Callers

\* modeld that shuts down between two calls leaves no llama-server behind but
\* one that missed the readiness deadline, whatever crashed before.
THEOREM ShutdownIsThorough ==
    ASSUME Serial, Quiet
    PROVE  SpawnSpec => []NoProcessLeft
<1>1. SpawnInit => Swept
    BY DEF SpawnInit, Swept
<1>2. ServeInv /\ Swept /\ [SpawnNext]_svars => Swept'
    BY SweptKept
<1>3. Swept => NoProcessLeft
    BY DEF Swept, NoProcessLeft
<1> QED
    BY <1>1, <1>2, <1>3, CallsStayApart, PTL DEF SpawnSpec

-----------------------------------------------------------------------------
(* Which processes run, with one call at a time.                           *)

\* An operation waits for the adapter to return.
LEMMA OpWaits ==
    ASSUME SpawnInv, Inside, NEW o \in Requests, OpStep(o)
    PROVE  apc[o] = "idle"
<1> USE DEF SpawnInv, Admitted
<1>1. \/ adm[o] # "idle" /\ adm[o] # "inflight"
      \/ pc[o] \notin {"idle", "spawn", "stopVictim", "stopUnload"}
      \/ session[o] # "starting" /\ pc[o] = "idle"
      \/ Returned(o)
    <2>1. CASE ManagerStep(o)
        <3>1. Refuse(o) \/ PassChecks(o) \/ AdmStep(o) \/ Grant(o) => adm[o] # "idle" /\ adm[o] # "inflight"
            BY DEF Refuse, PassChecks, AdmStep, Grant, ReserveQueue, ParkQueue, QueueSelectFails,
                   RecheckCtx, AcquireGen, ParkGen, GenSelectFails, ReceiveQueue
        <3> QED
            BY <2>1, <3>1 DEF ManagerStep, InferStep, CheckReady, TouchReady, EvictDone, BeginScan,
                              Visit, ScanOver, EvictFails, Commit,
                    LookupMisses, BeginLookup, BeginChecks, Admit, BeginGrant, UnloadRemove
    <2>2. CASE LoadSpawns(o) \/ StopVictim(o) \/ StopUnloaded(o)
        BY <2>2 DEF LoadSpawns, StopVictim, StopUnloaded, Load, PickVictim, ScanOver, UnloadWaited
    <2>3. CASE StartSession(o)
        BY <2>3 DEF StartSession
    <2>4. CASE Spawned(o) \/ SpawnFails(o) \/ VictimGone(o) \/ UnloadGone(o)
        BY <2>4 DEF Spawned, SpawnFails, LoadFails, VictimGone, UnloadGone
    <2>5. CASE OpenSession(o) \/ EndSession(o)
        BY <2>5 DEF OpenSession, EndSession, EndGeneration, ReceiveGen
    <2> QED
        BY <2>1, <2>2, <2>3, <2>4, <2>5 DEF OpStep
<1> QED
    BY <1>1 DEF Inside, Returned

\* What is asked for stays so until the return.
LEMMA AskedKept ==
    ASSUME Serial, ServeInv, Asked, [SpawnNext]_svars
    PROVE  Asked'
<1> USE DEF ServeInv, SpawnInv, MgrInv, TypeOK, ShellOK, S!SubInv, S!TypeOK
<1>1. ASSUME NEW o \in Requests, Arrive(o)
      PROVE  Asked'
    <2>1. pc[o] = "idle" /\ adm[o] = "idle" /\ UNCHANGED apc
        BY <1>1 DEF Arrive, Call, CallEnsure, CallUnload, CallEnsureModel, NewCall, adapterVars
    <2>2. apc'[o] = "idle"
        BY <2>1 DEF Inside, Admitted
    <2> QED
        BY <2>2 DEF Asked, Serial
<1>2. ASSUME NEW o \in Requests, OpStep(o), UNCHANGED apc
      PROVE  Asked'
    BY <1>2, OpWaits DEF Asked, Serial
<1>3. ASSUME NEW o \in Requests, LoadSpawns(o) \/ StopVictim(o) \/ StopUnloaded(o) \/ StartSession(o)
      PROVE  Asked'
    <2>1. model' = model /\ \A q \in Requests : q = o
        BY <1>3, OpFrame DEF OpStep, Serial
    <2>2. CASE (LoadSpawns(o) \/ StartSession(o)) /\ S!NewCall(o, "ensure", model[o], "enter")
        <3>1. pc'[o] = "spawn" \/ session'[o] = "starting"
            BY <2>2, SpawnAssumption DEF LoadSpawns, Load, StartSession, Step
        <3>2. akind'[o] = "ensure" /\ apath'[o] = model[o]
            BY <2>2 DEF S!NewCall
        <3> QED
            BY <2>1, <3>1, <3>2 DEF Asked
    <2>3. CASE StopVictim(o) /\ S!NewCall(o, "stop", victim'[o], "stop")
        <3>1. pc'[o] = "stopVictim"
            BY <2>3, SpawnAssumption DEF StopVictim, PickVictim, ScanOver, Step
        <3>2. akind'[o] = "stop" /\ apath'[o] = victim'[o]
            BY <2>3 DEF S!NewCall
        <3> QED
            BY <2>1, <3>1, <3>2 DEF Asked
    <2>4. CASE StopUnloaded(o) /\ S!NewCall(o, "stop", model[o], "stop")
        <3>1. pc'[o] = "stopUnload"
            BY <2>4, SpawnAssumption DEF StopUnloaded, UnloadWaited, Step
        <3>2. akind'[o] = "stop" /\ apath'[o] = model[o]
            BY <2>4 DEF S!NewCall
        <3> QED
            BY <2>1, <3>1, <3>2 DEF Asked
    <2> QED
        BY <1>3, <2>2, <2>3, <2>4, CallsAreNamed
<1>4. ASSUME NEW o \in Requests, OpStep(o)
      PROVE  Asked'
    <2>1. \/ LoadSpawns(o) \/ StopVictim(o) \/ StopUnloaded(o) \/ StartSession(o)
          \/ UNCHANGED adapterVars
        BY <1>4 DEF OpStep, ManagerStep, Spawned, SpawnFails, VictimGone, UnloadGone, OpenSession,
                    EndSession
    <2> QED
        BY <1>2, <1>3, <1>4, <2>1 DEF adapterVars
<1>5. ASSUME NEW c \in Callers, AdapterStep(c), S!Progress(c)
      PROVE  Asked'
    <2>1. /\ apc[c] # "idle" /\ akind' = akind
          /\ \A d \in Callers \ {c} : apc'[d] = apc[d] /\ apath'[d] = apath[d]
          /\ apath'[c] = apath[c] \/ akind[c] = "stopAll"
        BY <1>5, AdapterConstants, S!ProgressFrame DEF Callers
    <2>2. UNCHANGED <<pc, session, model, victim>>
        BY <1>5 DEF AdapterStep, vars, mgrVars, opVars
    <2>3. ASSUME NEW o \in Requests, apc'[o] # "idle"
          PROVE  apc[o] # "idle" /\ apath'[o] = apath[o]
        BY <2>1, <2>3 DEF Callers, Asked
    <2> QED
        BY <2>1, <2>2, <2>3 DEF Asked
<1>6. CASE Signal
    <2>1. UNCHANGED <<pc, session, model, victim>>
        BY <1>6 DEF Signal, vars, mgrVars, opVars
    <2>2. \A d \in Requests : apc'[d] = apc[d] /\ akind'[d] = akind[d] /\ apath'[d] = apath[d]
        BY <1>6, SameAdapter, SpawnAssumption DEF Signal, Invoke, FirstStep, S!NewCall, S!Goto
    <2> QED
        BY <2>1, <2>2 DEF Asked
<1>7. CASE UNCHANGED <<pc, session, model, victim, apc, akind, apath>>
    BY <1>7 DEF Asked
<1>8. ASSUME NEW p \in Procs, ProcStep(p)
      PROVE  UNCHANGED <<pc, session, model, victim, apc, akind, apath>>
    BY <1>8 DEF ProcStep, A!Bind, A!Crash, A!locals, vars, mgrVars, opVars, shellVars
<1>9. ASSUME NEW o \in Requests, LoseCtx(o)
      PROVE  UNCHANGED <<pc, session, model, victim, apc, akind, apath>>
    BY <1>9 DEF LoseCtx, EndCtx, mgrVars, opVars, shellVars, adapterVars
<1>10. StopAllReturns \/ Exit \/ Over \/ UNCHANGED svars
            => UNCHANGED <<pc, session, model, victim, apc, akind, apath>>
    BY DEF StopAllReturns, Exit, Over, svars, vars, mgrVars, opVars, shellVars, adapterVars
<1> QED
    BY <1>1, <1>4, <1>5, <1>6, <1>7, <1>8, <1>9, <1>10, SameAdapter DEF SpawnNext, AdapterStep, Callers

\* An instance may go once its model has no entry: no process runs for it.
LEMMA VacatedMayGo ==
    ASSUME Serial, ServeInv, RunningMapped, NEW o \in Requests, OpStep(o),
           UNCHANGED adapterVars, NEW m \in Models, procs[m] = NoProc,
           Mapped \ {m} \subseteq Mapped'
    PROVE  RunningMapped'
<1> USE DEF ServeInv
<1>1. main = "serving"
    BY OpFrame DEF Inside
<1>2. apc[o] = "idle" /\ apc[Main] = "idle"
    BY <1>1, OpWaits DEF Inside
<1>3. ASSUME NEW p \in S!Live \ abandoned
      PROVE  modelOf[p] # m
    <2>1. S!Accounted(p)
        BY <1>3 DEF S!ApartInv, S!NoLeak
    <2>2. procs[modelOf[p]] = p
        BY <1>2, <2>1 DEF S!Accounted, Serial
    <2>3. p # NoProc
        BY <1>3, AdapterAssumption DEF S!Live
    <2> QED
        BY <2>2, <2>3
<1> QED
    BY <1>3 DEF RunningMapped, A!Live, S!Live, adapterVars

\* A step of an operation keeps RunningMapped and Vacated: instances go only when vacated.
LEMMA OpKeepsHouse ==
    ASSUME Serial, ServeInv, RunningMapped, Vacated, NEW o \in Requests, OpStep(o)
    PROVE  RunningMapped' /\ Vacated'
<1> USE DEF ServeInv, SpawnInv, MgrInv, TypeOK, ShellOK, S!SubInv, S!TypeOK
<1>1. apc[o] = "idle" /\ model' = model /\ \A q \in Requests : q = o
    BY OpWaits, OpFrame DEF Serial
<1>2. ASSUME Mapped \subseteq Mapped', UNCHANGED <<status, modelOf, abandoned>>
      PROVE  RunningMapped'
    BY <1>2 DEF RunningMapped, A!Live, S!Live
<1>3. ASSUME pc'[o] \in {"stopVictim", "stopUnload"} => apc'[o] # "idle", pc'[o] # "remove",
             adm'[o] # "idle" => model[o] \in Mapped'
      PROVE  Vacated'
    BY <1>1, <1>3 DEF Vacated
<1>4. pc[o] # "idle" => adm[o] = "idle"
    BY DEF Admitted
<1>5. ASSUME UNCHANGED <<status, modelOf, abandoned>>, pc[o] # "idle",
             \/ CheckReady(o) \/ TouchReady(o) \/ EvictDone(o) \/ BeginScan(o) \/ Visit(o)
             \/ EvictFails(o) \/ Commit(o)
             \/ LookupMisses(o) \/ SpawnReady(o) \/ LoadFails(o)
      PROVE  RunningMapped' /\ Vacated'
    <2> USE DEF Step, Leave, Succeed, Fail, mapVars, admVars
    <2>1. UNCHANGED <<instances, adm>> /\ pc'[o] \notin {"stopVictim", "stopUnload", "remove"}
        <3>1. CASE CheckReady(o) \/ TouchReady(o) \/ LookupMisses(o)
            BY <3>1 DEF CheckReady, TouchReady, LookupMisses, SlowPath
        <3>2. CASE EvictDone(o) \/ BeginScan(o) \/ Visit(o) \/ EvictFails(o) \/ Commit(o)
                      \/ SpawnReady(o) \/ LoadFails(o)
            BY <3>2 DEF EvictDone, BeginScan, Visit, ScanOver, EvictFails, Commit, SpawnReady, LoadFails
        <3> QED
            BY <1>5, <3>1, <3>2
    <2>2. Mapped' = Mapped
        BY <2>1 DEF Mapped
    <2> QED
        BY <1>2, <1>3, <1>4, <1>5, <2>1, <2>2
<1>6. CASE ManagerStep(o)
    <2>1. UNCHANGED <<status, modelOf, abandoned, apc, procs>> /\ UNCHANGED adapterVars
        BY <1>6 DEF ManagerStep, adapterVars
    <2>2. CASE CheckReady(o) \/ TouchReady(o) \/ EvictDone(o) \/ BeginScan(o) \/ Visit(o)
                  \/ EvictFails(o) \/ Commit(o) \/ LookupMisses(o)
        BY <1>5, <2>1, <2>2 DEF CheckReady, TouchReady, EvictDone, BeginScan, Visit, ScanOver,
                                EvictFails, Commit, LookupMisses
    <2>3. CASE BeginLookup(o)
        <3>1. UNCHANGED instances /\ pc'[o] = "idle" /\ model[o] \in Mapped
            BY <2>3 DEF BeginLookup, Leave, Step, mapVars
        <3>2. Mapped' = Mapped
            BY <3>1 DEF Mapped
        <3> QED
            BY <1>2, <1>3, <2>1, <3>1, <3>2
    <2>4. CASE BeginChecks(o) \/ Admit(o) \/ BeginGrant(o)
        <3>1. adm[o] # "idle"
            BY <2>4, StagesMove DEF BeginChecks, Admit, BeginGrant
        <3>2. UNCHANGED <<instances, pc>>
            BY <2>4 DEF BeginChecks, Admit, BeginGrant, mgrVars, opVars, mapVars
        <3>3. Mapped' = Mapped
            BY <3>2 DEF Mapped
        <3>4. pc[o] = "idle"
            BY <1>4, <3>1
        <3> QED
            BY <1>2, <1>3, <2>1, <3>1, <3>2, <3>3, <3>4 DEF Vacated
    <2>5. CASE UnloadRemove(o)
        <3>1. /\ instances' = [instances EXCEPT ![model[o]] = NoInst] /\ UNCHANGED adm
              /\ pc[o] = "remove" /\ pc'[o] = "idle"
            BY <2>5 DEF UnloadRemove, Leave, Step, admVars
        <3>2. model[o] \in Models /\ procs[model[o]] = NoProc
            BY <3>1 DEF Located, Pcs, Vacated
        <3>3. Mapped \ {model[o]} \subseteq Mapped'
            BY <3>1 DEF Mapped
        <3> QED
            BY <1>3, <1>4, <2>1, <3>1, <3>2, <3>3, VacatedMayGo
    <2> QED
        BY <1>6, <2>2, <2>3, <2>4, <2>5 DEF ManagerStep, InferStep
<1>7. CASE Spawned(o) \/ SpawnFails(o)
    <2>1. pc[o] # "idle" /\ (SpawnReady(o) \/ LoadFails(o)) /\ UNCHANGED <<status, modelOf, abandoned>>
        BY <1>7 DEF Spawned, SpawnFails, SpawnReady, LoadFails, adapterVars
    <2> QED
        BY <1>5, <2>1
<1>8. CASE VictimGone(o)
    <2>1. /\ UNCHANGED adapterVars /\ pc[o] = "stopVictim" /\ UNCHANGED adm
          /\ instances' = [instances EXCEPT ![victim[o]] = NoInst]
          /\ pc'[o] \in {"evict", "load"}
        BY <1>8 DEF VictimGone, VictimStopped, Evict, Step, admVars
    <2>2. victim[o] \in Models /\ procs[victim[o]] = NoProc
        BY <1>1, <2>1 DEF Located, Vacated
    <2>3. Mapped \ {victim[o]} \subseteq Mapped'
        BY <2>1 DEF Mapped
    <2> QED
        BY <1>3, <1>4, <2>1, <2>2, <2>3, VacatedMayGo
<1>9. CASE LoadSpawns(o) \/ StopVictim(o) \/ StopUnloaded(o) \/ StartSession(o)
    <2>1. apc'[o] # "idle" /\ UNCHANGED <<status, modelOf, abandoned>>
        BY <1>9, CallsAreNamed DEF S!NewCall, S!Goto, S!osVars
    <2>2. Mapped \subseteq Mapped' /\ UNCHANGED adm /\ pc'[o] # "remove"
        <3>1. CASE LoadSpawns(o)
            <4>1. Mapped \subseteq Mapped'
                BY <3>1, LoadEffect, MgrInvParts DEF LoadSpawns
            <4> QED
                BY <3>1, <4>1 DEF LoadSpawns, Load, Step, admVars
        <3>2. CASE StopVictim(o)
            BY <3>2, SpawnAssumption DEF StopVictim, PickVictim, ScanOver, Step, Mapped, mapVars, admVars
        <3>3. CASE StopUnloaded(o)
            BY <3>3, SpawnAssumption DEF StopUnloaded, UnloadWaited, Step, Mapped, mapVars, admVars
        <3>4. CASE StartSession(o)
            BY <3>4 DEF StartSession, Mapped, vars, mgrVars, opVars, mapVars, admVars, Admitted
        <3> QED
            BY <1>9, <3>1, <3>2, <3>3, <3>4
    <2> QED
        BY <1>2, <1>3, <2>1, <2>2 DEF Vacated
<1>10. CASE UnloadGone(o)
    <2>1. /\ UNCHANGED <<status, modelOf, abandoned, apc, procs, adm, instances>>
          /\ pc[o] = "stopUnload" /\ pc'[o] = "remove"
        BY <1>10 DEF UnloadGone, UnloadStopped, Step, adapterVars, admVars, mapVars
    <2>2. Mapped' = Mapped
        BY <2>1 DEF Mapped
    <2> QED
        BY <1>1, <1>2, <1>4, <2>1, <2>2 DEF Vacated
<1>11. CASE OpenSession(o) \/ EndSession(o)
    <2>1. /\ UNCHANGED <<status, modelOf, abandoned, apc, instances, pc>>
          /\ adm[o] = "inflight" /\ pc[o] = "idle"
        BY <1>11 DEF OpenSession, EndSession, EndGeneration, ReceiveGen, Admitted, adapterVars, vars,
                     mgrVars,
                     opVars, mapVars
    <2>2. Mapped' = Mapped
        BY <2>1 DEF Mapped
    <2> QED
        BY <1>2, <1>3, <2>1, <2>2 DEF Vacated
<1> QED
    BY <1>6, <1>7, <1>8, <1>9, <1>10, <1>11 DEF OpStep

\* A step of the adapter that starts a process starts it for its path.
LEMMA StartsForPath ==
    ASSUME S!SubInv, NEW c \in Callers, S!Progress(c), NEW p \in S!Live'
    PROVE  modelOf'[p] = apath[c] \/ (p \in S!Live /\ modelOf'[p] = modelOf[p])
<1> USE DEF S!SubInv, S!TypeOK, S!Live
<1>1. CASE S!StartProc(c)
    BY <1>1, AdapterConstants, S!FreshIsNew DEF S!StartProc
<1>2. CASE S!KillProc(c)
    BY <1>2 DEF S!KillProc
<1>3. CASE UNCHANGED <<status, modelOf>>
    BY <1>3
<1> QED
    BY <1>1, <1>2, <1>3
       DEF S!Progress, S!Enter, S!FoundHealthy, S!FoundUnhealthy, S!PickPort, S!StartFails,
           S!SaveProc, S!WatchExited, S!WatchAlive, S!WatchTimeout, S!Poll, S!MarkReady, S!StopLookup,
           S!StopForget, S!StopAllSnapshot, S!osVars

\* Processes start for a model that has an instance, and Stop vacates.
LEMMA AdapterKeepsHouse ==
    ASSUME Serial, ServeInv, Swept, Asked, LoadedIsMapped, RunningMapped, Vacated,
           NEW c \in Callers, AdapterStep(c), S!Progress(c)
    PROVE  RunningMapped' /\ Vacated'
<1> USE DEF ServeInv, SpawnInv, MgrInv, TypeOK, ShellOK, S!SubInv, S!TypeOK
<1>1. UNCHANGED <<pc, adm, model, victim, instances, main>>
    BY DEF AdapterStep, vars, mgrVars, opVars, mapVars, admVars
<1>2. /\ apc[c] # "idle" /\ akind' = akind /\ abandoned \subseteq abandoned'
      /\ \A d \in Callers \ {c} : apc'[d] = apc[d]
    BY AdapterConstants, S!ProgressFrame DEF Callers
<1>3. Mapped' = Mapped
    BY <1>1 DEF Mapped
<1>4. akind[c] # "ensure" => RunningMapped'
    <2>1. ASSUME akind[c] # "ensure", NEW p \in S!Live'
          PROVE  p \in S!Live /\ modelOf'[p] = modelOf[p]
        <3>1. p \in S!Live
            BY <2>1, NoneStarts
        <3>2. UNCHANGED modelOf
            BY <2>1
               DEF S!Progress, S!Enter, S!FoundHealthy, S!FoundUnhealthy, S!PickPort, S!StartProc,
                   S!StartFails,
                   S!SaveProc, S!WatchExited, S!WatchAlive, S!WatchTimeout, S!Poll, S!MarkReady,
                   S!StopLookup, S!KillProc, S!StopForget, S!StopAllSnapshot, S!osVars, S!Placed, Callers
        <3> QED
            BY <3>1, <3>2
    <2> QED
        BY <1>2, <1>3, <2>1 DEF RunningMapped, A!Live, S!Live
<1>5. CASE c = Main
    <2>1. main = "stopping" /\ akind[c] = "stopAll"
        BY <1>2, <1>5 DEF Inside, Swept
    <2>2. \A o \in Requests : pc'[o] = "idle" /\ adm'[o] = "idle"
        BY <1>1, <2>1 DEF Inside, Idle
    <2> QED
        BY <1>4, <2>1, <2>2 DEF Vacated
<1>6. CASE c \in Requests
    <2>1. \A o \in Requests : o = c
        BY <1>6 DEF Serial
    <2>2. CASE (pc[c] = "spawn" \/ session[c] = "starting") /\ akind[c] = "ensure" /\ apath[c] = model[c]
        <3>1. pc[c] \notin {"stopVictim", "stopUnload", "remove"}
            BY <1>6, <2>2 DEF Admitted
        <3>2. model[c] \in Mapped
            <4>1. CASE pc[c] = "spawn"
                BY <1>6, <4>1, NoInstAssumption DEF LoadedIsMapped, Located, Mapped, Pcs, EnsurePcs
            <4>2. CASE session[c] = "starting"
                BY <1>6, <4>2 DEF Admitted, Vacated
            <4> QED
                BY <2>2, <4>1, <4>2
        <3>3. RunningMapped'
            BY <1>2, <1>3, <2>2, <3>2, StartsForPath DEF RunningMapped, A!Live, S!Live
        <3>4. Vacated'
            BY <1>1, <1>3, <2>1, <3>1 DEF Vacated
        <3> QED
            BY <3>3, <3>4
    <2>3. CASE akind[c] = "stop"
        <3>1. apc'[c] = "idle" => procs'[apath[c]] = NoProc
            BY <2>3, AdapterConstants, S!StopLeavesNone DEF Callers
        <3>2. RunningMapped'
            BY <1>4, <2>3
        <3>3. \/ pc[c] = "stopVictim" /\ apath[c] = victim[c]
              \/ pc[c] = "stopUnload" /\ apath[c] = model[c]
            BY <1>2, <1>6, <2>3 DEF Asked
        <3>4. Vacated'
            BY <1>1, <1>3, <2>1, <3>1, <3>3 DEF Vacated
        <3> QED
            BY <3>2, <3>4
    <2> QED
        BY <1>2, <1>6, <2>2, <2>3 DEF Asked
<1> QED
    BY <1>5, <1>6 DEF Callers

\* Every step keeps RunningMapped and Vacated.
LEMMA HousedKept ==
    ASSUME Serial, Quiet, ServeInv, Swept, Asked, LoadedIsMapped, RunningMapped, Vacated, [SpawnNext]_svars
    PROVE  RunningMapped' /\ Vacated'
<1> USE DEF ServeInv, SpawnInv, MgrInv, TypeOK, ShellOK, S!SubInv, S!TypeOK
<1>1. ASSUME NEW o \in Requests, Arrive(o)
      PROVE  RunningMapped' /\ Vacated'
    <2>1. /\ UNCHANGED <<instances, adm, status, modelOf, abandoned>> /\ adm[o] = "idle"
          /\ pc'[o] \notin {"stopVictim", "stopUnload", "remove"}
        BY <1>1 DEF Arrive, Call, CallEnsure, CallUnload, CallEnsureModel, NewCall, Step, FreshCtx,
                    adapterVars
    <2>2. Mapped' = Mapped
        BY <2>1 DEF Mapped
    <2> QED
        BY <2>1, <2>2 DEF RunningMapped, A!Live, S!Live, Vacated, Serial
<1>2. ASSUME UNCHANGED <<instances, adm, pc, model, victim, status, modelOf, abandoned, apc, procs>>
      PROVE  RunningMapped' /\ Vacated'
    <2>1. Mapped' = Mapped
        BY <1>2 DEF Mapped
    <2> QED
        BY <1>2, <2>1 DEF RunningMapped, A!Live, S!Live, Vacated
<1>3. ASSUME NEW o \in Requests, LoseCtx(o)
      PROVE  RunningMapped' /\ Vacated'
    BY <1>2, <1>3 DEF LoseCtx, EndCtx, Cancel, mgrVars, opVars, mapVars, adapterVars
<1>4. CASE Signal
    <2>1. /\ UNCHANGED <<instances, adm, pc, model, victim, status, modelOf, abandoned, procs>>
          /\ \A o \in Requests : pc[o] = "idle"
        BY <1>4, SameAdapter DEF Signal, Invoke, FirstStep, S!NewCall, S!osVars, Idle, vars, mgrVars,
                                 opVars,
                                 mapVars, admVars
    <2>2. Mapped' = Mapped
        BY <2>1 DEF Mapped
    <2> QED
        BY <2>1, <2>2 DEF RunningMapped, A!Live, S!Live, Vacated
<1>5. CASE StopAllReturns \/ Exit \/ Over \/ UNCHANGED svars
    BY <1>2, <1>5 DEF StopAllReturns, Exit, Over, svars, vars, mgrVars, opVars, mapVars, admVars,
                      adapterVars
<1>6. ASSUME NEW p \in Procs, ProcStep(p), S!Bind(p) \/ S!Crash(p)
      PROVE  RunningMapped' /\ Vacated'
    <2>1. UNCHANGED <<instances, adm, pc, model, victim, modelOf, abandoned, apc, procs>>
        BY <1>6 DEF ProcStep, A!Bind, A!Crash, vars, mgrVars, opVars, mapVars, admVars
    <2>2. S!Live' \subseteq S!Live
        BY <1>6, NoneStarts
    <2>3. Mapped' = Mapped
        BY <2>1 DEF Mapped
    <2> QED
        BY <2>1, <2>2, <2>3 DEF RunningMapped, A!Live, S!Live, Vacated
<1> QED
    BY <1>1, <1>3, <1>4, <1>5, <1>6, OpKeepsHouse, AdapterKeepsHouse, SameAdapter
       DEF SpawnNext, AdapterStep, ProcStep, Callers

\* What is kept with one call at a time.
HouseInv == ServeInv /\ Swept /\ Asked /\ LoadedIsMapped /\ RunningMapped /\ Vacated

\* It holds in every state.
THEOREM SpawnHoused ==
    ASSUME Serial, Quiet
    PROVE  SpawnSpec => []HouseInv
<1>1. SpawnInit => Swept /\ Asked /\ RunningMapped /\ Vacated
    BY DEF SpawnInit, Init, AdmInit, A!Init, Swept, Asked, RunningMapped, A!Live, S!Live, Vacated
<1>2. SpawnSpec => []LoadedIsMapped
    BY SpawnIsManager, LoadedStaysMapped, PTL DEF Stable
<1>3. ServeInv /\ Swept /\ Asked /\ LoadedIsMapped /\ RunningMapped /\ Vacated /\ [SpawnNext]_svars
          => (Swept /\ Asked /\ RunningMapped /\ Vacated)'
    BY SweptKept, AskedKept, HousedKept
<1> QED
    BY <1>1, <1>2, <1>3, CallsStayApart, PTL DEF SpawnSpec, HouseInv

\* With one call at a time, when it has returned, failed or not, no
\* llama-server runs for a model without an instance, and the adapter knows
\* the one of each model: eviction and Unload reach them all but one that
\* missed the readiness deadline.
THEOREM NoProcessIsForgotten ==
    ASSUME Serial, Quiet
    PROVE  SpawnSpec => []ProcessesAccounted
<1>1. ASSUME HouseInv, main = "serving", \A o \in Requests : Idle(o), NEW p \in A!Live \ abandoned
      PROVE  modelOf[p] \in Mapped /\ procs[modelOf[p]] = p
    <2> USE <1>1 DEF HouseInv, ServeInv
    <2>1. \A c \in Requests \cup {Main} : apc[c] = "idle"
        BY DEF SpawnInv, Inside, Idle, Admitted, ShellOK
    <2>2. p \in S!Live \ abandoned
        BY SameAdapter
    <2>3. S!Accounted(p)
        BY <2>2 DEF S!ApartInv, S!NoLeak
    <2> QED
        BY <2>1, <2>2, <2>3 DEF S!Accounted, RunningMapped, A!Live, S!Live
<1>2. HouseInv => ProcessesAccounted
    BY <1>1 DEF ProcessesAccounted
<1> QED
    BY <1>2, SpawnHoused, PTL

-----------------------------------------------------------------------------
(* Which server answers, with one call at a time and no fault.             *)

\* What Unload marked stays marked, and keys do not share instances.
LEMMA MarkedKept ==
    ASSUME Serial, MgrInv, Marked, [Next]_vars
    PROVE  Marked'
<1> USE DEF MgrInv, TypeOK
<1> DEFINE Apart == \A m, n \in Mapped : instances[m] = instances[n] => m = n
<1>1. ASSUME NEW o \in Requests, pc'[o] \notin {"drain", "stopUnload", "remove"}, Apart'
      PROVE  Marked'
    BY <1>1 DEF Serial, Marked
<1>2. UNCHANGED instances => Apart'
    BY DEF Marked, Mapped
<1>3. ASSUME NEW m \in Models, instances' = [instances EXCEPT ![m] = NoInst]
      PROVE  Apart'
    BY <1>3 DEF Marked, Mapped
<1>4. ASSUME UNCHANGED <<pc, model, inst, instances, instState>>
      PROVE  Marked'
    BY <1>4 DEF Marked, Mapped
<1>5. ASSUME NEW o \in Requests, Call(o)
      PROVE  Marked'
    <2>1. CASE \E m \in Models : CallUnload(o, m)
        <3>1. PICK m \in Models : CallUnload(o, m)
            BY <2>1
        <3>2. /\ m \in Mapped /\ model'[o] = m /\ inst'[o] = instances[m] /\ UNCHANGED instances
              /\ instState' = [instState EXCEPT ![instances[m]] = "draining"]
            BY <3>1 DEF CallUnload, NewCall
        <3>3. instances[m] \in Instances
            BY <3>2 DEF Mapped
        <3> QED
            BY <1>2, <3>2, <3>3 DEF Serial, Marked
    <2>2. CASE ~\E m \in Models : CallUnload(o, m)
        <3>1. UNCHANGED instances /\ pc'[o] \in {"ensure", "setLoading"}
            BY <1>5, <2>2 DEF Call, CallEnsure, CallEnsureModel, NewCall, Step
        <3> QED
            BY <1>1, <1>2, <3>1
    <2> QED
        BY <2>1, <2>2
<1>6. ASSUME NEW o \in Requests, EndCtx(o) \/ BeginChecks(o) \/ Admit(o) \/ BeginGrant(o) \/ EndGeneration(o)
      PROVE  Marked'
    BY <1>4, <1>6 DEF EndCtx, BeginChecks, Admit, BeginGrant, EndGeneration, mgrVars, opVars, mapVars
<1>7. ASSUME NEW o \in Requests, Load(o)
      PROVE  Marked'
    <2>1. PICK i \in Instances :
              /\ model[o] \in Models /\ instances' = [instances EXCEPT ![model[o]] = i]
              /\ IsFresh(i) \/ instances[model[o]] = i
        BY <1>7, LoadEffect, MgrInvParts
    <2>2. Apart'
        BY <2>1, NoInstAssumption DEF Marked, Mapped, IsFresh
    <2>3. pc'[o] \in {"spawn", "warm"}
        BY <1>7 DEF Load, Step
    <2> QED
        BY <1>1, <2>2, <2>3
<1>8. ASSUME NEW o \in Requests, UnloadWaited(o) \/ UnloadStopped(o)
      PROVE  Marked'
    <2>1. UNCHANGED <<model, inst, instances, instState>> /\ pc[o] \in {"drain", "stopUnload"}
        BY <1>8 DEF UnloadWaited, UnloadStopped, mapVars
    <2> QED
        BY <1>2, <2>1 DEF Serial, Marked
<1>9. ASSUME NEW o \in Requests, UnloadRemove(o) \/ VictimStopped(o) \/ PickVictim(o)
      PROVE  Marked'
    <2>1. pc'[o] \notin {"drain", "stopUnload", "remove"}
        BY <1>9 DEF UnloadRemove, VictimStopped, PickVictim, ScanOver, Evict, Leave, Step
    <2>2. UNCHANGED instances \/ \E m \in Models : instances' = [instances EXCEPT ![m] = NoInst]
        BY <1>9 DEF UnloadRemove, VictimStopped, PickVictim, ScanOver, Evict, Located, Pcs, mapVars
    <2> QED
        BY <1>1, <1>2, <1>3, <2>1, <2>2
<1>10. ASSUME NEW o \in Requests,
              \/ CheckReady(o) \/ TouchReady(o) \/ EvictDone(o) \/ BeginScan(o) \/ Visit(o)
              \/ EvictFails(o) \/ SpawnReady(o)
              \/ LoadFails(o) \/ Commit(o) \/ LookupMisses(o) \/ BeginLookup(o) \/ ModelStep(o)
      PROVE  Marked'
    <2> USE DEF Step, Leave, Succeed, Fail, mapVars
    <2>1. CASE CheckReady(o) \/ TouchReady(o) \/ EvictDone(o) \/ BeginScan(o) \/ Visit(o)
                  \/ EvictFails(o)
        BY <1>1, <1>2, <2>1 DEF CheckReady, TouchReady, SlowPath, EvictDone, BeginScan, Visit, ScanOver,
                                EvictFails
    <2>2. CASE SpawnReady(o) \/ LoadFails(o) \/ Commit(o)
        BY <1>1, <1>2, <2>2 DEF SpawnReady, LoadFails, Commit
    <2>3. CASE LookupMisses(o) \/ BeginLookup(o) \/ ModelStep(o)
        BY <1>1, <1>2, <2>3 DEF LookupMisses, BeginLookup, ModelStep, ModelSetLoading, ModelFails,
                                ModelCommit
    <2> QED
        BY <1>10, <2>1, <2>2, <2>3
<1>11. CASE UNCHANGED vars
    BY <1>4, <1>11 DEF vars, mgrVars, opVars, mapVars
<1> QED
    BY <1>5, <1>6, <1>7, <1>8, <1>9, <1>10, <1>11
       DEF Next, Progress, EnsureStep, InferStep, UnloadStep, AtRest

\* The steps of the operations keep Backed: they count on a server only after
\* ensureProcess returned it, and give it up before they stop it.
LEMMA OpKeepsBacked ==
    ASSUME Serial, ServeInv, LoadedIsMapped, Marked, Backed, NEW o \in Requests, OpStep(o)
    PROVE  Backed'
<1> USE DEF ServeInv, SpawnInv, MgrInv, TypeOK, ShellOK, S!SubInv, S!TypeOK
<1>1. /\ main = "serving" /\ main' = "serving" /\ model' = model
      /\ \A q \in Requests : q = o
    BY OpFrame DEF Inside, Serial
<1>2. UNCHANGED <<procs, status, portOf>>
    <2>1. \/ LoadSpawns(o) \/ StopVictim(o) \/ StopUnloaded(o) \/ StartSession(o)
          \/ UNCHANGED adapterVars
        BY DEF OpStep, ManagerStep, Spawned, SpawnFails, VictimGone, UnloadGone, OpenSession, EndSession
    <2> QED
        BY <2>1, CallsAreNamed DEF S!NewCall, S!osVars, adapterVars
<1>3. \A m : HasServer(m)' = HasServer(m)
    BY <1>2 DEF HasServer
<1> DEFINE OpUp == /\ pc[o] = "spawn" /\ apc[o] = "idle" /\ result[o] => HasServer(model[o])
                   /\ pc[o] = "warm" => HasServer(model[o]) /\ pid[inst[o]] = procs[model[o]]
                   /\ \/ session[o] = "open"
                      \/ session[o] = "starting" /\ apc[o] = "idle" /\ result[o]
                      => HasServer(model[o]) /\ portOf[procs[model[o]]] = aport[o]
           MapUp == \A m \in Mapped : IsReady(m) =>
                        \/ pc[o] = "stopVictim" /\ victim[o] = m
                        \/ HasServer(m) /\ pid[instances[m]] = procs[m]
<1>4. OpUp /\ MapUp
    BY <1>1 DEF Backed
<1>5. OpUp' /\ MapUp' => Backed'
    BY <1>1 DEF Backed
<1> HIDE DEF OpUp, MapUp
<1>6. ASSUME UNCHANGED pid, \A m \in Mapped' : IsReady(m)' =>
                 /\ m \in Mapped /\ IsReady(m) /\ instances'[m] = instances[m]
                 /\ ~(pc[o] = "stopVictim" /\ victim[o] = m)
      PROVE  MapUp'
    BY <1>2, <1>3, <1>4, <1>6 DEF MapUp
<1>7. ASSUME pc[o] # "idle", UNCHANGED session, pc'[o] \notin {"spawn", "warm"}
      PROVE  OpUp'
    BY <1>7 DEF OpUp, Admitted
<1>8. ASSUME UNCHANGED <<instances, instState, pid>>, pc[o] # "stopVictim"
      PROVE  MapUp'
    BY <1>6, <1>8 DEF Mapped, IsReady
<1>9. CASE ManagerStep(o)
    <2>1. UNCHANGED <<apc, aport, result, session, pid>>
        BY <1>9 DEF ManagerStep, adapterVars, shellVars
    <2>2. CASE CheckReady(o) \/ TouchReady(o) \/ EvictDone(o) \/ BeginScan(o) \/ Visit(o)
                  \/ EvictFails(o) \/ LookupMisses(o)
               \/ BeginLookup(o)
        <3> USE DEF Step, Leave, Succeed, Fail, mapVars
        <3>1. /\ UNCHANGED <<instances, instState>> /\ pc[o] \notin {"idle", "stopVictim"}
              /\ pc'[o] \notin {"spawn", "warm"}
            <4>1. CASE CheckReady(o) \/ TouchReady(o)
                BY <4>1 DEF CheckReady, TouchReady, SlowPath
            <4>2. CASE EvictDone(o) \/ BeginScan(o) \/ Visit(o) \/ EvictFails(o) \/ LookupMisses(o)
                          \/ BeginLookup(o)
                BY <4>2 DEF EvictDone, BeginScan, Visit, ScanOver, EvictFails, LookupMisses, BeginLookup
            <4> QED
                BY <2>2, <4>1, <4>2
        <3> QED
            BY <1>5, <1>7, <1>8, <2>1, <3>1
    <2>3. CASE BeginChecks(o) \/ Admit(o) \/ BeginGrant(o)
        <3>1. UNCHANGED <<instances, instState, pc, inst, victim>>
            BY <2>3 DEF BeginChecks, Admit, BeginGrant, mgrVars, opVars, mapVars
        <3>2. Mapped' = Mapped /\ \A m : IsReady(m)' = IsReady(m)
            BY <3>1 DEF Mapped, IsReady
        <3> QED
            BY <1>1, <1>2, <1>3, <1>4, <1>5, <2>1, <3>1, <3>2 DEF OpUp, MapUp
    <2>4. CASE Commit(o)
        <3>1. /\ instState' = [instState EXCEPT ![inst[o]] = "ready"] /\ UNCHANGED instances
              /\ pc[o] = "warm" /\ pc'[o] \in {"lookup", "idle"}
            BY <2>4 DEF Commit, Succeed, Leave, Step
        <3>2. instances[model[o]] = inst[o] /\ inst[o] \in Instances /\ model[o] \in Mapped
            BY <3>1, NoInstAssumption DEF LoadedIsMapped, Located, Mapped, Pcs, EnsurePcs
        <3>3. ASSUME NEW m \in Mapped', IsReady(m)'
              PROVE  HasServer(m)' /\ pid'[instances'[m]] = procs'[m]
            <4>1. m \in Mapped /\ instances'[m] = instances[m]
                BY <3>1 DEF Mapped
            <4>2. CASE instances[m] = inst[o]
                <5>1. m = model[o]
                    BY <3>2, <4>1, <4>2 DEF Marked
                <5> QED
                    BY <1>2, <1>3, <1>4, <2>1, <3>1, <3>2, <4>1, <5>1 DEF OpUp
            <4>3. CASE instances[m] # inst[o]
                <5>1. IsReady(m)
                    BY <3>1, <3>3, <4>1, <4>3 DEF IsReady, Mapped
                <5> QED
                    BY <1>2, <1>3, <1>4, <2>1, <3>1, <4>1, <5>1 DEF MapUp
            <4> QED
                BY <4>2, <4>3
        <3>4. MapUp'
            BY <3>3 DEF MapUp
        <3> QED
            BY <1>5, <1>7, <2>1, <3>1, <3>4
    <2>5. CASE UnloadRemove(o)
        <3>1. /\ instances' = [instances EXCEPT ![model[o]] = NoInst] /\ UNCHANGED instState
              /\ pc[o] = "remove" /\ pc'[o] = "idle"
            BY <2>5 DEF UnloadRemove, Leave, Step
        <3>2. MapUp'
            BY <1>6, <2>1, <3>1 DEF Mapped, IsReady
        <3> QED
            BY <1>5, <1>7, <2>1, <3>1, <3>2
    <2> QED
        BY <1>9, <2>2, <2>3, <2>4, <2>5 DEF ManagerStep, InferStep
<1>10. CASE LoadSpawns(o)
    <2>1. PICK i \in Instances :
              /\ model[o] \in Models /\ instances' = [instances EXCEPT ![model[o]] = i]
              /\ instState' = [instState EXCEPT ![i] = "loading"]
              /\ inst' = [inst EXCEPT ![o] = i]
        BY <1>10, LoadEffect, MgrInvParts DEF LoadSpawns
    <2>2. pid' = pid \/ pid' = [pid EXCEPT ![i] = NoProc]
        BY <1>10, <2>1 DEF LoadSpawns
    <2>3. pc[o] = "load" /\ pc'[o] = "spawn" /\ UNCHANGED session
        BY <1>10, SpawnAssumption DEF LoadSpawns, Load, Step
    <2>4. apc'[o] # "idle"
        BY <1>10, CallsAreNamed DEF S!NewCall, S!Goto
    <2>5. ASSUME NEW m \in Mapped', IsReady(m)'
          PROVE  HasServer(m)' /\ pid'[instances'[m]] = procs'[m]
        <3>1. instances'[m] # i /\ m # model[o]
            BY <2>1, <2>5 DEF IsReady, Mapped
        <3>2. m \in Mapped /\ instances'[m] = instances[m] /\ IsReady(m)
            BY <2>1, <2>5, <3>1 DEF IsReady, Mapped
        <3>3. pid'[instances'[m]] = pid[instances[m]]
            BY <2>2, <3>1, <3>2 DEF Mapped
        <3> QED
            BY <1>2, <1>3, <1>4, <2>3, <3>2, <3>3 DEF MapUp
    <2>6. OpUp'
        BY <2>3, <2>4 DEF OpUp, Admitted
    <2>7. MapUp'
        BY <2>5 DEF MapUp
    <2> QED
        BY <1>5, <2>6, <2>7
<1>11. CASE Spawned(o)
    <2>1. /\ pc[o] = "spawn" /\ pc'[o] = "warm" /\ UNCHANGED <<inst, instances, instState, session>>
          /\ apc[o] = "idle" /\ result[o]
          /\ pid' = IF procs[model[o]] = NoProc THEN pid ELSE [pid EXCEPT ![inst[o]] = procs[model[o]]]
        BY <1>11 DEF Spawned, SpawnReady, Step, Returned, mapVars
    <2>2. HasServer(model[o])
        BY <1>4, <2>1 DEF OpUp
    <2>3. pid' = [pid EXCEPT ![inst[o]] = procs[model[o]]]
        BY <2>1, <2>2 DEF HasServer
    <2>4. instances[model[o]] = inst[o] /\ inst[o] \in Instances /\ model[o] \in Mapped
        <3>1. instances[model[o]] = inst[o] /\ inst[o] \in Instances
            BY <2>1 DEF LoadedIsMapped, Located
        <3>2. model[o] \in Models
            BY <2>1 DEF Located, Pcs, EnsurePcs
        <3> QED
            BY <3>1, <3>2, NoInstAssumption DEF Mapped
    <2>5. OpUp'
        <3>1. session[o] = "none" /\ session'[o] = "none"
            BY <2>1 DEF Admitted
        <3>2. pid'[inst'[o]] = procs'[model'[o]]
            BY <1>1, <1>2, <2>1, <2>3, <2>4
        <3>3. HasServer(model[o])'
            BY <1>1, <1>3, <2>2
        <3>4. pc'[o] = "warm"
            BY <2>1
        <3> QED
            BY <1>1, <3>1, <3>2, <3>3, <3>4 DEF OpUp
    <2>6. ASSUME NEW m \in Mapped', IsReady(m)'
          PROVE  HasServer(m)' /\ pid'[instances'[m]] = procs'[m]
        <3>1. m \in Mapped /\ IsReady(m) /\ instances'[m] = instances[m]
            BY <2>1, <2>6 DEF Mapped, IsReady
        <3>2. instances[m] = inst[o] => m = model[o]
            BY <2>4, <3>1 DEF Marked
        <3>3. HasServer(m) /\ pid[instances[m]] = procs[m]
            BY <1>4, <2>1, <3>1 DEF MapUp
        <3> QED
            BY <1>2, <1>3, <2>3, <3>1, <3>2, <3>3 DEF Mapped
    <2>7. MapUp'
        BY <2>6 DEF MapUp
    <2> QED
        BY <1>5, <2>5, <2>7
<1>12. CASE SpawnFails(o) \/ StopUnloaded(o) \/ UnloadGone(o)
    <2>1. /\ UNCHANGED <<instances, instState, pid, session>> /\ pc[o] \notin {"idle", "stopVictim"}
          /\ pc'[o] \notin {"spawn", "warm"}
        BY <1>12 DEF SpawnFails, LoadFails, Fail, Leave, StopUnloaded, UnloadWaited, UnloadGone,
                     UnloadStopped,
                     Step, shellVars, mapVars
    <2> QED
        BY <1>5, <1>7, <1>8, <2>1
<1>13. CASE StopVictim(o)
    <2>1. /\ UNCHANGED <<instances, instState, pid, session>> /\ pc[o] = "scan" /\ pc'[o] = "stopVictim"
        BY <1>13, SpawnAssumption DEF StopVictim, PickVictim, ScanOver, Step, shellVars, mapVars
    <2> QED
        BY <1>5, <1>7, <1>8, <2>1
<1>14. CASE VictimGone(o)
    <2>1. /\ instances' = [instances EXCEPT ![victim[o]] = NoInst] /\ UNCHANGED <<instState, pid, session>>
          /\ pc[o] = "stopVictim" /\ pc'[o] \in {"evict", "load"}
        BY <1>14 DEF VictimGone, VictimStopped, Evict, Step, shellVars
    <2>2. MapUp'
        BY <1>6, <2>1 DEF Mapped, IsReady, Located
    <2> QED
        BY <1>5, <1>7, <2>1, <2>2
<1>15. CASE StartSession(o) \/ OpenSession(o) \/ EndSession(o)
    <2>1. UNCHANGED <<instances, instState, pid, pc>> /\ adm[o] = "inflight"
        BY <1>15 DEF StartSession, OpenSession, EndSession, EndGeneration, ReceiveGen, Admitted, vars,
                     mgrVars,
                     mapVars, opVars
    <2>2. pc[o] = "idle"
        BY <2>1 DEF Admitted
    <2>3. OpUp'
        <3>1. CASE StartSession(o)
            <4>1. apc'[o] # "idle"
                BY <3>1, CallsAreNamed DEF S!NewCall, S!Goto
            <4>2. session'[o] = "starting"
                BY <3>1 DEF StartSession
            <4> QED
                BY <2>1, <2>2, <4>1, <4>2 DEF OpUp
        <3>2. CASE OpenSession(o)
            <4>1. session[o] = "starting" /\ apc[o] = "idle" /\ result[o] /\ UNCHANGED aport
                BY <3>2 DEF OpenSession, Returned, adapterVars
            <4> QED
                BY <1>1, <1>2, <1>3, <1>4, <2>1, <2>2, <4>1 DEF OpUp
        <3>3. CASE EndSession(o)
            <4>1. session'[o] = "none"
                BY <3>3 DEF EndSession
            <4> QED
                BY <2>1, <2>2, <4>1 DEF OpUp
        <3> QED
            BY <1>15, <3>1, <3>2, <3>3
    <2> QED
        BY <1>5, <1>8, <2>1, <2>2, <2>3
<1> QED
    BY <1>9, <1>10, <1>11, <1>12, <1>13, <1>14, <1>15 DEF OpStep

\* At most one caller is inside the adapter.
LEMMA OneInside ==
    ASSUME Serial, ServeInv
    PROVE  S!Single
    BY DEF ServeInv, SpawnInv, Inside, Idle, Admitted, ShellOK, Serial, S!Single

\* The steps of the adapter keep Backed: ensureProcess returns the server of
\* its model, and Stop is called for models that are on their way out.
LEMMA AdapterKeepsBacked ==
    ASSUME Serial, S!NoFaults, ServeInv, Asked, Marked, S!Healthy, Backed,
           NEW c \in Callers, AdapterStep(c), S!Progress(c)
    PROVE  Backed'
<1> USE DEF ServeInv, SpawnInv, MgrInv, TypeOK, ShellOK, S!ApartInv
<1>1. UNCHANGED <<pc, model, inst, victim, instances, instState, session, pid, main>>
    BY DEF AdapterStep, vars, mgrVars, opVars, mapVars
<1>2. apc[c] # "idle"
    BY AdapterConstants, S!ProgressFrame DEF Callers
<1>3. Mapped' = Mapped /\ \A m : IsReady(m)' = IsReady(m)
    BY <1>1 DEF Mapped, IsReady
<1>4. CASE main # "serving"
    BY <1>1, <1>4 DEF Backed
<1>5. CASE main = "serving"
    <2>1. c \in Requests /\ \A q \in Requests : q = c
        BY <1>2, <1>5 DEF Inside, Callers, Serial
    <2>2. session[c] # "open"
        BY <1>2, <2>1 DEF Inside, Admitted
    <2>3. ASSUME NEW m \in Models, HasServer(m), akind[c] = "ensure" \/ (akind[c] = "stop" /\ apath[c] # m)
          PROVE  HasServer(m)' /\ procs'[m] = procs[m]
        BY <2>3, OneInside, AdapterConstants, S!ServersStay DEF HasServer, Callers
    <2>4. CASE (pc[c] = "spawn" \/ session[c] = "starting") /\ akind[c] = "ensure" /\ apath[c] = model[c]
        <3>1. ASSUME apc'[c] = "idle", result'[c]
              PROVE  HasServer(model[c])' /\ portOf'[procs'[model[c]]] = aport'[c]
            <4>1. apc[c] \notin {"pick", "start", "watch"}
                <5> DEFINE b == apc[c] \notin {"pick", "start", "watch"}
                <5>1. result' = [result EXCEPT ![c] = b]
                    BY DEF AdapterStep
                <5> HIDE DEF b
                <5>2. b
                    BY <2>1, <3>1, <5>1
                <5> QED
                    BY <5>2 DEF b
            <4>2. /\ procs'[apath[c]] # NoProc /\ status'[procs'[apath[c]]] = "serving"
                  /\ portOf'[procs'[apath[c]]] = aport'[c]
                BY <2>4, <3>1, <4>1, OneInside, AdapterConstants, S!EnsureReturnsServer DEF Callers
            <4> QED
                BY <1>1, <2>4, <4>2 DEF HasServer
        <3>2. ASSUME NEW m \in Mapped, IsReady(m)
              PROVE  HasServer(m)' /\ pid'[instances'[m]] = procs'[m]
            <4>1. pc[c] # "stopVictim"
                BY <2>1, <2>4 DEF Admitted
            <4>2. HasServer(m) /\ pid[instances[m]] = procs[m] /\ m \in Models
                BY <1>5, <2>1, <3>2, <4>1 DEF Backed, Mapped
            <4> QED
                BY <1>1, <2>3, <2>4, <4>2
        <3>3. pc[c] # "warm"
            BY <2>1, <2>4 DEF Admitted
        <3> QED
            BY <1>1, <1>3, <2>1, <2>2, <3>1, <3>2, <3>3 DEF Backed
    <2>5. CASE akind[c] = "stop"
        <3>1. \/ pc[c] = "stopVictim" /\ apath[c] = victim[c]
              \/ pc[c] = "stopUnload" /\ apath[c] = model[c]
            BY <1>2, <2>1, <2>5 DEF Asked
        <3>2. session[c] = "none"
            BY <2>1, <3>1 DEF Admitted
        <3>3. ASSUME NEW m \in Mapped, IsReady(m)
              PROVE  \/ pc[c] = "stopVictim" /\ victim[c] = m
                     \/ HasServer(m)' /\ pid'[instances'[m]] = procs'[m]
            <4>1. CASE pc[c] = "stopVictim" /\ victim[c] = m
                BY <4>1
            <4>2. CASE ~(pc[c] = "stopVictim" /\ victim[c] = m)
                <5>1. HasServer(m) /\ pid[instances[m]] = procs[m] /\ m \in Models
                    BY <1>5, <2>1, <3>3, <4>2 DEF Backed, Mapped
                <5>2. apath[c] # m
                    BY <2>1, <3>1, <3>3, <4>2 DEF Marked, IsReady
                <5> QED
                    BY <1>1, <2>3, <2>5, <5>1, <5>2
            <4> QED
                BY <4>1, <4>2
        <3> QED
            BY <1>1, <1>3, <2>1, <3>1, <3>2, <3>3 DEF Backed
    <2> QED
        BY <1>2, <2>1, <2>4, <2>5 DEF Asked
<1> QED
    BY <1>4, <1>5

\* Every step keeps Backed.
LEMMA BackedKept ==
    ASSUME Serial, Quiet, S!NoFaults, ServeInv, Asked, LoadedIsMapped, Marked, S!Healthy, Backed,
           [SpawnNext]_svars
    PROVE  Backed'
<1> USE DEF ServeInv, SpawnInv, MgrInv, TypeOK, ShellOK, S!SubInv, S!TypeOK
<1>1. ASSUME NEW o \in Requests, Arrive(o)
      PROVE  Backed'
    <2>1. /\ UNCHANGED <<procs, status, portOf, instances, session, pid>> /\ main = "serving"
          /\ pc[o] = "idle" /\ adm[o] = "idle" /\ pc'[o] \in {"ensure", "drain", "setLoading"}
          /\ \/ UNCHANGED instState
             \/ \E m \in Mapped : instState' = [instState EXCEPT ![instances[m]] = "draining"]
        BY <1>1 DEF Arrive, Call, CallEnsure, CallUnload, CallEnsureModel, NewCall, Step, adapterVars,
                    shellVars
    <2>2. Mapped' = Mapped /\ \A m \in Mapped : IsReady(m)' => IsReady(m)
        BY <2>1 DEF Mapped, IsReady
    <2>3. \A m : HasServer(m)' = HasServer(m)
        BY <2>1 DEF HasServer
    <2>4. session[o] = "none" /\ \A q \in Requests : q = o
        BY <2>1 DEF Admitted, Serial
    <2> QED
        BY <2>1, <2>2, <2>3, <2>4 DEF Backed
<1>2. ASSUME UNCHANGED <<procs, status, portOf, apc, aport, result, session, pid, instances, instState, pc, model,
                         inst, victim>>,
             main' = "serving" => main = "serving"
      PROVE  Backed'
    BY <1>2 DEF Backed, Mapped, IsReady, HasServer
<1>3. ASSUME NEW o \in Requests, LoseCtx(o)
      PROVE  Backed'
    BY <1>2, <1>3 DEF LoseCtx, EndCtx, mgrVars, opVars, mapVars, adapterVars, shellVars
<1>4. CASE Signal \/ StopAllReturns \/ Exit
    BY <1>4 DEF Signal, StopAllReturns, Exit, Backed
<1>5. CASE Over \/ UNCHANGED svars
    BY <1>2, <1>5 DEF Over, svars, vars, mgrVars, opVars, mapVars, adapterVars, shellVars
<1>6. ASSUME NEW p \in Procs, ProcStep(p), S!Bind(p) \/ S!Crash(p)
      PROVE  Backed'
    <2>1. /\ UNCHANGED <<procs, portOf, apc, aport, result, session, pid, instances, instState, pc, model,
                         inst, victim, main>>
          /\ status[p] = "starting" /\ \A q \in Procs : q # p => status'[q] = status[q]
        BY <1>6, AdapterConstants
           DEF ProcStep, S!Bind, S!Crash, S!locals, S!NoFaults, vars, mgrVars, opVars, mapVars, shellVars
    <2>2. ASSUME NEW m, HasServer(m), procs[m] \in Procs \cup {NoProc}
          PROVE  HasServer(m)'
        BY <2>1, <2>2 DEF HasServer
    <2>3. Mapped' = Mapped /\ \A m : IsReady(m)' = IsReady(m)
        BY <2>1 DEF Mapped, IsReady
    <2>4. \A m \in Models : procs[m] \in Procs \cup {NoProc}
        OBVIOUS
    <2>5. \A o \in Requests : pc[o] \in {"spawn", "warm"} \/ session[o] # "none" => model[o] \in Models
        BY DEF Located, Pcs, EnsurePcs, Admitted
    <2>6. Mapped \subseteq Models
        BY DEF Mapped
    <2> QED
        BY <2>1, <2>2, <2>3, <2>4, <2>5, <2>6 DEF Backed
<1> QED
    BY <1>1, <1>3, <1>4, <1>5, <1>6, OpKeepsBacked, AdapterKeepsBacked, SameAdapter
       DEF SpawnNext, AdapterStep, ProcStep, Callers

\* What is kept with one call at a time and without faults.
UpInv == HouseInv /\ Marked /\ S!Healthy /\ Backed

\* It holds in every state.
THEOREM SpawnHealthy ==
    ASSUME Serial, Quiet, ~CanCrash, ~SlowHealth, ~SlowStart
    PROVE  SpawnSpec => []UpInv
<1>0. S!NoFaults
    BY DEF S!NoFaults
<1>1. SpawnInit => Marked /\ S!Healthy /\ Backed
    <2> SUFFICES ASSUME SpawnInit
                 PROVE  Marked /\ S!Healthy /\ Backed
        OBVIOUS
    <2>1. Marked /\ Backed
        BY DEF SpawnInit, Init, Marked, Backed, Mapped
    <2>2. S!Healthy
        BY DEF SpawnInit, A!Init, S!Healthy, S!Live
    <2> QED
        BY <2>1, <2>2
<1>2. HouseInv /\ Marked /\ S!Healthy /\ Backed /\ [SpawnNext]_svars => (Marked /\ S!Healthy /\ Backed)'
    <2> SUFFICES ASSUME HouseInv, Marked, S!Healthy, Backed, [SpawnNext]_svars
                 PROVE  Marked' /\ S!Healthy' /\ Backed'
        OBVIOUS
    <2> USE DEF HouseInv
    <2>1. Marked'
        BY StepIsManager, MarkedKept DEF ServeInv, SpawnInv
    <2>2. S!Healthy'
        BY <1>0, OneInside, CallsAreApart, AdapterConstants, S!StepKeepsHealthy DEF ServeInv, S!ApartInv
    <2>3. Backed'
        BY <1>0, BackedKept
    <2> QED
        BY <2>1, <2>2, <2>3
<1> QED
    BY <1>1, <1>2, SpawnHoused, PTL DEF SpawnSpec, UpInv

\* With one call at a time and no fault, a model that the manager reports as
\* ready has a llama-server that serves and whose PID /status tells, but while
\* an eviction stops it.
THEOREM ReadyModelsAnswer ==
    ASSUME Serial, Quiet, ~CanCrash, ~SlowHealth, ~SlowStart
    PROVE  SpawnSpec => []ReadyHasServer
<1>1. UpInv => ReadyHasServer
    BY DEF UpInv, Backed, HasServer, ReadyHasServer
<1> QED
    BY <1>1, SpawnHealthy, PTL

\* Then, too, a request generates on the server of its own model, at the port
\* that Start was told.
THEOREM GenerationsAreServed ==
    ASSUME Serial, Quiet, ~CanCrash, ~SlowHealth, ~SlowStart
    PROVE  SpawnSpec => []GenerationHasServer
<1>1. ASSUME UpInv, NEW o \in Requests, session[o] = "open", main = "serving"
      PROVE  \E p \in Procs :
                 status[p] = "serving" /\ modelOf[p] = model[o] /\ portOf[p] = aport[o]
    <2> USE <1>1 DEF UpInv, HouseInv, ServeInv, SpawnInv, S!SubInv
    <2>1. HasServer(model[o]) /\ portOf[procs[model[o]]] = aport[o]
        BY DEF Backed
    <2>2. model[o] \in Models
        BY DEF Admitted
    <2>3. procs[model[o]] \in Procs /\ modelOf[procs[model[o]]] = model[o]
        BY <2>1, <2>2 DEF HasServer, S!TypeOK, S!EntriesOK
    <2> QED
        BY <2>1, <2>3 DEF HasServer
<1>2. UpInv => GenerationHasServer
    BY <1>1 DEF GenerationHasServer
<1> QED
    BY <1>2, SpawnHealthy, PTL
=============================================================================
