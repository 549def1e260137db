---------------------------- MODULE SpawnManager ----------------------------
(***************************************************************************)
(* modeld in spawn mode: the manager's operations (module Manager), the    *)
(* adapter and the llama-server processes they call (module Subprocess,    *)
(* instance A) and the shutdown of main, composed.                         *)
(*                                                                         *)
(* A step of Manager that calls the adapter is joined with the call, and   *)
(* the step after it waits for the return; between the two the operation   *)
(* runs inside A, without m.mu.  Infer calls the adapter a second time,    *)
(* after admission, to open its session.  The goroutine of main is one     *)
(* more caller of the adapter: it stops every process on a signal.         *)
(***************************************************************************)
EXTENDS Manager

CONSTANTS
    Main,           \* the goroutine of main
    Ports,          \* numbers of the ports that llama-server may get
    Procs,          \* processes, one per spawn
    Nobody, NoProc, \* an unlocked a.mu, a nil *procInfo
    CanCrash, SlowHealth, SlowStart,  \* faults, as in Subprocess
    Quiet           \* the signal comes when no call is running, and none follows

ASSUME SpawnAssumption == SpawnMode /\ SpawnMayFail /\ Main \notin Requests /\ Quiet \in BOOLEAN
ASSUME AdapterAssumption ==
    /\ Ports \subseteq Nat \ {0}
    /\ NoProc \notin Procs /\ Nobody \notin Requests \cup {Main}
    /\ IsFiniteSet(Models)

VARIABLES
    amu, procs, aready, status, modelOf, portOf,    \* Subprocess: a.mu, a.procs, the processes
    apc, akind, apath, aproc, aport, atodo, aalive, acalls, abandoned,
    result,         \* result[o]: its last adapter call returned no error
    session,        \* session[o]: "none", "starting" (in adapter.Start) or "open"
    pid,            \* inst.PID (and inst.Port) of each object, as its process
    main            \* "serving", "stopping", "draining" or "exited"

adapterVars == <<amu, procs, aready, status, modelOf, portOf, apc, akind, apath,
                 aproc, aport, atodo, aalive, acalls, abandoned>>
shellVars == <<result, session, pid, main>>
svars == <<vars, adapterVars, shellVars>>

\* The adapter, called by the operations and by main.  Its own bound on calls
\* is out of reach: a call of the manager makes at most one per model and two
\* more.
A == INSTANCE Subprocess WITH
        Callers <- Requests \cup {Main}, Paths <- Models, NoPath <- NoModel,
        Kinds <- {"ensure", "stop", "stopAll"}, Exclusive <- {},
        MaxCalls <- (Cardinality(Models) + 2) * MaxCalls + 1,
        mu <- amu, ready <- aready, pc <- apc, kind <- akind, path <- apath,
        proc <- aproc, port <- aport, todo <- atodo, alive <- aalive, calls <- acalls

SpawnTypeOK ==
    /\ TypeOK /\ A!TypeOK
    /\ result \in [Requests \cup {Main} -> BOOLEAN]
    /\ session \in [Requests -> {"none", "starting", "open"}]
    /\ pid \in [Instances -> Procs \cup {NoProc}]
    /\ main \in {"serving", "stopping", "draining", "exited"}
    /\ \A o \in Requests : session[o] # "none" => adm[o] = "inflight"

SpawnInit ==
    /\ Init /\ A!Init
    /\ result = [c \in Requests \cup {Main} |-> FALSE]
    /\ session = [o \in Requests |-> "none"]
    /\ pid = [i \in Instances |-> NoProc]
    /\ main = "serving"

-----------------------------------------------------------------------------
(* The adapter between a call and its return.                              *)

\* The step that returns tells the result: errors come from the port search,
\* cmd.Start and the readiness loop.
AdapterStep(c) ==
    /\ A!Progress(c)
    /\ result' = [result EXCEPT ![c] = apc[c] \notin {"pick", "start", "watch"}]
    /\ UNCHANGED <<vars, session, pid, main>>

Returned(c) == apc[c] = "idle"

FirstStep == [ensure |-> "enter", stop |-> "stop", stopAll |-> "snapshot"]
Invoke(c, k, m) == A!NewCall(c, k, m, FirstStep[k])

ProcStep(p) == (A!Bind(p) \/ A!Crash(p)) /\ UNCHANGED <<vars, shellVars>>

-----------------------------------------------------------------------------
(* Operations of the manager.                                              *)

\* Steps that do not involve the adapter.
ManagerStep(o) ==
    /\ \/ CheckReady(o) \/ TouchReady(o) \/ EvictDone(o) \/ BeginScan(o) \/ Visit(o)
       \/ EvictFails(o) \/ Commit(o) \/ InferStep(o) \/ UnloadRemove(o)
    /\ UNCHANGED <<adapterVars, shellVars>>

\* EnsureInstance creates or reuses the instance and calls ensureProcess.
LoadSpawns(o) ==
    /\ Load(o)
    /\ Invoke(o, "ensure", model[o])
    /\ pid' = IF added'[o] THEN [pid EXCEPT ![inst'[o]] = NoProc] ELSE pid
    /\ UNCHANGED <<result, session, main>>

\* Mutation: the error of ensureProcess is ignored.
Spawned_IgnoresError(o) ==
    /\ SpawnReady(o)
    /\ Returned(o) /\ amu = Nobody
    /\ pid' = IF procs[model[o]] = NoProc THEN pid
              ELSE [pid EXCEPT ![inst[o]] = procs[model[o]]]
    /\ UNCHANGED <<adapterVars, result, session, main>>

\* It returned a URL; getProcInfo locks a.mu once more and tells PID and port.
Spawned(o) ==
    /\ SpawnReady(o)
    /\ Returned(o) /\ result[o] /\ amu = Nobody
    /\ pid' = IF procs[model[o]] = NoProc THEN pid
              ELSE [pid EXCEPT ![inst[o]] = procs[model[o]]]
    /\ UNCHANGED <<adapterVars, result, session, main>>

\* It returned an error, or the context ended during warmup.
SpawnFails(o) ==
    /\ LoadFails(o)
    /\ pc[o] = "spawn" => Returned(o) /\ ~result[o]
    /\ UNCHANGED <<adapterVars, shellVars>>

\* evictUntilFits stops the victim's process without m.mu and then removes
\* the instance.
StopVictim(o) ==
    /\ PickVictim(o)
    /\ Invoke(o, "stop", victim[o])
    /\ UNCHANGED shellVars

VictimGone(o) == VictimStopped(o) /\ Returned(o) /\ UNCHANGED <<adapterVars, shellVars>>

\* Mutation: Unload does not stop the process.
StopUnloaded_No(o) == UnloadWaited(o) /\ UNCHANGED <<adapterVars, shellVars>>

\* Unload does the same after the drain.
StopUnloaded(o) ==
    /\ UnloadWaited(o)
    /\ Invoke(o, "stop", model[o])
    /\ UNCHANGED shellVars

UnloadGone(o) == UnloadStopped(o) /\ Returned(o) /\ UNCHANGED <<adapterVars, shellVars>>

\* Mutation: the session is opened before the in-flight slot is taken.
StartSession_Early(o) ==
    /\ adm[o] \in {"slot", "inflight"} /\ session[o] = "none"
    /\ ~ctxDone[o]
    /\ session' = [session EXCEPT ![o] = "starting"]
    /\ Invoke(o, "ensure", model[o])
    /\ UNCHANGED <<vars, result, pid, main>>

\* Infer after admission: ctx.Err() is nil, adapter.Start calls ensureProcess.
StartSession(o) ==
    /\ adm[o] = "inflight" /\ session[o] = "none"
    /\ ~ctxDone[o]
    /\ session' = [session EXCEPT ![o] = "starting"]
    /\ Invoke(o, "ensure", model[o])
    /\ UNCHANGED <<vars, result, pid, main>>

OpenSession(o) ==
    /\ session[o] = "starting" /\ Returned(o) /\ result[o]
    /\ session' = [session EXCEPT ![o] = "open"]
    /\ UNCHANGED <<vars, adapterVars, result, pid, main>>

\* Infer returns and releases its slots: the context was done, Start failed,
\* or generation is over.
EndSession(o) ==
    /\ \/ session[o] = "none" /\ ctxDone[o]
       \/ session[o] = "starting" /\ Returned(o) /\ ~result[o]
       \/ session[o] = "open"
    /\ EndGeneration(o)
    /\ session' = [session EXCEPT ![o] = "none"]
    /\ UNCHANGED <<adapterVars, result, pid, main>>

OpStep(o) ==
    \/ ManagerStep(o) \/ LoadSpawns(o) \/ Spawned(o) \/ SpawnFails(o)
    \/ StopVictim(o) \/ VictimGone(o) \/ StopUnloaded(o) \/ UnloadGone(o)
    \/ StartSession(o) \/ OpenSession(o) \/ EndSession(o)

-----------------------------------------------------------------------------
(* Calls and shutdown.                                                     *)

Idle(o) == pc[o] = "idle" /\ adm[o] = "idle"

\* The listener accepts until srv.Shutdown.
Arrive(o) ==
    /\ main = "serving" \/ (main = "stopping" /\ ~Quiet)
    /\ Call(o)
    /\ UNCHANGED <<adapterVars, shellVars>>

\* A client goes away, or the base context was canceled.
LoseCtx(o) == EndCtx(o) /\ UNCHANGED <<adapterVars, shellVars>>

\* SIGINT or SIGTERM: baseCancel() and StopAllInstances().
Signal ==
    /\ main = "serving"
    /\ Quiet => \A o \in Requests : Idle(o)
    /\ Invoke(Main, "stopAll", NoModel)
    /\ main' = "stopping"
    /\ UNCHANGED <<vars, result, session, pid>>

StopAllReturns ==
    /\ main = "stopping" /\ Returned(Main)
    /\ main' = "draining"
    /\ UNCHANGED <<vars, adapterVars, result, session, pid>>

\* srv.Shutdown returns: every handler has ended, or the timeout is over.
Exit ==
    /\ main = "draining"
    /\ main' = "exited"
    /\ UNCHANGED <<vars, adapterVars, result, session, pid>>

Over == main = "exited" /\ UNCHANGED svars

SpawnNext ==
    \/ /\ main # "exited"
       /\ \/ \E o \in Requests : Arrive(o) \/ LoseCtx(o) \/ OpStep(o)
          \/ \E c \in Requests \cup {Main} : AdapterStep(c)
          \/ Signal \/ StopAllReturns \/ Exit
    \/ \E p \in Procs : ProcStep(p)
    \/ Over

SpawnSpec == SpawnInit /\ [][SpawnNext]_svars

\* Goroutines are scheduled, processes bind or exit, generations end, and a
\* canceled base context reaches every handler.
SpawnFairSpec ==
    /\ SpawnSpec
    /\ \A o \in Requests :
        /\ WF_svars(main # "exited" /\ OpStep(o))
        /\ WF_svars(main \in {"stopping", "draining"} /\ LoseCtx(o))
    /\ \A c \in Requests \cup {Main} : WF_svars(main # "exited" /\ AdapterStep(c))
    /\ \A p \in Procs : WF_svars(A!Bind(p) /\ UNCHANGED <<vars, shellVars>>)
    /\ WF_svars(StopAllReturns \/ Exit)

-----------------------------------------------------------------------------
(* Properties.                                                             *)

\* A model that the manager reports as ready has a llama-server that serves,
\* and its PID is the one /status tells, but while an eviction stops it.
ReadyHasServer ==
    main = "serving" =>
        \A m \in Mapped : IsReady(m) =>
            \/ \E o \in Requests : pc[o] = "stopVictim" /\ victim[o] = m
            \/ /\ procs[m] # NoProc /\ status[procs[m]] = "serving"
               /\ pid[instances[m]] = procs[m]

\* Between calls no process runs for a model without an instance, where the
\* manager would neither evict nor unload it.
ProcessesAccounted ==
    main = "serving" /\ (\A o \in Requests : Idle(o)) =>
        \A p \in A!Live \ abandoned : modelOf[p] \in Mapped /\ procs[modelOf[p]] = p

\* While a request generates, the llama-server of its model serves on the
\* port that Start returned.
GenerationHasServer ==
    \A o \in Requests : session[o] = "open" /\ main = "serving" =>
        \E p \in Procs :
            status[p] = "serving" /\ modelOf[p] = model[o] /\ portOf[p] = aport[o]

\* The processes that run fit the budget, as the instances do.
ServersFitBudget ==
    BudgetMB > 0 =>
        MapThenSumSet(LAMBDA p : Est[modelOf[p]], A!Live) + MarginMB <= BudgetMB

\* Graceful shutdown leaves no llama-server behind, but one that missed the
\* readiness deadline.
NoProcessLeft == main = "exited" => A!Live \subseteq abandoned

\* After the signal modeld exits.
ShutdownEnds == main = "stopping" ~> main = "exited"

-----------------------------------------------------------------------------
(* The inductive invariants behind them.                                   *)

Callers == Requests \cup {Main}

\* An admitted request names a registered model and is past EnsureInstance; a
\* session belongs to the request in flight.
Admitted ==
    \A o \in Requests :
        /\ adm[o] # "idle" => model[o] \in Models /\ pc[o] = "idle"
        /\ session[o] # "none" => adm[o] = "inflight"

\* Who may be inside the adapter: an operation at one of its calls, while the
\* server serves, or main after the signal.
Inside ==
    /\ \A o \in Requests :
        /\ apc[o] # "idle" => \/ pc[o] \in {"spawn", "stopVictim", "stopUnload"}
                              \/ session[o] = "starting"
        /\ main # "serving" => Idle(o)
    /\ apc[Main] # "idle" => main = "stopping"

\* What an operation asked the adapter for.
Asked ==
    \A o \in Requests : apc[o] # "idle" =>
        \/ /\ pc[o] = "spawn" \/ session[o] = "starting"
           /\ akind[o] = "ensure" /\ apath[o] = model[o]
        \/ pc[o] = "stopVictim" /\ akind[o] = "stop" /\ apath[o] = victim[o]
        \/ pc[o] = "stopUnload" /\ akind[o] = "stop" /\ apath[o] = model[o]

\* StopAll was called for all that ran, and leaves nothing.
Swept ==
    /\ main = "stopping" /\ apc[Main] # "idle"
           => akind[Main] = "stopAll" /\ A!Live \subseteq aalive[Main]
    /\ main = "stopping" /\ apc[Main] = "idle" => A!Live \subseteq abandoned
    /\ main \in {"draining", "exited"} => A!Live \subseteq abandoned

\* A process runs for a model that has an instance: it comes after the
\* instance ...
RunningMapped == \A p \in A!Live \ abandoned : modelOf[p] \in Mapped

\* ... and goes before it, and the instance stays while a request uses it.
Vacated ==
    \A o \in Requests :
        /\ adm[o] # "idle" => model[o] \in Mapped
        /\ pc[o] = "stopVictim" /\ apc[o] = "idle" => procs[victim[o]] = NoProc
        /\ pc[o] = "stopUnload" /\ apc[o] = "idle" => procs[model[o]] = NoProc
        /\ pc[o] = "remove" => procs[model[o]] = NoProc

\* The llama-server of m is up and a.procs has it.
HasServer(m) == procs[m] # NoProc /\ status[procs[m]] = "serving"

\* Unload works on the instance that it marked, and no two keys share one.
Marked ==
    /\ \A o \in Requests :
        pc[o] \in {"drain", "stopUnload", "remove"} =>
            instances[model[o]] = inst[o] /\ instState[inst[o]] = "draining"
    /\ \A m, n \in Mapped : instances[m] = instances[n] => m = n

\* The server is there from the return of ensureProcess on.
Backed ==
    main = "serving" =>
        /\ \A o \in Requests :
            /\ pc[o] = "spawn" /\ apc[o] = "idle" /\ result[o] => HasServer(model[o])
            /\ pc[o] = "warm" => HasServer(model[o]) /\ pid[inst[o]] = procs[model[o]]
            /\ \/ session[o] = "open"
               \/ session[o] = "starting" /\ apc[o] = "idle" /\ result[o]
               => HasServer(model[o]) /\ portOf[procs[model[o]]] = aport[o]
        /\ \A m \in Mapped : IsReady(m) =>
            \/ \E o \in Requests : pc[o] = "stopVictim" /\ victim[o] = m
            \/ HasServer(m) /\ pid[instances[m]] = procs[m]
=============================================================================
