----------------------------- MODULE Subprocess -----------------------------
(***************************************************************************)
(* Spawn mode: the llama-server processes that                             *)
(* src/internal/manager/adapter_llama_subprocess.go starts, watches and    *)
(* stops, one per model path.                                              *)
(*                                                                         *)
(* A step of a caller is one critical section of a.mu, one HTTP health     *)
(* check or one system call.  a.mu is a sync.Mutex, which is not           *)
(* reentrant; every critical section but one is a single step, so mu is    *)
(* held between steps only where ensureProcess calls Stop.                 *)
(***************************************************************************)
EXTENDS Naturals, FiniteSets

CONSTANTS
    Callers,        \* goroutines that use the adapter
    Paths,          \* model paths
    Ports,          \* numbers of the ports that can be picked
    Procs,          \* processes and their procInfo, one per spawn
    Nobody,         \* an unlocked a.mu
    NoProc,         \* a nil *procInfo
    NoPath,         \* no argument
    Kinds,          \* which of "ensure", "stop", "stopAll" are called
    Exclusive,      \* kinds of calls that never overlap on a path
    CanCrash,       \* a process may die by itself
    SlowHealth,     \* a health check may time out though the server is up
    SlowStart,      \* a process may miss the 30 s readiness deadline
    MaxCalls        \* bound: number of calls in a behaviour

ASSUME PortsAssumption == Ports \subseteq Nat \ {0}
ASSUME NilAssumption == NoProc \notin Procs /\ Nobody \notin Callers /\ NoPath \notin Paths
ASSUME CallsAssumption == MaxCalls \in Nat /\ Exclusive \subseteq Kinds

VARIABLES
    mu,             \* who holds a.mu
    procs,          \* a.procs
    ready,          \* procInfo.ready
    status,         \* the operating system's view of a process
    modelOf,        \* the -m argument of a process
    portOf,         \* its --port argument, and the port of procInfo.baseURL
    pc,             \* next step of a caller
    kind,           \* what was called
    path,           \* its modelPath
    proc,           \* its local procInfo or cmd
    port,           \* its local port or base
    todo,           \* paths that StopAll still has to stop
    alive,          \* history: processes that ran when StopAll was called
    calls,          \* number of calls so far
    abandoned       \* history: processes given up at the readiness deadline

osVars == <<status, modelOf, portOf>>
locals == <<kind, path, proc, port, todo, alive>>
vars == <<mu, procs, ready, osVars, pc, locals, calls, abandoned>>

Live == {p \in Procs : status[p] \in {"starting", "serving"}}

TypeOK ==
    /\ mu \in Callers \cup {Nobody}
    /\ procs \in [Paths -> Procs \cup {NoProc}]
    /\ ready \in [Procs -> BOOLEAN]
    /\ status \in [Procs -> {"unused", "starting", "serving", "dead"}]
    /\ modelOf \in [Procs -> Paths \cup {NoPath}]
    /\ portOf \in [Procs -> Ports \cup {0}]
    /\ pc \in [Callers -> {"idle", "enter", "healthReady", "healthNew", "pick",
                           "start", "save", "watch", "poll", "mark",
                           "stop", "kill", "forget", "snapshot"}]
    /\ kind \in [Callers -> {"ensure", "stop", "stopAll"}]
    /\ path \in [Callers -> Paths \cup {NoPath}]
    /\ proc \in [Callers -> Procs \cup {NoProc}]
    /\ port \in [Callers -> Ports \cup {0}]
    /\ todo \in [Callers -> SUBSET Paths]
    /\ alive \in [Callers -> SUBSET Procs]
    /\ calls \in 0..MaxCalls
    /\ abandoned \subseteq Procs
    /\ \A p \in Live : portOf[p] \in Ports /\ modelOf[p] \in Paths

Init ==
    /\ mu = Nobody
    /\ procs = [m \in Paths |-> NoProc]
    /\ ready = [p \in Procs |-> FALSE]
    /\ status = [p \in Procs |-> "unused"]
    /\ modelOf = [p \in Procs |-> NoPath]
    /\ portOf = [p \in Procs |-> 0]
    /\ pc = [c \in Callers |-> "idle"]
    /\ kind = [c \in Callers |-> "ensure"]
    /\ path = [c \in Callers |-> NoPath]
    /\ proc = [c \in Callers |-> NoProc]
    /\ port = [c \in Callers |-> 0]
    /\ todo = [c \in Callers |-> {}]
    /\ alive = [c \in Callers |-> {}]
    /\ calls = 0
    /\ abandoned = {}

-----------------------------------------------------------------------------
Goto(c, next) == pc' = [pc EXCEPT ![c] = next]

\* A critical section that is one step.
Locked == mu = Nobody /\ UNCHANGED mu

\* Some server answers on port n: whose it is, nobody asks.
Listening(n) == \E p \in Procs : status[p] = "serving" /\ portOf[p] = n

\* A new process.  There are as many as needed: the pool is a bound.
HaveFresh == \E p \in Procs : status[p] = "unused"
Fresh == CHOOSE p \in Procs : status[p] = "unused"

\* delete(a.procs, m)
Forget(m) == procs' = [procs EXCEPT ![m] = NoProc]

-----------------------------------------------------------------------------
(* Calls.                                                                  *)

\* A call of kind k on path m may start: no exclusive call has the path.
Free(k, m) ==
    k \in Exclusive =>
        \A c \in Callers : pc[c] = "idle" \/ kind[c] \notin Exclusive
                            \/ (path[c] # m /\ "stopAll" \notin {k, kind[c]})

NewCall(c, k, m, first) ==
    /\ k \in Kinds
    /\ pc[c] = "idle"
    /\ calls < MaxCalls
    /\ calls' = calls + 1
    /\ kind' = [kind EXCEPT ![c] = k]
    /\ path' = [path EXCEPT ![c] = m]
    /\ proc' = [proc EXCEPT ![c] = NoProc]
    /\ port' = [port EXCEPT ![c] = 0]
    /\ alive' = [alive EXCEPT ![c] = IF k = "stopAll" THEN Live ELSE {}]
    /\ Goto(c, first)
    /\ UNCHANGED <<mu, procs, ready, osVars, todo, abandoned>>

CallEnsure(c) ==
    \E m \in Paths : Free("ensure", m) /\ NewCall(c, "ensure", m, "enter")
CallStop(c) ==
    \E m \in Paths : Free("stop", m) /\ NewCall(c, "stop", m, "stop")
CallStopAll(c) == Free("stopAll", NoPath) /\ NewCall(c, "stopAll", NoPath, "snapshot")

-----------------------------------------------------------------------------
(* ensureProcess.                                                          *)

\* The first critical section: is there an entry?
Enter(c) ==
    LET p == procs[path[c]] IN
    /\ pc[c] = "enter"
    /\ Locked
    /\ \/ /\ p = NoProc
          /\ Goto(c, "pick")
          /\ UNCHANGED <<proc, port>>
       \/ /\ p # NoProc
          /\ proc' = [proc EXCEPT ![c] = p]
          /\ port' = [port EXCEPT ![c] = portOf[p]]
          /\ Goto(c, IF ready[p] THEN "healthReady" ELSE "healthNew")
    /\ UNCHANGED <<procs, ready, osVars, kind, path, todo, alive, calls, abandoned>>

\* isHealthy on the entry's baseURL succeeds.  An entry that was not ready
\* becomes ready in a critical section of its own, whatever entry is there.
FoundHealthy(c) ==
    /\ pc[c] \in {"healthReady", "healthNew"}
    /\ Listening(port[c])
    /\ Goto(c, IF pc[c] = "healthReady" THEN "idle" ELSE "mark")
    /\ UNCHANGED <<mu, procs, ready, osVars, locals, calls, abandoned>>

\* isHealthy fails: a.mu.Lock() and then a.Stop(modelPath), whose first
\* statement locks a.mu again.
FoundUnhealthy(c) ==
    /\ pc[c] \in {"healthReady", "healthNew"}
    /\ ~Listening(port[c]) \/ SlowHealth
    /\ mu = Nobody
    /\ mu' = c
    /\ Goto(c, "stop")
    /\ UNCHANGED <<procs, ready, osVars, locals, calls, abandoned>>

\* Mutation: the error of the port search is ignored.
PickPort_NoError(c) ==
    LET free == {n \in Ports : ~Listening(n)} IN
    /\ pc[c] = "pick"
    /\ \E n \in (IF free = {} THEN {0} ELSE free) : port' = [port EXCEPT ![c] = n]
    /\ Goto(c, "start")
    /\ UNCHANGED <<mu, procs, ready, osVars, kind, path, proc, todo, alive, calls, abandoned>>

\* Mutation: the port is not tried with net.Listen.
PickPort_Untested(c) ==
    /\ pc[c] = "pick"
    /\ \E n \in Ports : port' = [port EXCEPT ![c] = n]
    /\ Goto(c, "start")
    /\ UNCHANGED <<mu, procs, ready, osVars, kind, path, proc, todo, alive, calls, abandoned>>

\* pickPortInRange or pickFreePort: a port that can be bound now, not kept.
PickPort(c) ==
    LET free == {n \in Ports : ~Listening(n)} IN
    /\ pc[c] = "pick"
    /\ \/ \E n \in free :
            /\ port' = [port EXCEPT ![c] = n]
            /\ Goto(c, "start")
       \/ /\ free = {}
          /\ Goto(c, "idle")
          /\ UNCHANGED port
    /\ UNCHANGED <<mu, procs, ready, osVars, kind, path, proc, todo, alive, calls, abandoned>>

\* cmd.Start()
StartProc(c) ==
    /\ pc[c] = "start"
    /\ HaveFresh
    /\ proc' = [proc EXCEPT ![c] = Fresh]
    /\ status' = [status EXCEPT ![Fresh] = "starting"]
    /\ modelOf' = [modelOf EXCEPT ![Fresh] = path[c]]
    /\ portOf' = [portOf EXCEPT ![Fresh] = port[c]]
    /\ Goto(c, "save")
    /\ UNCHANGED <<mu, procs, ready, kind, path, port, todo, alive, calls, abandoned>>

\* cmd.Start() returns an error: nothing was started.
StartFails(c) ==
    /\ pc[c] = "start"
    /\ Goto(c, "idle")
    /\ UNCHANGED <<mu, procs, ready, osVars, locals, calls, abandoned>>

\* a.procs[modelPath] = &procInfo{..., ready: false}
SaveProc(c) ==
    /\ pc[c] = "save"
    /\ Locked
    /\ procs' = [procs EXCEPT ![path[c]] = proc[c]]
    /\ Goto(c, "watch")
    /\ UNCHANGED <<ready, osVars, locals, calls, abandoned>>

\* Top of the readiness loop: the process has exited, or not.
WatchExited(c) ==
    /\ pc[c] = "watch"
    /\ status[proc[c]] = "dead"
    /\ Locked
    /\ Forget(path[c])
    /\ Goto(c, "idle")
    /\ UNCHANGED <<ready, osVars, locals, calls, abandoned>>

WatchAlive(c) ==
    /\ pc[c] = "watch"
    /\ status[proc[c]] # "dead"
    /\ Goto(c, "poll")
    /\ UNCHANGED <<mu, procs, ready, osVars, locals, calls, abandoned>>

\* The deadline is over: the entry is dropped, the process is left alone.
WatchTimeout(c) ==
    /\ pc[c] = "watch"
    /\ SlowStart
    /\ Locked
    /\ Forget(path[c])
    /\ abandoned' = abandoned \cup {proc[c]}
    /\ Goto(c, "idle")
    /\ UNCHANGED <<ready, osVars, locals, calls>>

\* Mutation: no answer of the server counts as ready.
Poll_NeverReady(c) ==
    /\ pc[c] = "poll"
    /\ Goto(c, "watch")
    /\ UNCHANGED <<mu, procs, ready, osVars, locals, calls, abandoned>>

\* GET baseURL/v1/models
Poll(c) ==
    /\ pc[c] = "poll"
    /\ \/ Listening(port[c]) /\ Goto(c, "mark")
       \/ (~Listening(port[c]) \/ SlowHealth) /\ Goto(c, "watch")
    /\ UNCHANGED <<mu, procs, ready, osVars, locals, calls, abandoned>>

\* if p := a.procs[modelPath]; p != nil { p.ready = true }; return baseURL
MarkReady(c) ==
    LET p == procs[path[c]] IN
    /\ pc[c] = "mark"
    /\ Locked
    /\ ready' = IF p = NoProc THEN ready ELSE [ready EXCEPT ![p] = TRUE]
    /\ Goto(c, "idle")
    /\ UNCHANGED <<procs, osVars, locals, calls, abandoned>>

-----------------------------------------------------------------------------
(* Stop and StopAll.                                                       *)

\* Mutation: the loop of StopAll does not advance.
StopReturns_Loops(c) ==
    IF todo[c] = {}
    THEN /\ Goto(c, "idle")
         /\ UNCHANGED <<path, todo>>
    ELSE \E m \in todo[c] :
            /\ path' = [path EXCEPT ![c] = m]
            /\ Goto(c, "stop")
            /\ UNCHANGED todo

\* Mutation: StopAll returns after its first path.
StopReturns_First(c) ==
    /\ Goto(c, "idle")
    /\ todo' = [todo EXCEPT ![c] = {}]
    /\ UNCHANGED path

\* StopAll goes on with the next path; any other call returns.
StopReturns(c) ==
    IF todo[c] = {}
    THEN /\ Goto(c, "idle")
         /\ UNCHANGED <<path, todo>>
    ELSE \E m \in todo[c] :
            /\ path' = [path EXCEPT ![c] = m]
            /\ todo' = [todo EXCEPT ![c] = @ \ {m}]
            /\ Goto(c, "stop")

StopLookup(c) ==
    LET p == procs[path[c]] IN
    /\ pc[c] = "stop"
    /\ Locked
    /\ \/ /\ p = NoProc
          /\ StopReturns(c)
          /\ UNCHANGED proc
       \/ /\ p # NoProc
          /\ proc' = [proc EXCEPT ![c] = p]
          /\ Goto(c, "kill")
          /\ UNCHANGED <<path, todo>>
    /\ UNCHANGED <<procs, ready, osVars, kind, port, alive, calls, abandoned>>

\* Mutation: a process that ignores SIGTERM is not killed.
KillProc_TermOnly(c) ==
    /\ pc[c] = "kill"
    /\ Goto(c, "forget")
    /\ UNCHANGED <<mu, procs, ready, osVars, locals, calls, abandoned>>

\* SIGTERM, then after two seconds SIGKILL: the process is gone when Wait
\* returns.
KillProc(c) ==
    /\ pc[c] = "kill"
    /\ status' = [status EXCEPT ![proc[c]] = "dead"]
    /\ Goto(c, "forget")
    /\ UNCHANGED <<mu, procs, ready, modelOf, portOf, locals, calls, abandoned>>

\* delete(a.procs, modelPath), whatever entry is there by now.
StopForget(c) ==
    /\ pc[c] = "forget"
    /\ Locked
    /\ Forget(path[c])
    /\ StopReturns(c)
    /\ UNCHANGED <<ready, osVars, kind, proc, port, alive, calls, abandoned>>

\* The keys of a.procs, collected under the lock.
StopAllSnapshot(c) ==
    LET keys == {m \in Paths : procs[m] # NoProc} IN
    /\ pc[c] = "snapshot"
    /\ Locked
    /\ \/ /\ keys = {}
          /\ Goto(c, "idle")
          /\ UNCHANGED <<path, todo>>
       \/ \E m \in keys :
            /\ path' = [path EXCEPT ![c] = m]
            /\ todo' = [todo EXCEPT ![c] = keys \ {m}]
            /\ Goto(c, "stop")
    /\ UNCHANGED <<procs, ready, osVars, kind, proc, port, alive, calls, abandoned>>

-----------------------------------------------------------------------------
(* The processes.                                                          *)

\* A started process binds its port, or exits because the port is taken.
Bind(p) ==
    /\ status[p] = "starting"
    /\ status' = [status EXCEPT ![p] = IF Listening(portOf[p]) THEN "dead" ELSE "serving"]
    /\ UNCHANGED <<mu, procs, ready, modelOf, portOf, pc, locals, calls, abandoned>>

Crash(p) ==
    /\ CanCrash
    /\ p \in Live
    /\ status' = [status EXCEPT ![p] = "dead"]
    /\ UNCHANGED <<mu, procs, ready, modelOf, portOf, pc, locals, calls, abandoned>>

-----------------------------------------------------------------------------
Call(c) == CallEnsure(c) \/ CallStop(c) \/ CallStopAll(c)

Progress(c) ==
    \/ Enter(c) \/ FoundHealthy(c) \/ FoundUnhealthy(c)
    \/ PickPort(c) \/ StartProc(c) \/ StartFails(c) \/ SaveProc(c)
    \/ WatchExited(c) \/ WatchAlive(c) \/ WatchTimeout(c) \/ Poll(c) \/ MarkReady(c)
    \/ StopLookup(c) \/ KillProc(c) \/ StopForget(c) \/ StopAllSnapshot(c)

AtRest ==
    /\ calls = MaxCalls
    /\ \A c \in Callers : pc[c] = "idle"
    /\ UNCHANGED vars

Next ==
    \/ \E c \in Callers : Call(c) \/ Progress(c)
    \/ \E p \in Procs : Bind(p) \/ Crash(p)
    \/ AtRest

Spec == Init /\ [][Next]_vars

\* Goroutines are scheduled, a process that was started binds its port or
\* exits, and the readiness deadline comes however often the server is asked
\* before.  No step but the one that never releases a.mu keeps it, so weak
\* fairness is enough to get it.
FairSpec ==
    /\ Spec
    /\ \A c \in Callers : WF_vars(Progress(c)) /\ SF_vars(WatchTimeout(c))
    /\ \A p \in Procs : WF_vars(Bind(p))

-----------------------------------------------------------------------------
(* Properties.                                                             *)

\* Every call of the adapter returns.
CallsReturn == \A c \in Callers : pc[c] # "idle" ~> pc[c] = "idle"

\* One thing only keeps a call from returning: a.mu was lost to the call of
\* Stop inside ensureProcess.  Neither a slow or dead server, nor a port that
\* is taken, nor the calls of others do.
ReturnsUnlessWedged ==
    \A c \in Callers : pc[c] # "idle" ~> pc[c] = "idle" \/ mu # Nobody

\* A process that a.procs knows, or that its starter is about to put there.
Accounted(p) ==
    \/ procs[modelOf[p]] = p
    \/ \E c \in Callers : pc[c] = "save" /\ proc[c] = p

\* No process is lost: a running llama-server can be found and stopped, but
\* for the one that missed the readiness deadline.
NoLeak == \A p \in Live \ abandoned : Accounted(p)

\* ... and not even that one is.
NoLeakAtAll == \A p \in Live : Accounted(p)

\* The base URL that ensureProcess returns is not that of another model's
\* server.
RightServer ==
    [][\A c \in Callers :
          pc[c] \in {"healthReady", "mark"} /\ pc'[c] = "idle" =>
              \A p \in Procs : status[p] = "serving" /\ portOf[p] = port[c]
                  => modelOf[p] = path[c]]_vars

\* StopAll stops every process that ran when it was called and was not given
\* up at the readiness deadline.
StopAllStops ==
    [][\A c \in Callers :
          kind[c] = "stopAll" /\ pc[c] # "idle" /\ pc'[c] = "idle"
              => \A p \in alive[c] \ abandoned : status'[p] = "dead"]_vars

-----------------------------------------------------------------------------
(* The inductive invariants behind NoLeak and StopAllStops.                *)

\* What a caller relies on at each of its steps: its path, its port, and a
\* process that it started or found.
Placed ==
    \A c \in Callers :
        /\ pc[c] \notin {"idle", "snapshot"} => path[c] \in Paths
        /\ pc[c] \in {"healthReady", "healthNew", "save", "watch", "poll", "mark", "kill", "forget"}
               => proc[c] \in Procs /\ status[proc[c]] # "unused"
        /\ pc[c] = "start" => port[c] \in Ports
        /\ pc[c] = "save" => modelOf[proc[c]] = path[c]
        /\ kind[c] # "ensure" => pc[c] \in {"idle", "snapshot", "stop", "kill", "forget"}
        /\ pc[c] = "snapshot" => kind[c] = "stopAll"
        /\ pc[c] # "idle" => kind[c] \in Kinds
        /\ todo[c] # {} => kind[c] = "stopAll" /\ pc[c] \notin {"idle", "snapshot"}

\* An entry of a.procs is a process that was started for its key.
EntriesOK ==
    \A m \in Paths :
        procs[m] # NoProc => modelOf[procs[m]] = m /\ status[procs[m]] # "unused"

\* Holds in every configuration.
SubInv == TypeOK /\ Placed /\ EntriesOK

\* Calls that are under way together work on different paths.
Alone ==
    \A c, d \in Callers :
        c # d /\ pc[c] # "idle" /\ pc[d] # "idle"
            => path[c] # path[d] /\ "stopAll" \notin {kind[c], kind[d]}

\* So a caller finds in a.procs what it found or put there before.
Steady ==
    \A c \in Callers :
        /\ pc[c] \in {"pick", "start", "save"} => procs[path[c]] = NoProc
        /\ pc[c] \in {"healthReady", "healthNew", "watch", "poll", "mark", "kill", "forget"}
               => procs[path[c]] = proc[c]
        /\ pc[c] = "forget" => status[proc[c]] = "dead"

\* StopAll has stopped, or will come to, what ran when it was called.
Sweep ==
    \A c \in Callers :
        kind[c] = "stopAll" /\ pc[c] # "idle" =>
            \A p \in alive[c] \ abandoned :
                \/ status[p] = "dead"
                \/ /\ p \in Live /\ procs[modelOf[p]] = p
                   /\ pc[c] # "snapshot" => modelOf[p] \in todo[c] \cup {path[c]}

\* At most one call is under way.
Single == \A c, d \in Callers : pc[c] # "idle" /\ pc[d] # "idle" => c = d

\* Then, when no process dies by itself and no answer is late, ports do not
\* clash, a started process comes up while its starter waits for it, and an
\* entry of a.procs is a process that runs until it is stopped.
Healthy ==
    /\ \A p, q \in Live : portOf[p] = portOf[q] => p = q
    /\ \A p \in Procs : status[p] = "starting" =>
           \E c \in Callers : pc[c] \in {"save", "watch", "poll"} /\ proc[c] = p
    /\ \A m \in Paths : procs[m] # NoProc =>
           procs[m] \in Live \/ \E c \in Callers : pc[c] = "forget" /\ path[c] = m
    /\ \A c \in Callers :
        /\ pc[c] = "start" => \A p \in Live : portOf[p] # port[c]
        /\ pc[c] \in {"save", "watch", "poll", "mark", "healthReady", "healthNew"} =>
               proc[c] \in Live /\ portOf[proc[c]] = port[c]
        /\ pc[c] \in {"mark", "healthReady", "healthNew"} => status[proc[c]] = "serving"
        /\ pc[c] \in {"stop", "kill", "forget"} => kind[c] # "ensure"
=============================================================================
