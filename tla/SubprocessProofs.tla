-------------------------- MODULE SubprocessProofs --------------------------
(* Proofs about module Subprocess, for any callers, models, ports and      *)
(* processes.                                                              *)
EXTENDS Subprocess, TLAPS

-----------------------------------------------------------------------------
(* Typing, and what a caller relies on.  No assumption about which calls   *)
(* overlap.                                                                *)

\* A started process is new, and there is one.
LEMMA FreshIsNew ==
    ASSUME HaveFresh
    PROVE  Fresh \in Procs /\ status[Fresh] = "unused"
    BY DEF HaveFresh, Fresh

\* Calls set up their local variables.
LEMMA NewCallKeepsInv ==
    ASSUME SubInv, NEW c \in Callers, NEW k, NEW m, NEW first, NewCall(c, k, m, first),
           \/ k = "ensure" /\ first = "enter" /\ m \in Paths
           \/ k = "stop" /\ first = "stop" /\ m \in Paths
           \/ k = "stopAll" /\ first = "snapshot" /\ m = NoPath
    PROVE  SubInv'
<1> USE DEF SubInv, TypeOK, Placed, EntriesOK, Live
<1>1. TypeOK'
    BY CallsAssumption DEF NewCall, Goto, osVars
<1>2. Placed'
    BY DEF NewCall, Goto, osVars
<1>3. EntriesOK'
    BY DEF NewCall, osVars
<1> QED
    BY <1>1, <1>2, <1>3

\* So does every call.
LEMMA CallKeepsInv ==
    ASSUME SubInv, NEW c \in Callers, Call(c)
    PROVE  SubInv'
<1>2. CASE CallEnsure(c)
    BY <1>2, NewCallKeepsInv DEF CallEnsure
<1>3. CASE CallStop(c)
    BY <1>3, NewCallKeepsInv DEF CallStop
<1>4. CASE CallStopAll(c)
    BY <1>4, NewCallKeepsInv DEF CallStopAll
<1> QED
    BY <1>2, <1>3, <1>4 DEF Call

\* ensureProcess keeps the invariant.
LEMMA EnsureKeepsInv ==
    ASSUME SubInv, NEW c \in Callers,
           \/ Enter(c) \/ FoundHealthy(c) \/ FoundUnhealthy(c)
           \/ PickPort(c) \/ StartProc(c) \/ StartFails(c) \/ SaveProc(c)
           \/ WatchExited(c) \/ WatchAlive(c) \/ WatchTimeout(c) \/ Poll(c) \/ MarkReady(c)
    PROVE  SubInv'
<1> USE DEF SubInv, TypeOK, Placed, EntriesOK, Live, Goto, Locked
<1>1. CASE Enter(c)
    BY <1>1 DEF Enter, osVars
<1>2. CASE FoundHealthy(c) \/ FoundUnhealthy(c)
    BY <1>2 DEF FoundHealthy, FoundUnhealthy, osVars, locals
<1>3. CASE PickPort(c)
    BY <1>3 DEF PickPort, osVars
<1>4. CASE StartProc(c)
    <2> DEFINE f == Fresh
    <2>1. f \in Procs /\ status[f] = "unused"
        BY <1>4, FreshIsNew DEF StartProc
    <2>2. /\ pc[c] = "start" /\ path[c] \in Paths /\ port[c] \in Ports
          /\ proc' = [proc EXCEPT ![c] = f]
          /\ status' = [status EXCEPT ![f] = "starting"]
          /\ modelOf' = [modelOf EXCEPT ![f] = path[c]]
          /\ portOf' = [portOf EXCEPT ![f] = port[c]]
          /\ pc' = [pc EXCEPT ![c] = "save"]
          /\ UNCHANGED <<mu, procs, ready, kind, path, port, todo, alive, calls, abandoned>>
        BY <1>4 DEF StartProc
    <2> HIDE DEF f
    <2>3. TypeOK'
        BY <2>1, <2>2
    <2>4. Placed'
        BY <2>1, <2>2
    <2>5. EntriesOK'
        BY <2>1, <2>2
    <2> QED
        BY <2>3, <2>4, <2>5
<1>5. CASE StartFails(c) \/ WatchAlive(c) \/ Poll(c)
    BY <1>5 DEF StartFails, WatchAlive, Poll, osVars, locals
<1>6. CASE SaveProc(c)
    BY <1>6 DEF SaveProc, osVars, locals
<1>7. CASE WatchExited(c) \/ WatchTimeout(c)
    BY <1>7 DEF WatchExited, WatchTimeout, Forget, osVars, locals
<1>8. CASE MarkReady(c)
    BY <1>8 DEF MarkReady, osVars, locals
<1> QED
    BY <1>1, <1>2, <1>3, <1>4, <1>5, <1>6, <1>7, <1>8

\* Stop and StopAll keep it.
LEMMA StopKeepsInv ==
    ASSUME SubInv, NEW c \in Callers,
           StopLookup(c) \/ KillProc(c) \/ StopForget(c) \/ StopAllSnapshot(c)
    PROVE  SubInv'
<1> USE DEF SubInv, TypeOK, Placed, EntriesOK, Live, Goto, Locked
<1>1. CASE StopLookup(c)
    BY <1>1 DEF StopLookup, StopReturns, osVars
<1>2. CASE KillProc(c)
    BY <1>2 DEF KillProc, locals
<1>3. CASE StopForget(c)
    <2>1. TypeOK'
        BY <1>3 DEF StopForget, StopReturns, Forget, osVars
    <2>2. Placed'
        BY <1>3 DEF StopForget, StopReturns, osVars
    <2>3. EntriesOK'
        BY <1>3 DEF StopForget, Forget, osVars
    <2> QED
        BY <2>1, <2>2, <2>3
<1>4. CASE StopAllSnapshot(c)
    BY <1>4 DEF StopAllSnapshot, osVars
<1> QED
    BY <1>1, <1>2, <1>3, <1>4

\* So do the processes.
LEMMA ProcKeepsInv ==
    ASSUME SubInv, NEW p \in Procs, Bind(p) \/ Crash(p)
    PROVE  SubInv'
<1> USE DEF SubInv, TypeOK, Placed, EntriesOK, Live
<1>1. CASE Bind(p)
    BY <1>1 DEF Bind, locals
<1>2. CASE Crash(p)
    BY <1>2 DEF Crash, locals
<1> QED
    BY <1>1, <1>2

\* SubInv is inductive.
LEMMA StepKeepsInv == SubInv /\ [Next]_vars => SubInv'
<1> SUFFICES ASSUME SubInv, [Next]_vars
             PROVE  SubInv'
    OBVIOUS
<1>1. CASE AtRest \/ UNCHANGED vars
    BY <1>1 DEF AtRest, vars, osVars, locals, SubInv, TypeOK, Placed, EntriesOK, Live
<1>2. ASSUME NEW c \in Callers, Progress(c)
      PROVE  SubInv'
    BY <1>2, EnsureKeepsInv, StopKeepsInv DEF Progress
<1> QED
    BY <1>1, <1>2, CallKeepsInv, ProcKeepsInv DEF Next

\* It holds at the start.
LEMMA AdapterInvariantInit == Init => SubInv
    BY CallsAssumption DEF Init, SubInv, TypeOK, Placed, EntriesOK, Live

\* It holds in every state of every configuration.
THEOREM AdapterInvariant == Spec => []SubInv
    BY AdapterInvariantInit, StepKeepsInv, PTL DEF Spec

\* The adapter's variables keep their types; a running process has a port
\* and a model.
THEOREM AdapterTyping == Spec => []TypeOK
<1>1. SubInv => TypeOK
    BY DEF SubInv
<1> QED
    BY <1>1, AdapterInvariant, PTL

-----------------------------------------------------------------------------
(* When no two calls work on a path at the same time, which the manager    *)
(* has to see to.  The other case loses processes.                         *)

\* No two calls of any kind overlap on a path.
Disjoint == Kinds \subseteq Exclusive

\* What the calls that are kept apart preserve together.
ApartInv == SubInv /\ Alone /\ Steady /\ NoLeak /\ Sweep

\* A new call finds its path free, and StopAll finds every caller idle.
LEMMA CallIsAlone ==
    ASSUME SubInv, Disjoint, Alone, NEW c \in Callers, NEW k, NEW m, NEW first,
           Free(k, m), NewCall(c, k, m, first),
           NEW d \in Callers, pc[d] # "idle"
    PROVE  path[d] # m /\ "stopAll" \notin {k, kind[d]}
    BY DEF Disjoint, SubInv, TypeOK, Placed, Free, NewCall

\* A step of a call that is under way leaves the other callers alone.
LEMMA ProgressFrame ==
    ASSUME SubInv, NEW c \in Callers, Progress(c)
    PROVE  /\ pc[c] # "idle" /\ \A d \in Callers \ {c} : pc'[d] = pc[d] /\ path'[d] = path[d]
           /\ kind' = kind /\ alive' = alive /\ abandoned \subseteq abandoned'
           /\ path'[c] = path[c] \/ kind[c] = "stopAll"
    BY DEF Progress, Enter, FoundHealthy, FoundUnhealthy, PickPort, StartProc,
           StartFails, SaveProc, WatchExited, WatchAlive, WatchTimeout, Poll,
           MarkReady, StopLookup, KillProc, StopForget, StopAllSnapshot,
           StopReturns, locals, Goto, SubInv, TypeOK, Placed

\* Stop returns when its path has no entry.
LEMMA StopLeavesNone ==
    ASSUME SubInv, NEW c \in Callers, kind[c] = "stop", Progress(c), pc'[c] = "idle"
    PROVE  procs'[path[c]] = NoProc
<1> USE DEF SubInv, TypeOK, Placed
<1>1. StopLookup(c) \/ KillProc(c) \/ StopForget(c)
    BY DEF Progress, Enter, FoundHealthy, FoundUnhealthy, PickPort, StartProc, StartFails, SaveProc,
           WatchExited, WatchAlive, WatchTimeout, Poll, MarkReady, StopAllSnapshot
<1> QED
    BY <1>1 DEF StopLookup, KillProc, StopForget, Forget, Goto

\* Calls that are kept apart stay apart.
LEMMA StepKeepsAlone ==
    ASSUME SubInv, Disjoint, Alone, [Next]_vars
    PROVE  Alone'
<1> USE DEF Alone, SubInv, TypeOK, Placed, Goto
<1>1. ASSUME NEW c \in Callers, Call(c)
      PROVE  Alone'
    <2>1. ASSUME NEW k \in {"ensure", "stop", "stopAll"}, NEW m \in Paths \cup {NoPath},
                 NEW first, Free(k, m), NewCall(c, k, m, first)
          PROVE  Alone'
        <3>1. \A d \in Callers : pc[d] # "idle" => path[d] # m /\ "stopAll" \notin {k, kind[d]}
            BY <2>1, CallIsAlone
        <3> QED
            BY <2>1, <3>1 DEF NewCall
    <2> QED
        BY <1>1, <2>1 DEF Call, CallEnsure, CallStop, CallStopAll
<1>2. ASSUME NEW c \in Callers, Progress(c)
      PROVE  Alone'
    BY <1>2, ProgressFrame
<1>3. CASE UNCHANGED <<pc, kind, path>>
    BY <1>3
<1> QED
    BY <1>1, <1>2, <1>3 DEF Next, Bind, Crash, AtRest, vars, locals

\* A step of one caller leaves what the others found in a.procs, and no
\* running process drops out of it.
LEMMA CallerKeepsNoLeak ==
    ASSUME SubInv, Alone, Steady, NoLeak, NEW c \in Callers, Progress(c)
    PROVE  Steady' /\ NoLeak'
<1> USE DEF SubInv, TypeOK, Placed, EntriesOK, Alone, Goto, Locked
<1> DEFINE Quiet ==
               /\ UNCHANGED <<procs, status, modelOf, abandoned>>
               /\ \A d \in Callers \ {c} : pc'[d] = pc[d] /\ path'[d] = path[d] /\ proc'[d] = proc[d]
               /\ pc[c] # "save" /\ pc'[c] # "save"
               /\ pc'[c] \in {"pick", "start"} => procs[path'[c]] = NoProc
               /\ pc'[c] \in {"healthReady", "healthNew", "watch", "poll", "mark", "kill"}
                      => procs[path'[c]] = proc'[c]
               /\ pc'[c] # "forget"
<1>0. \A d \in Callers \ {c} : pc[d] # "idle" => path[d] # path[c]
    BY ProgressFrame
<1>1. ASSUME Quiet
      PROVE  Steady' /\ NoLeak'
    <2>1. Steady'
        BY <1>1 DEF Steady
    <2>2. NoLeak'
        BY <1>1 DEF NoLeak, Accounted, Live
    <2> QED
        BY <2>1, <2>2
<1>2. CASE Enter(c) \/ FoundHealthy(c) \/ FoundUnhealthy(c) \/ PickPort(c) \/ StartFails(c)
           \/ WatchAlive(c) \/ Poll(c) \/ MarkReady(c) \/ StopLookup(c) \/ StopAllSnapshot(c)
    <2>1. Quiet
        BY <1>2 DEF Steady, Enter, FoundHealthy, FoundUnhealthy, PickPort, StartFails, WatchAlive,
                    Poll, MarkReady, StopLookup, StopAllSnapshot, StopReturns, locals, osVars
    <2> QED
        BY <1>1, <2>1
<1>3. CASE StartProc(c)
    <2> DEFINE f == Fresh
    <2>1. f \in Procs /\ status[f] = "unused"
        BY <1>3, FreshIsNew DEF StartProc
    <2>2. /\ pc[c] = "start" /\ path[c] \in Paths
          /\ proc' = [proc EXCEPT ![c] = f]
          /\ status' = [status EXCEPT ![f] = "starting"]
          /\ modelOf' = [modelOf EXCEPT ![f] = path[c]]
          /\ pc' = [pc EXCEPT ![c] = "save"]
          /\ UNCHANGED <<procs, path, abandoned>>
        BY <1>3 DEF StartProc
    <2> HIDE DEF f
    <2>3. Steady'
        BY <2>1, <2>2 DEF Steady
    <2>4. NoLeak'
        <3> SUFFICES ASSUME NEW p \in Live' \ abandoned'
                     PROVE  Accounted(p)'
            BY DEF NoLeak
        <3>1. CASE p = f
            BY <2>1, <2>2, <3>1 DEF Accounted
        <3>2. CASE p # f
            <4>1. p \in Live \ abandoned /\ Accounted(p)
                BY <2>1, <2>2, <3>2 DEF NoLeak, Live
            <4> QED
                BY <2>1, <2>2, <3>2, <4>1 DEF Accounted
        <3> QED
            BY <3>1, <3>2
    <2> QED
        BY <2>3, <2>4
<1>4. CASE SaveProc(c)
    <2>1. Steady'
        BY <1>0, <1>4 DEF SaveProc, Steady, locals, osVars
    <2>2. NoLeak'
        <3> SUFFICES ASSUME NEW p \in Live' \ abandoned'
                     PROVE  Accounted(p)'
            BY DEF NoLeak
        <3>1. p \in Procs /\ Accounted(p) /\ modelOf[p] \in Paths
            BY <1>4 DEF SaveProc, NoLeak, Live, locals, osVars
        <3>2. procs[path[c]] = NoProc
            BY <1>4 DEF SaveProc, Steady
        <3> QED
            BY <1>4, <3>1, <3>2, NilAssumption DEF SaveProc, Accounted, locals, osVars
    <2> QED
        BY <2>1, <2>2
<1>5. ASSUME pc[c] \in {"watch", "forget"}, pc'[c] \in {"idle", "stop"},
             Forget(path[c]), status' = status, modelOf' = modelOf, proc' = proc,
             \A d \in Callers \ {c} : pc'[d] = pc[d] /\ path'[d] = path[d],
             abandoned \subseteq abandoned',
             status[proc[c]] = "dead" \/ proc[c] \in abandoned'
      PROVE  Steady' /\ NoLeak'
    <2>1. Steady'
        BY <1>0, <1>5 DEF Steady, Forget
    <2>2. NoLeak'
        <3> SUFFICES ASSUME NEW p \in Live' \ abandoned'
                     PROVE  Accounted(p)'
            BY DEF NoLeak
        <3>1. p \in Procs /\ Accounted(p) /\ modelOf[p] \in Paths
            BY <1>5 DEF NoLeak, Live
        <3>2. procs[path[c]] = proc[c] /\ proc[c] # p
            BY <1>5 DEF Steady, Live
        <3> QED
            BY <1>5, <3>1, <3>2 DEF Accounted, Forget
    <2> QED
        BY <2>1, <2>2
<1>6. CASE WatchExited(c) \/ WatchTimeout(c)
    BY <1>5, <1>6 DEF WatchExited, WatchTimeout, locals, osVars
<1>7. CASE StopForget(c)
    BY <1>5, <1>7 DEF StopForget, StopReturns, Steady, locals, osVars
<1>8. CASE KillProc(c)
    <2>1. Steady'
        BY <1>8 DEF KillProc, Steady, locals
    <2>2. NoLeak'
        BY <1>8 DEF KillProc, NoLeak, Accounted, Live, locals
    <2> QED
        BY <2>1, <2>2
<1> QED
    BY <1>2, <1>3, <1>4, <1>6, <1>7, <1>8 DEF Progress

\* So every step keeps them.
LEMMA StepKeepsNoLeak ==
    ASSUME SubInv, Disjoint, Alone, Steady, NoLeak, [Next]_vars
    PROVE  Steady' /\ NoLeak'
<1> USE DEF SubInv, TypeOK
<1>1. ASSUME NEW c \in Callers, Call(c)
      PROVE  Steady' /\ NoLeak'
    <2>1. ASSUME NEW k, NEW m, NEW first \in {"enter", "stop", "snapshot"}, NewCall(c, k, m, first)
          PROVE  Steady' /\ NoLeak'
        BY <2>1 DEF NewCall, Goto, Steady, NoLeak, Accounted, Live, osVars
    <2> QED
        BY <1>1, <2>1 DEF Call, CallEnsure, CallStop, CallStopAll
<1>2. ASSUME NEW p \in Procs, Bind(p) \/ Crash(p)
      PROVE  Steady' /\ NoLeak'
    <2>1. /\ status[p] # "dead" /\ p \in Live
          /\ \E s \in {"serving", "dead"} : status' = [status EXCEPT ![p] = s]
          /\ UNCHANGED <<procs, modelOf, pc, path, proc, abandoned>>
        BY <1>2 DEF Bind, Crash, Live, locals
    <2>2. Steady'
        BY <2>1 DEF Steady, Placed
    <2>3. NoLeak'
        BY <2>1 DEF NoLeak, Accounted, Live
    <2> QED
        BY <2>2, <2>3
<1>3. CASE AtRest \/ UNCHANGED vars
    BY <1>3 DEF AtRest, vars, osVars, locals, Steady, NoLeak, Accounted, Live
<1> QED
    BY <1>1, <1>2, <1>3, CallerKeepsNoLeak DEF Next

\* What StopAll has left to do covers what ran when it was called; when it
\* returns nothing is left.
LEMMA StopAllSweeps ==
    ASSUME ApartInv, NEW c \in Callers, kind[c] = "stopAll", Progress(c),
           NEW p \in alive[c] \ abandoned
    PROVE  \/ status'[p] = "dead"
           \/ /\ p \in Live' /\ procs'[modelOf'[p]] = p
              /\ pc'[c] \notin {"idle", "snapshot"}
              /\ modelOf'[p] \in todo'[c] \cup {path'[c]}
<1> USE DEF ApartInv, SubInv, TypeOK, Placed, EntriesOK, Goto, Locked
<1>1. pc[c] \in {"snapshot", "stop", "kill", "forget"}
    BY DEF Progress, Enter, FoundHealthy, FoundUnhealthy, PickPort, StartProc,
           StartFails, SaveProc, WatchExited, WatchAlive, WatchTimeout, Poll,
           MarkReady, StopLookup, KillProc, StopForget, StopAllSnapshot
<1>2. StopLookup(c) \/ KillProc(c) \/ StopForget(c) \/ StopAllSnapshot(c)
    BY <1>1 DEF Progress, Enter, FoundHealthy, FoundUnhealthy, PickPort, StartProc,
           StartFails, SaveProc, WatchExited, WatchAlive, WatchTimeout, Poll,
           MarkReady
<1>3. /\ p \in Procs
      /\ \/ status[p] = "dead"
         \/ /\ p \in Live /\ procs[modelOf[p]] = p /\ modelOf[p] \in Paths
            /\ pc[c] # "snapshot" => modelOf[p] \in todo[c] \cup {path[c]}
    BY <1>1 DEF Sweep
<1>4. CASE status[p] = "dead"
    BY <1>2, <1>3, <1>4 DEF StopLookup, KillProc, StopForget, StopAllSnapshot, osVars
<1>5. CASE status[p] # "dead" /\ StopAllSnapshot(c)
    <2>1. p # NoProc
        BY <1>3, NilAssumption
    <2>2. modelOf[p] \in {m \in Paths : procs[m] # NoProc}
        BY <1>3, <1>5, <2>1
    <2> QED
        BY <1>3, <1>5, <2>2 DEF StopAllSnapshot, Live, osVars
<1>6. CASE status[p] # "dead" /\ StopLookup(c)
    <2>1. p # NoProc
        BY <1>3, NilAssumption
    <2> QED
        BY <1>3, <1>6, <2>1 DEF StopLookup, StopReturns, Live, osVars
<1>7. CASE status[p] # "dead" /\ KillProc(c)
    BY <1>3, <1>7 DEF KillProc, Live, locals
<1>8. CASE status[p] # "dead" /\ StopForget(c)
    <2>1. procs[path[c]] = proc[c] /\ proc[c] # p
        BY <1>8 DEF StopForget, Steady
    <2>2. modelOf[p] # path[c] /\ modelOf[p] \in todo[c]
        BY <1>3, <1>8, <2>1 DEF StopForget
    <2> QED
        BY <1>3, <1>8, <2>2 DEF StopForget, StopReturns, Forget, Live, osVars
<1> QED
    BY <1>2, <1>4, <1>5, <1>6, <1>7, <1>8

\* Every step keeps the sweep of a StopAll that is under way.
LEMMA StepKeepsSweep ==
    ASSUME ApartInv, Disjoint, [Next]_vars
    PROVE  Sweep'
<1> USE DEF ApartInv, SubInv, TypeOK
<1> SUFFICES ASSUME NEW c \in Callers, kind'[c] = "stopAll", pc'[c] # "idle",
                    NEW p \in alive'[c] \ abandoned'
             PROVE  \/ status'[p] = "dead"
                    \/ /\ p \in Live' /\ procs'[modelOf'[p]] = p
                       /\ pc'[c] # "snapshot" => modelOf'[p] \in todo'[c] \cup {path'[c]}
    BY DEF Sweep
<1>1. ASSUME NEW d \in Callers, NEW k, NEW m, NEW first,
             first = "snapshot" <=> k = "stopAll", Free(k, m), NewCall(d, k, m, first)
      PROVE  \/ status'[p] = "dead"
             \/ /\ p \in Live' /\ procs'[modelOf'[p]] = p
                /\ pc'[c] # "snapshot" => modelOf'[p] \in todo'[c] \cup {path'[c]}
    <2>1. \A e \in Callers : pc[e] # "idle" => "stopAll" \notin {k, kind[e]}
        BY <1>1, CallIsAlone
    <2>2. c = d /\ k = "stopAll"
        BY <1>1, <2>1 DEF NewCall, Goto
    <2>3. p \in Live \ abandoned
        BY <1>1, <2>2 DEF NewCall
    <2>4. procs[modelOf[p]] = p
        BY <2>1, <2>2, <2>3 DEF NoLeak, Accounted
    <2> QED
        BY <1>1, <2>2, <2>3, <2>4 DEF NewCall, Goto, Live, osVars
<1>2. ASSUME NEW d \in Callers, Call(d)
      PROVE  \/ status'[p] = "dead"
             \/ /\ p \in Live' /\ procs'[modelOf'[p]] = p
                /\ pc'[c] # "snapshot" => modelOf'[p] \in todo'[c] \cup {path'[c]}
    BY <1>1, <1>2 DEF Call, CallEnsure, CallStop, CallStopAll
<1>3. ASSUME NEW d \in Callers, Progress(d)
      PROVE  \/ status'[p] = "dead"
             \/ /\ p \in Live' /\ procs'[modelOf'[p]] = p
                /\ pc'[c] # "snapshot" => modelOf'[p] \in todo'[c] \cup {path'[c]}
    <2>1. /\ kind' = kind /\ alive' = alive /\ abandoned \subseteq abandoned'
          /\ pc[d] # "idle" /\ \A e \in Callers \ {d} : pc'[e] = pc[e]
        BY <1>3, ProgressFrame
    <2>2. c = d
        BY <2>1 DEF Alone
    <2> QED
        BY <1>3, <2>1, <2>2, StopAllSweeps
<1>4. ASSUME NEW q \in Procs, Bind(q) \/ Crash(q)
      PROVE  \/ status'[p] = "dead"
             \/ /\ p \in Live' /\ procs'[modelOf'[p]] = p
                /\ pc'[c] # "snapshot" => modelOf'[p] \in todo'[c] \cup {path'[c]}
    BY <1>4 DEF Sweep, Bind, Crash, Live, locals
<1>5. CASE AtRest \/ UNCHANGED vars
    BY <1>5 DEF Sweep, AtRest, vars, osVars, locals, Live
<1> QED
    BY <1>2, <1>3, <1>4, <1>5 DEF Next

\* Calls that are kept apart preserve all of it.
THEOREM ApartInvariant == ASSUME Disjoint PROVE Spec => []ApartInv
<1>1. Init => ApartInv
    <2>2. Init => Alone /\ Steady /\ NoLeak /\ Sweep
        BY DEF Init, Alone, Steady, NoLeak, Sweep, Live
    <2> QED
        BY <2>2, AdapterInvariantInit DEF ApartInv
<1>2. ApartInv /\ [Next]_vars => ApartInv'
    BY StepKeepsInv, StepKeepsAlone, StepKeepsNoLeak, StepKeepsSweep DEF ApartInv
<1> QED
    BY <1>1, <1>2, PTL DEF Spec

\* When no two calls overlap on a path, no running llama-server is lost but
\* one that missed the readiness deadline: a.procs has it, or the call that
\* started it is about to put it there.
THEOREM NothingLeaks == ASSUME Disjoint PROVE Spec => []NoLeak
<1>1. ApartInv => NoLeak
    BY DEF ApartInv
<1> QED
    BY <1>1, ApartInvariant, PTL

\* Then, too, StopAll stops every process that ran when it was called and
\* was not given up.
THEOREM StopAllIsThorough == ASSUME Disjoint PROVE Spec => StopAllStops
<1>1. ASSUME ApartInv, [Next]_vars, NEW c \in Callers,
             kind[c] = "stopAll", pc[c] # "idle", pc'[c] = "idle",
             NEW p \in alive[c] \ abandoned
      PROVE  status'[p] = "dead"
    <2>1. Progress(c)
        BY <1>1 DEF ApartInv, SubInv, TypeOK, Next, Call, CallEnsure, CallStop, CallStopAll,
                    NewCall, Bind, Crash, AtRest, vars, locals,
                    Progress, Enter, FoundHealthy, FoundUnhealthy, PickPort, StartProc,
                    StartFails, SaveProc, WatchExited, WatchAlive, WatchTimeout, Poll,
                    MarkReady, StopLookup, KillProc, StopForget, StopAllSnapshot,
                    StopReturns, Goto
    <2> QED
        BY <1>1, <2>1, StopAllSweeps
<1>2. ApartInv /\ [Next]_vars
          => [\A c \in Callers :
                 kind[c] = "stopAll" /\ pc[c] # "idle" /\ pc'[c] = "idle"
                     => \A p \in alive[c] \ abandoned : status'[p] = "dead"]_vars
    BY <1>1
<1> QED
    BY <1>2, ApartInvariant, PTL DEF Spec, StopAllStops

-----------------------------------------------------------------------------
(* One call at a time, and no fault.                                       *)

\* No process dies by itself, no health check and no start is too slow.
NoFaults == ~CanCrash /\ ~SlowHealth /\ ~SlowStart

\* Among the calls only the one that takes the step is under way.
LEMMA SingleCaller ==
    ASSUME SubInv, Single, NEW c \in Callers, Progress(c), NEW d \in Callers, d # c
    PROVE  pc[d] = "idle" /\ pc'[d] = "idle"
    BY ProgressFrame DEF Single

\* Steps of the only call that leave the processes and the entries alone.
LEMMA QuietStepKeepsHealthy ==
    ASSUME SubInv, Single, Healthy, NEW c \in Callers, Progress(c),
           UNCHANGED <<procs, status, portOf>>,
           pc[c] \in {"save", "watch", "poll"} /\ status[proc[c]] = "starting"
               => pc'[c] \in {"save", "watch", "poll"} /\ proc'[c] = proc[c],
           pc[c] # "forget",
           pc'[c] = "start" => \A p \in Live : portOf[p] # port'[c],
           pc'[c] \in {"save", "watch", "poll", "mark", "healthReady", "healthNew"} =>
               proc'[c] \in Live /\ portOf[proc'[c]] = port'[c],
           pc'[c] \in {"mark", "healthReady", "healthNew"} => status[proc'[c]] = "serving",
           pc'[c] \in {"stop", "kill", "forget"} => kind[c] # "ensure"
    PROVE  Healthy'
<1>1. \A d \in Callers : d # c => pc[d] = "idle" /\ pc'[d] = "idle"
    BY SingleCaller
<1>2. Live' = Live /\ kind' = kind
    BY ProgressFrame DEF Live
<1>3. (\A p, q \in Live : portOf[p] = portOf[q] => p = q)'
    BY <1>2 DEF Healthy
<1>4. ASSUME NEW p \in Procs, status'[p] = "starting"
      PROVE  \E d \in Callers : pc'[d] \in {"save", "watch", "poll"} /\ proc'[d] = p
    BY <1>1, <1>4 DEF Healthy
<1>5. ASSUME NEW m \in Paths, procs'[m] # NoProc
      PROVE  procs'[m] \in Live'
    BY <1>1, <1>2, <1>5 DEF Healthy
<1>6. ASSUME NEW d \in Callers
      PROVE  /\ pc'[d] = "start" => \A p \in Live' : portOf'[p] # port'[d]
             /\ pc'[d] \in {"save", "watch", "poll", "mark", "healthReady", "healthNew"} =>
                    proc'[d] \in Live' /\ portOf'[proc'[d]] = port'[d]
             /\ pc'[d] \in {"mark", "healthReady", "healthNew"} => status'[proc'[d]] = "serving"
             /\ pc'[d] \in {"stop", "kill", "forget"} => kind'[d] # "ensure"
    BY <1>1, <1>2
<1> QED
    BY <1>3, <1>4, <1>5, <1>6 DEF Healthy

\* When nobody waits for a process to come up, every process is up, and when
\* nobody stops one, every entry is.
LEMMA RestIsUp ==
    ASSUME SubInv, Single, Healthy, NEW c \in Callers, pc[c] \notin {"idle", "save", "watch", "poll"}
    PROVE  /\ \A p \in Live : status[p] = "serving"
           /\ pc[c] # "forget" => \A m \in Paths : procs[m] # NoProc => procs[m] \in Live
<1>1. ASSUME NEW d \in Callers
      PROVE  pc[d] \notin {"save", "watch", "poll"} /\ (pc[d] = "forget" => d = c)
    BY DEF Single
<1> QED
    BY <1>1 DEF Healthy, Live

\* ensureProcess keeps Healthy.
LEMMA EnsureKeepsHealthy ==
    ASSUME NoFaults, SubInv, Single, Steady, Healthy, NEW c \in Callers, Progress(c),
           \/ Enter(c) \/ FoundHealthy(c) \/ FoundUnhealthy(c)
           \/ PickPort(c) \/ StartProc(c) \/ StartFails(c) \/ SaveProc(c)
           \/ WatchExited(c) \/ WatchAlive(c) \/ WatchTimeout(c) \/ Poll(c) \/ MarkReady(c)
    PROVE  Healthy'
<1> USE DEF SubInv, TypeOK, Goto
<1>0. \A d \in Callers : d # c => pc[d] = "idle" /\ pc'[d] = "idle"
    BY SingleCaller
<1>1. CASE Enter(c)
    <2>1. path[c] \in Paths /\ pc[c] = "enter"
        BY <1>1 DEF Enter, Placed
    <2>2. procs[path[c]] # NoProc => procs[path[c]] \in Live /\ status[procs[path[c]]] = "serving"
        BY <2>1, RestIsUp
    <2>3. CASE procs[path[c]] = NoProc
        BY <1>1, <2>1, <2>3, QuietStepKeepsHealthy DEF Enter, osVars
    <2>4. CASE procs[path[c]] # NoProc
        <3>1. /\ pc'[c] \in {"healthReady", "healthNew"} /\ proc'[c] = procs[path[c]]
              /\ port'[c] = portOf[proc'[c]] /\ UNCHANGED <<procs, status, portOf>>
            BY <1>1, <2>4 DEF Enter, osVars
        <3> QED
            BY <2>1, <2>2, <2>4, <3>1, QuietStepKeepsHealthy
    <2> QED
        BY <2>3, <2>4
<1>2. CASE FoundHealthy(c)
    BY <1>2, QuietStepKeepsHealthy DEF FoundHealthy, osVars, locals, Healthy
<1>3. CASE FoundUnhealthy(c)
    <2>1. proc[c] \in Procs /\ status[proc[c]] = "serving" /\ portOf[proc[c]] = port[c]
        BY <1>3 DEF FoundUnhealthy, Healthy, Live
    <2> QED
        BY <1>3, <2>1 DEF FoundUnhealthy, Listening, NoFaults
<1>4. CASE PickPort(c)
    <2>1. pc[c] = "pick" /\ UNCHANGED <<procs, status, portOf>> /\ pc'[c] \in {"start", "idle"}
        BY <1>4 DEF PickPort, osVars
    <2>2. ASSUME pc'[c] = "start", NEW p \in Live
          PROVE  portOf[p] # port'[c]
        <3>1. ~Listening(port'[c])
            BY <1>4, <2>2 DEF PickPort
        <3>2. status[p] = "serving"
            BY <2>1, RestIsUp
        <3> QED
            BY <3>1, <3>2 DEF Listening, Live
    <2> QED
        BY <2>1, <2>2, QuietStepKeepsHealthy
<1>5. CASE StartProc(c)
    <2>1. Fresh \in Procs /\ status[Fresh] = "unused" /\ pc[c] = "start"
        BY <1>5, FreshIsNew DEF StartProc
    <2>2. /\ Live' = Live \cup {Fresh} /\ portOf' = [portOf EXCEPT ![Fresh] = port[c]]
          /\ proc'[c] = Fresh /\ pc'[c] = "save" /\ port' = port
          /\ status' = [status EXCEPT ![Fresh] = "starting"] /\ UNCHANGED <<procs, kind>>
        BY <1>5, <2>1 DEF StartProc, Live
    <2>3. ASSUME NEW p \in Live', NEW q \in Live', portOf'[p] = portOf'[q]
          PROVE  p = q
        BY <2>1, <2>2, <2>3 DEF Healthy, Live
    <2>4. ASSUME NEW p \in Procs, status'[p] = "starting"
          PROVE  p = Fresh
        BY <2>1, <2>2, <2>4, RestIsUp DEF Live
    <2>5. ASSUME NEW m \in Paths, procs'[m] # NoProc
          PROVE  procs'[m] \in Live'
        BY <2>1, <2>2, <2>5, RestIsUp
    <2> QED
        BY <1>0, <2>1, <2>2, <2>3, <2>4, <2>5 DEF Healthy
<1>6. CASE StartFails(c)
    BY <1>6, QuietStepKeepsHealthy DEF StartFails, osVars, locals
<1>7. CASE SaveProc(c)
    <2>1. /\ pc[c] = "save" /\ pc'[c] = "watch" /\ procs' = [procs EXCEPT ![path[c]] = proc[c]]
          /\ UNCHANGED <<status, portOf, proc, port, kind, path>>
        BY <1>7 DEF SaveProc, osVars, locals
    <2>2. Live' = Live
        BY <2>1 DEF Live
    <2>3. proc[c] \in Live
        BY <2>1 DEF Healthy
    <2>4. ASSUME NEW m \in Paths, procs'[m] # NoProc
          PROVE  procs'[m] \in Live'
        BY <1>0, <2>1, <2>2, <2>3, <2>4 DEF Healthy
    <2>5. ASSUME NEW p \in Procs, status'[p] = "starting"
          PROVE  p = proc'[c]
        BY <1>0, <2>1, <2>5 DEF Healthy
    <2> QED
        BY <1>0, <2>1, <2>2, <2>4, <2>5 DEF Healthy
<1>8. CASE WatchExited(c) \/ WatchTimeout(c)
    BY <1>8 DEF WatchExited, WatchTimeout, Healthy, Live, NoFaults
<1>9. CASE WatchAlive(c)
    BY <1>9, QuietStepKeepsHealthy DEF WatchAlive, osVars, locals, Healthy
<1>10. CASE Poll(c)
    <2>1. /\ pc[c] = "poll" /\ pc'[c] \in {"mark", "watch"}
          /\ UNCHANGED <<procs, status, portOf, proc, port>>
        BY <1>10 DEF Poll, osVars, locals
    <2>2. proc[c] \in Live /\ portOf[proc[c]] = port[c]
        BY <2>1 DEF Healthy
    <2>3. pc'[c] = "mark" => status[proc[c]] = "serving"
        <3>1. ASSUME pc'[c] = "mark"
              PROVE  \E q \in Procs : status[q] = "serving" /\ portOf[q] = port[c]
            BY <1>10, <3>1 DEF Poll, Listening
        <3> QED
            BY <2>2, <3>1 DEF Healthy, Live
    <2> QED
        BY <2>1, <2>2, <2>3, QuietStepKeepsHealthy
<1>11. CASE MarkReady(c)
    BY <1>11, QuietStepKeepsHealthy DEF MarkReady, osVars, locals
<1> QED
    BY <1>1, <1>2, <1>3, <1>4, <1>5, <1>6, <1>7, <1>8, <1>9, <1>10, <1>11

\* Stop and StopAll keep Healthy.
LEMMA StopKeepsHealthy ==
    ASSUME SubInv, Single, Steady, Healthy, NEW c \in Callers, Progress(c),
           StopLookup(c) \/ KillProc(c) \/ StopForget(c) \/ StopAllSnapshot(c)
    PROVE  Healthy'
<1> USE DEF SubInv, TypeOK, Goto
<1>0. \A d \in Callers : d # c => pc[d] = "idle" /\ pc'[d] = "idle"
    BY SingleCaller
<1>1. CASE StopLookup(c) \/ StopAllSnapshot(c)
    <2>1. /\ pc[c] \in {"stop", "snapshot"} /\ pc'[c] \in {"idle", "stop", "kill"}
          /\ UNCHANGED <<procs, status, portOf>>
        BY <1>1 DEF StopLookup, StopAllSnapshot, StopReturns, osVars
    <2>2. kind[c] # "ensure"
        BY <2>1 DEF Healthy, Placed
    <2> QED
        BY <2>1, <2>2, QuietStepKeepsHealthy
<1>2. CASE KillProc(c)
    <2>1. /\ pc[c] = "kill" /\ pc'[c] = "forget" /\ status' = [status EXCEPT ![proc[c]] = "dead"]
          /\ UNCHANGED <<procs, portOf, path, kind>>
        BY <1>2 DEF KillProc, locals
    <2>2. Live' = Live \ {proc[c]}
        BY <2>1 DEF Live
    <2>3. path[c] \in Paths /\ procs[path[c]] = proc[c] /\ proc[c] \in Procs
        BY <2>1 DEF Placed, Steady
    <2>4. ASSUME NEW m \in Paths, procs'[m] # NoProc
          PROVE  procs'[m] \in Live' \/ m = path[c]
        BY <2>1, <2>2, <2>3, <2>4, RestIsUp DEF EntriesOK
    <2>5. ASSUME NEW p \in Procs
          PROVE  status'[p] # "starting"
        BY <2>1, RestIsUp DEF Live
    <2>6. kind[c] # "ensure"
        BY <2>1 DEF Healthy
    <2> QED
        BY <1>0, <2>1, <2>2, <2>4, <2>5, <2>6 DEF Healthy
<1>3. CASE StopForget(c)
    <2>1. /\ pc[c] = "forget" /\ pc'[c] \in {"idle", "stop"} /\ procs' = [procs EXCEPT ![path[c]] = NoProc]
          /\ UNCHANGED <<status, portOf, kind>>
        BY <1>3 DEF StopForget, StopReturns, Forget, osVars
    <2>2. Live' = Live
        BY <2>1 DEF Live
    <2>3. ASSUME NEW m \in Paths, procs'[m] # NoProc
          PROVE  procs'[m] \in Live'
        BY <1>0, <2>1, <2>2, <2>3 DEF Healthy
    <2>4. ASSUME NEW p \in Procs
          PROVE  status'[p] # "starting"
        BY <2>1, RestIsUp DEF Live
    <2>5. kind[c] # "ensure"
        BY <2>1 DEF Healthy
    <2> QED
        BY <1>0, <2>1, <2>2, <2>3, <2>4, <2>5 DEF Healthy
<1> QED
    BY <1>1, <1>2, <1>3

\* Without faults every step keeps Healthy, as long as calls come one at a
\* time.
LEMMA StepKeepsHealthy ==
    ASSUME NoFaults, SubInv, Single, Steady, Healthy, [Next]_vars
    PROVE  Healthy'
<1> USE DEF SubInv, TypeOK
<1>1. ASSUME NEW c \in Callers, Progress(c)
      PROVE  Healthy'
    BY <1>1, EnsureKeepsHealthy, StopKeepsHealthy DEF Progress
<1>2. ASSUME NEW c \in Callers, Call(c)
      PROVE  Healthy'
    <2>1. PICK first \in {"enter", "stop", "snapshot"} :
              /\ pc[c] = "idle" /\ pc' = [pc EXCEPT ![c] = first]
              /\ first = "stop" => kind'[c] = "stop"
              /\ \A d \in Callers \ {c} : kind'[d] = kind[d] /\ path'[d] = path[d] /\ proc'[d] = proc[d]
                                              /\ port'[d] = port[d]
              /\ UNCHANGED <<procs, status, portOf>>
        BY <1>2 DEF Call, CallEnsure, CallStop, CallStopAll, NewCall, Goto, osVars
    <2>2. Live' = Live
        BY <2>1 DEF Live
    <2>3. ASSUME NEW d \in Callers, pc[d] # "idle"
          PROVE  d # c /\ pc'[d] = pc[d] /\ path'[d] = path[d] /\ proc'[d] = proc[d]
        BY <2>1, <2>3
    <2>4. (\A p \in Procs : status[p] = "starting" =>
              \E d \in Callers : pc[d] \in {"save", "watch", "poll"} /\ proc[d] = p)'
        BY <2>1, <2>3 DEF Healthy
    <2>5. (\A m \in Paths : procs[m] # NoProc =>
              procs[m] \in Live \/ \E d \in Callers : pc[d] = "forget" /\ path[d] = m)'
        BY <2>1, <2>2, <2>3 DEF Healthy
    <2> QED
        BY <2>1, <2>2, <2>4, <2>5 DEF Healthy
<1>3. ASSUME NEW p \in Procs, Bind(p) \/ Crash(p)
      PROVE  Healthy'
    <2>1. /\ status[p] = "starting"
          /\ status' = [status EXCEPT ![p] = IF Listening(portOf[p]) THEN "dead" ELSE "serving"]
          /\ UNCHANGED <<procs, portOf, pc, path, proc, port, kind>>
        BY <1>3 DEF Bind, Crash, NoFaults, locals
    <2>2. ~Listening(portOf[p])
        BY <2>1 DEF Listening, Healthy, Live
    <2>3. Live' = Live
        BY <2>1, <2>2 DEF Live
    <2> QED
        BY <2>1, <2>2, <2>3 DEF Healthy
<1>4. CASE UNCHANGED vars
    BY <1>4 DEF vars, osVars, locals, Healthy, Live
<1> QED
    BY <1>1, <1>2, <1>3, <1>4 DEF Next, AtRest

\* A server that is up stays up and stays known while another is ensured, or
\* stopped.
LEMMA ServersStay ==
    ASSUME NoFaults, SubInv, Single, Steady, Healthy, NEW c \in Callers, Progress(c),
           NEW m \in Paths, procs[m] # NoProc, status[procs[m]] = "serving",
           kind[c] = "ensure" \/ (kind[c] = "stop" /\ path[c] # m)
    PROVE  procs'[m] = procs[m] /\ status'[procs[m]] = "serving"
<1> USE DEF SubInv, TypeOK, Placed
<1>1. CASE StartProc(c)
    BY <1>1, FreshIsNew DEF StartProc
<1>2. CASE SaveProc(c)
    BY <1>2 DEF SaveProc, Steady, osVars
<1>3. CASE WatchExited(c) \/ WatchTimeout(c)
    BY <1>3 DEF WatchExited, WatchTimeout, Healthy, Live, NoFaults
<1>4. CASE KillProc(c)
    <2>1. kind[c] = "stop" /\ path[c] # m /\ proc[c] = procs[path[c]] /\ proc[c] \in Procs
        BY <1>4 DEF KillProc, Healthy, Steady
    <2>2. procs[m] # proc[c]
        BY <1>4, <2>1, NilAssumption DEF EntriesOK, KillProc
    <2> QED
        BY <1>4, <2>2 DEF KillProc
<1>5. CASE StopForget(c)
    <2>1. kind[c] = "stop" /\ path[c] # m
        BY <1>5 DEF StopForget, Healthy
    <2> QED
        BY <1>5, <2>1 DEF StopForget, Forget, osVars
<1>6. CASE UNCHANGED <<procs, status>>
    BY <1>6
<1> QED
    BY <1>1, <1>2, <1>3, <1>4, <1>5, <1>6
       DEF Progress, Enter, FoundHealthy, FoundUnhealthy, PickPort, StartFails, WatchAlive, Poll, MarkReady,
           StopLookup, StopAllSnapshot, osVars

\* ensureProcess that returns a URL returns that of the server of its model.
LEMMA EnsureReturnsServer ==
    ASSUME NoFaults, SubInv, Single, Steady, Healthy, NEW c \in Callers, Progress(c), kind[c] = "ensure",
           pc'[c] = "idle", pc[c] \notin {"pick", "start", "watch"}
    PROVE  /\ procs'[path[c]] # NoProc /\ status'[procs'[path[c]]] = "serving"
           /\ portOf'[procs'[path[c]]] = port'[c]
<1> USE DEF SubInv, TypeOK, Placed
<1>1. /\ pc[c] \in {"healthReady", "mark"} /\ UNCHANGED <<procs, status, portOf, port>>
    BY DEF Progress, Enter, FoundHealthy, FoundUnhealthy, PickPort, StartProc, StartFails, SaveProc,
           WatchExited, WatchAlive, WatchTimeout, Poll, MarkReady, StopLookup, KillProc, StopForget,
           StopAllSnapshot, osVars, locals, Goto, Healthy
<1>2. procs[path[c]] = proc[c] /\ proc[c] \in Procs /\ status[proc[c]] = "serving" /\ portOf[proc[c]] = port[c]
    BY <1>1 DEF Steady, Healthy
<1> QED
    BY <1>1, <1>2, NilAssumption
=============================================================================
