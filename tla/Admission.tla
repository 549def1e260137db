----------------------------- MODULE Admission -----------------------------
(***************************************************************************)
(* Admission of inference requests to a model instance:                    *)
(* beginGeneration in src/internal/manager/queue_admission.go              *)
(* and the release function it returns.                                    *)
(*                                                                         *)
(* An instance owns two buffered Go channels used as semaphores: queueCh   *)
(* (capacity maxQueueDepth) and genCh (capacity 1).  A request sends one   *)
(* token to queueCh, then one to genCh, generates, and receives both back. *)
(* Each select can also end through the request's context or its timer.    *)
(*                                                                         *)
(* The channels follow the Go runtime: a sender that finds the buffer full *)
(* parks in a FIFO, and a receiver that finds a parked sender moves that   *)
(* sender's token into the buffer in the same step, so that the length     *)
(* does not change.  A select whose cases are ready picks any of them.     *)
(***************************************************************************)
EXTENDS Naturals, Sequences, FiniteSets, SequencesExt

CONSTANTS
    Requests,       \* calls of beginGeneration that may be under way
    Instances,      \* *Instance objects
    NoInst,         \* the nil *Instance
    MaxQueueDepth   \* cap(queueCh); NewWithConfig makes it at least 1

ASSUME DepthAssumption == MaxQueueDepth \in Nat \ {0}
ASSUME NoInstAssumption == NoInst \notin Instances

VARIABLES
    adm,            \* adm[r]: where request r is in beginGeneration
    target,         \* target[r]: the *Instance that r looked up
    ctxDone,        \* ctxDone[r]: r's context is done
    queueLen,       \* len(inst.queueCh)
    queueWait,      \* senders parked on inst.queueCh, oldest first
    genLen,         \* len(inst.genCh)
    genWait         \* senders parked on inst.genCh, oldest first

admVars == <<adm, target, ctxDone, queueLen, queueWait, genLen, genWait>>

-----------------------------------------------------------------------------
(* Stages of a request.                                                    *)

\* "found"     the instance is looked up, its state and ctx not checked yet
\* "atQueue"   about to evaluate the select on queueCh
\* "inQueue"   parked in that select
\* "slot"      owns a queueCh token, ctx not rechecked yet
\* "atGen"     about to evaluate the select on genCh
\* "inGen"     parked in that select
\* "abandon"   failed after owning a queueCh token; deferred receive pending
\* "granted"   owns both tokens, LastUsed not refreshed yet
\* "inflight"  beginGeneration has returned; release() is deferred
\* "release"   has received its genCh token, not yet its queueCh token
HoldsGen == {"granted", "inflight"}
HoldsQueue == {"slot", "atGen", "inGen", "abandon", "release"} \cup HoldsGen
Stages == {"idle", "found", "atQueue", "inQueue"} \cup HoldsQueue

QueueHolders(i) == {r \in Requests : target[r] = i /\ adm[r] \in HoldsQueue}
GenHolders(i) == {r \in Requests : target[r] = i /\ adm[r] \in HoldsGen}

AdmTypeOK ==
    /\ adm \in [Requests -> Stages]
    /\ target \in [Requests -> Instances \cup {NoInst}]
    /\ ctxDone \in [Requests -> BOOLEAN]
    /\ queueLen \in [Instances -> 0..MaxQueueDepth]
    /\ queueWait \in [Instances -> Seq(Requests)]
    /\ genLen \in [Instances -> 0..1]
    /\ genWait \in [Instances -> Seq(Requests)]
    /\ \A r \in Requests : target[r] = NoInst <=> adm[r] = "idle"

AdmInit ==
    /\ adm = [r \in Requests |-> "idle"]
    /\ target = [r \in Requests |-> NoInst]
    /\ ctxDone = [r \in Requests |-> FALSE]
    /\ queueLen = [i \in Instances |-> 0]
    /\ queueWait = [i \in Instances |-> <<>>]
    /\ genLen = [i \in Instances |-> 0]
    /\ genWait = [i \in Instances |-> <<>>]

-----------------------------------------------------------------------------
(* Steps shared by the actions below.                                      *)

Goto(r, stage) == adm' = [adm EXCEPT ![r] = stage]

\* The call returns an error: the request forgets its instance.
Return(r) ==
    /\ Goto(r, "idle")
    /\ target' = [target EXCEPT ![r] = NoInst]

\* A parked sender whose select ends otherwise leaves the wait queue.
LeaveQueueWait(r, i) ==
    \E k \in 1..Len(queueWait[i]) :
        /\ queueWait[i][k] = r
        /\ queueWait' = [queueWait EXCEPT ![i] = RemoveAt(@, k)]

LeaveGenWait(r, i) ==
    \E k \in 1..Len(genWait[i]) :
        /\ genWait[i][k] = r
        /\ genWait' = [genWait EXCEPT ![i] = RemoveAt(@, k)]

-----------------------------------------------------------------------------
(* beginGeneration.                                                        *)

\* inst := m.instances[modelID] under the read lock, not nil.
Lookup(r, i) ==
    /\ adm[r] = "idle"
    /\ Goto(r, "found")
    /\ target' = [target EXCEPT ![r] = i]
    /\ UNCHANGED <<ctxDone, queueLen, queueWait, genLen, genWait>>

\* The instance is draining, or the context is already done.  Whether it is
\* draining is the manager's business: here any looked-up request may fail.
Refuse(r) ==
    /\ adm[r] = "found"
    /\ Return(r)
    /\ UNCHANGED <<ctxDone, queueLen, queueWait, genLen, genWait>>

PassChecks(r) ==
    /\ adm[r] = "found"
    /\ ~ctxDone[r]
    /\ Goto(r, "atQueue")
    /\ UNCHANGED <<target, ctxDone, queueLen, queueWait, genLen, genWait>>

\* Mutation: queueCh is made with one place for the request in flight.
ReserveQueue_OnePlaceMore(r) ==
    LET i == target[r] IN
    /\ adm[r] = "atQueue"
    /\ queueLen[i] < MaxQueueDepth + 1
    /\ queueLen' = [queueLen EXCEPT ![i] = @ + 1]
    /\ Goto(r, "slot")
    /\ UNCHANGED <<target, ctxDone, queueWait, genLen, genWait>>

\* case inst.queueCh <- struct{}{}
ReserveQueue(r) ==
    LET i == target[r] IN
    /\ adm[r] = "atQueue"
    /\ queueLen[i] < MaxQueueDepth
    /\ queueLen' = [queueLen EXCEPT ![i] = @ + 1]
    /\ Goto(r, "slot")
    /\ UNCHANGED <<target, ctxDone, queueWait, genLen, genWait>>

\* No case of the select is ready: the goroutine parks.
ParkQueue(r) ==
    LET i == target[r] IN
    /\ adm[r] = "atQueue"
    /\ queueLen[i] >= MaxQueueDepth
    /\ ~ctxDone[r]
    /\ queueWait' = [queueWait EXCEPT ![i] = Append(@, r)]
    /\ Goto(r, "inQueue")
    /\ UNCHANGED <<target, ctxDone, queueLen, genLen, genWait>>

\* case <-ctx.Done() or case <-timer.C: nothing was acquired.
QueueSelectFails(r) ==
    /\ \/ adm[r] = "atQueue" /\ UNCHANGED queueWait
       \/ adm[r] = "inQueue" /\ LeaveQueueWait(r, target[r])
    /\ Return(r)
    /\ UNCHANGED <<ctxDone, queueLen, genLen, genWait>>

\* The second ctx.Err() check.
RecheckCtx(r) ==
    /\ adm[r] = "slot"
    /\ Goto(r, IF ctxDone[r] THEN "abandon" ELSE "atGen")
    /\ UNCHANGED <<target, ctxDone, queueLen, queueWait, genLen, genWait>>

\* Mutation: genCh is made with capacity 2.
AcquireGen_Cap2(r) ==
    LET i == target[r] IN
    /\ adm[r] = "atGen"
    /\ genLen[i] < 2
    /\ genLen' = [genLen EXCEPT ![i] = @ + 1]
    /\ Goto(r, "granted")
    /\ UNCHANGED <<target, ctxDone, queueLen, queueWait, genWait>>

\* case inst.genCh <- struct{}{}
AcquireGen(r) ==
    LET i == target[r] IN
    /\ adm[r] = "atGen"
    /\ genLen[i] < 1
    /\ genLen' = [genLen EXCEPT ![i] = @ + 1]
    /\ Goto(r, "granted")
    /\ UNCHANGED <<target, ctxDone, queueLen, queueWait, genWait>>

ParkGen(r) ==
    LET i == target[r] IN
    /\ adm[r] = "atGen"
    /\ genLen[i] >= 1
    /\ ~ctxDone[r]
    /\ genWait' = [genWait EXCEPT ![i] = Append(@, r)]
    /\ Goto(r, "inGen")
    /\ UNCHANGED <<target, ctxDone, queueLen, queueWait, genLen>>

\* Mutation: no deferred receive, the queueCh token is kept for ever.
GenSelectFails_Leaks(r) ==
    /\ \/ adm[r] = "atGen" /\ UNCHANGED genWait
       \/ adm[r] = "inGen" /\ LeaveGenWait(r, target[r])
    /\ Return(r)
    /\ UNCHANGED <<ctxDone, queueLen, queueWait, genLen>>

\* Mutation: the second select has no timer.
GenSelectFails_NoTimer(r) ==
    /\ ctxDone[r]
    /\ \/ adm[r] = "atGen" /\ UNCHANGED genWait
       \/ adm[r] = "inGen" /\ LeaveGenWait(r, target[r])
    /\ Goto(r, "abandon")
    /\ UNCHANGED <<target, ctxDone, queueLen, queueWait, genLen>>

\* case <-ctx.Done() or case <-timer2.C: the deferred function still has to
\* give the queueCh token back.
GenSelectFails(r) ==
    /\ \/ adm[r] = "atGen" /\ UNCHANGED genWait
       \/ adm[r] = "inGen" /\ LeaveGenWait(r, target[r])
    /\ Goto(r, "abandon")
    /\ UNCHANGED <<target, ctxDone, queueLen, queueWait, genLen>>

\* Mutation: acquired is not set, so the deferred receive runs here too.
Grant_NotAcquired(r) ==
    /\ adm[r] = "granted"
    /\ Goto(r, "inflight")
    /\ queueLen' = [queueLen EXCEPT ![target[r]] = @ - 1]
    /\ UNCHANGED <<target, ctxDone, queueWait, genLen, genWait>>

\* The rest of the successful case: inst.LastUsed = time.Now(), return.
Grant(r) ==
    /\ adm[r] = "granted"
    /\ Goto(r, "inflight")
    /\ UNCHANGED <<target, ctxDone, queueLen, queueWait, genLen, genWait>>

\* <-inst.queueCh, in the deferred function ("abandon") or as the second
\* half of release ("release").  A parked sender gets the token directly.
ReceiveQueue(r) ==
    LET i == target[r] IN
    /\ adm[r] \in {"abandon", "release"}
    /\ queueLen[i] > 0
    /\ target' = [target EXCEPT ![r] = NoInst]
    /\ \/ /\ queueWait[i] = <<>>
          /\ queueLen' = [queueLen EXCEPT ![i] = @ - 1]
          /\ Goto(r, "idle")
          /\ UNCHANGED queueWait
       \/ /\ queueWait[i] # <<>>
          /\ queueWait' = [queueWait EXCEPT ![i] = Tail(@)]
          /\ adm' = [adm EXCEPT ![r] = "idle", ![Head(queueWait[i])] = "slot"]
          /\ UNCHANGED queueLen
    /\ UNCHANGED <<ctxDone, genLen, genWait>>

\* <-inst.genCh: the first half of release, when generation has ended.
ReceiveGen(r) ==
    LET i == target[r] IN
    /\ adm[r] = "inflight"
    /\ genLen[i] > 0
    /\ \/ /\ genWait[i] = <<>>
          /\ genLen' = [genLen EXCEPT ![i] = @ - 1]
          /\ Goto(r, "release")
          /\ UNCHANGED genWait
       \/ /\ genWait[i] # <<>>
          /\ genWait' = [genWait EXCEPT ![i] = Tail(@)]
          /\ adm' = [adm EXCEPT ![r] = "release", ![Head(genWait[i])] = "granted"]
          /\ UNCHANGED genLen
    /\ UNCHANGED <<target, ctxDone, queueLen, queueWait>>

\* The caller's context is done: the client went away, the server shuts down
\* or the request timeout fired.
Cancel(r) ==
    /\ ~ctxDone[r]
    /\ ctxDone' = [ctxDone EXCEPT ![r] = TRUE]
    /\ UNCHANGED <<adm, target, queueLen, queueWait, genLen, genWait>>

\* An idle request slot is taken by a new call with a fresh context.
FreshCtx(r) ==
    /\ adm[r] = "idle"
    /\ ctxDone' = [ctxDone EXCEPT ![r] = FALSE]
    /\ UNCHANGED <<adm, target, queueLen, queueWait, genLen, genWait>>

-----------------------------------------------------------------------------
(* The steps a request takes on its own once it has been looked up, and    *)
(* the specification.                                                      *)

AdmStep(r) ==
    \/ ReserveQueue(r) \/ ParkQueue(r) \/ QueueSelectFails(r)
    \/ RecheckCtx(r)
    \/ AcquireGen(r) \/ ParkGen(r) \/ GenSelectFails(r)
    \/ ReceiveQueue(r)

AdmNext ==
    \E r \in Requests :
        \/ \E i \in Instances : Lookup(r, i)
        \/ Refuse(r) \/ PassChecks(r)
        \/ AdmStep(r)
        \/ Grant(r) \/ ReceiveGen(r)
        \/ Cancel(r) \/ FreshCtx(r)

AdmSpec == AdmInit /\ [][AdmNext]_admVars

\* The runtime schedules every runnable goroutine and every timer fires; no
\* fairness on ReceiveGen (a generation may never end), on arrivals or on
\* cancellation.
AdmFairSpec ==
    /\ AdmSpec
    /\ \A r \in Requests :
        /\ WF_admVars(Refuse(r) \/ PassChecks(r))
        /\ WF_admVars(AdmStep(r))
        /\ WF_admVars(Grant(r))

-----------------------------------------------------------------------------
(* Properties.                                                             *)

\* At most one request owns the in-flight slot of an instance, from the send
\* on genCh to the receive in release ("single in-flight", inference.go).
SingleInFlight ==
    \A r, s \in Requests :
        adm[r] \in HoldsGen /\ adm[s] \in HoldsGen /\ target[r] = target[s]
            => r = s

\* Every channel holds exactly the tokens of the requests that must still
\* give one back: no token leaks on an error path and none is returned twice.
SlotsMatchHolders ==
    \A i \in Instances :
        /\ queueLen[i] = Cardinality(QueueHolders(i))
        /\ genLen[i] = Cardinality(GenHolders(i))

\* The receives in the deferred function and in release find a token: they
\* are written as plain receives and would otherwise block for ever.
ReleaseNeverBlocks ==
    \A r \in Requests :
        /\ adm[r] \in {"abandon", "release"} => queueLen[target[r]] > 0
        /\ adm[r] = "inflight" => genLen[target[r]] > 0

\* Backpressure is bounded: whatever the request in flight does, a request
\* that entered beginGeneration is admitted or turned away.
WaitIsBounded ==
    \A r \in Requests :
        adm[r] \notin {"idle", "inflight"} ~> adm[r] \in {"idle", "inflight"}

\* The inductive invariant behind these: wait queues hold distinct requests
\* that are parked on this very channel, and lengths count holders within
\* the capacities.
Parked(wait, stage) ==
    \A i \in Instances :
        /\ \A k \in 1..Len(wait[i]) :
              adm[wait[i][k]] = stage /\ target[wait[i][k]] = i
        /\ \A k, l \in 1..Len(wait[i]) : wait[i][k] = wait[i][l] => k = l

Counted ==
    \A i \in Instances :
        /\ IsFiniteSet(QueueHolders(i)) /\ queueLen[i] = Cardinality(QueueHolders(i))
        /\ IsFiniteSet(GenHolders(i)) /\ genLen[i] = Cardinality(GenHolders(i))
        /\ queueLen[i] <= MaxQueueDepth /\ genLen[i] <= 1

AdmInv ==
    /\ AdmTypeOK
    /\ Parked(queueWait, "inQueue") /\ Parked(genWait, "inGen")
    /\ Counted

\* What the requests look like from outside the instances.
GatePhase ==
    [i \in Instances |-> [r \in Requests |->
        IF target[r] # i THEN "out"
        ELSE IF adm[r] \in {"slot", "atGen", "inGen"} THEN "waiting"
        ELSE IF adm[r] \in HoldsGen THEN "running"
        ELSE IF adm[r] \in {"abandon", "release"} THEN "done"
        ELSE "out"]]

Gate == INSTANCE InstanceGate WITH Depth <- MaxQueueDepth, phase <- GatePhase

\* Admission implements the gate: bounded occupancy of an instance, one
\* runner, and one run per admitted request, whatever happens to the waits.
ImplementsGate == Gate!Spec
=============================================================================
