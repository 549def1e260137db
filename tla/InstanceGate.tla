---------------------------- MODULE InstanceGate ----------------------------
(***************************************************************************)
(* What model instances promise about admission, without channels, timers  *)
(* or stages: at most Depth requests are past the gate of an instance, at  *)
(* most one of them is running, each runs at most once per visit, and a    *)
(* request that leaves may hand its place to one outside.  Admission       *)
(* implements this.                                                        *)
(***************************************************************************)
EXTENDS Naturals, FiniteSets

CONSTANTS Requests, Instances, Depth

VARIABLE phase      \* phase[i][r]: what request r is doing at instance i

Phases == {"out", "waiting", "running", "done"}

Inside(i) == {r \in Requests : phase[i][r] # "out"}

Init == phase = [i \in Instances |-> [r \in Requests |-> "out"]]

Admit(i, r) ==
    /\ phase[i][r] = "out"
    /\ Cardinality(Inside(i)) < Depth
    /\ phase' = [phase EXCEPT ![i][r] = "waiting"]

Start(i, r) ==
    /\ phase[i][r] = "waiting"
    /\ \A s \in Requests : phase[i][s] # "running"
    /\ phase' = [phase EXCEPT ![i][r] = "running"]

\* A waiting request gives up, or a running one ends.
GiveUp(i, r) ==
    /\ phase[i][r] = "waiting"
    /\ phase' = [phase EXCEPT ![i][r] = "done"]

Finish(i, r) ==
    /\ phase[i][r] = "running"
    /\ \/ phase' = [phase EXCEPT ![i][r] = "done"]
       \/ \E s \in Requests :
            /\ phase[i][s] = "waiting"
            /\ phase' = [phase EXCEPT ![i][r] = "done", ![i][s] = "running"]

Leave(i, r) ==
    /\ phase[i][r] = "done"
    /\ \/ phase' = [phase EXCEPT ![i][r] = "out"]
       \/ \E s \in Requests :
            /\ phase[i][s] = "out"
            /\ phase' = [phase EXCEPT ![i][r] = "out", ![i][s] = "waiting"]

Next ==
    \E i \in Instances, r \in Requests :
        Admit(i, r) \/ Start(i, r) \/ GiveUp(i, r) \/ Finish(i, r) \/ Leave(i, r)

Spec == Init /\ [][Next]_phase
=============================================================================
