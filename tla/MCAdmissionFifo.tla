--------------------------- MODULE MCAdmissionFifo ---------------------------
(* Admission with a history variable: for each instance the requests that  *)
(* own a queue slot and wait for the in-flight slot, in the order in which *)
(* they got the queue slot.                                                *)
EXTENDS Admission

VARIABLE arrivals

fifoVars == <<admVars, arrivals>>

Waiting(r, i) == target[r] = i /\ adm[r] \in {"slot", "atGen", "inGen"}

FifoInit == AdmInit /\ arrivals = [i \in Instances |-> <<>>]

FifoNext ==
    /\ AdmNext
    /\ arrivals' = [i \in Instances |->
          SelectSeq(arrivals[i], LAMBDA r : Waiting(r, i)')
          \o SetToSeq({r \in Requests : Waiting(r, i)' /\ ~Waiting(r, i)})]

FifoSpec == FifoInit /\ [][FifoNext]_fifoVars

\* inference.go: "Admission: per-instance FIFO queue, single in-flight": the
\* request that gets the in-flight slot is the one that has held its queue
\* slot for longest.
FifoAdmission ==
    [][\A r \in Requests :
          adm[r] \notin HoldsGen /\ adm'[r] \in HoldsGen
              => r = Head(arrivals[target[r]])]_fifoVars
=============================================================================
