--------------------------- MODULE AdmissionProofs ---------------------------
(* Proofs about module Admission, for any number of requests and instances *)
(* and any queue depth.                                                    *)
EXTENDS Admission, FiniteSetTheorems, SequenceTheorems, TLAPS

-----------------------------------------------------------------------------
(* Counting.                                                               *)

\* A finite set grows by one when a new element joins.
LEMMA CountAdd ==
    ASSUME NEW S, IsFiniteSet(S), NEW x, x \notin S
    PROVE  /\ IsFiniteSet(S \cup {x})
           /\ Cardinality(S \cup {x}) = Cardinality(S) + 1
    BY FS_AddElement

\* It shrinks by one when an element leaves.
LEMMA CountRemove ==
    ASSUME NEW S, IsFiniteSet(S), NEW x \in S
    PROVE  /\ IsFiniteSet(S \ {x})
           /\ Cardinality(S \ {x}) = Cardinality(S) - 1
           /\ Cardinality(S) \in Nat
    BY FS_RemoveElement, FS_CardinalityType

\* Its size stays when one element is exchanged for another.
LEMMA CountSwap ==
    ASSUME NEW S, IsFiniteSet(S), NEW x \in S, NEW y, y \notin S
    PROVE  /\ IsFiniteSet((S \ {x}) \cup {y})
           /\ Cardinality((S \ {x}) \cup {y}) = Cardinality(S)
<1>1. IsFiniteSet(S \ {x}) /\ Cardinality(S \ {x}) = Cardinality(S) - 1
      /\ Cardinality(S) \in Nat
    BY CountRemove
<1>2. y \notin S \ {x}
    OBVIOUS
<1> QED
    BY <1>1, <1>2, CountAdd

\* RemoveAt shifts the elements behind the gap and keeps the others.
LEMMA RemoveAtElements ==
    ASSUME NEW S, NEW s \in Seq(S), NEW k \in 1..Len(s)
    PROVE  /\ RemoveAt(s, k) \in Seq(S)
           /\ Len(RemoveAt(s, k)) = Len(s) - 1
           /\ \A j \in 1..(Len(s) - 1) :
                 RemoveAt(s, k)[j] = IF j < k THEN s[j] ELSE s[j + 1]
<1> DEFINE a == SubSeq(s, 1, k - 1)
           b == SubSeq(s, k + 1, Len(s))
<1>1. /\ Len(s) \in Nat /\ k \in Nat /\ 1 <= k /\ k <= Len(s)
      /\ \A j \in 1..Len(s) : s[j] \in S
    OBVIOUS
<1>2. /\ a \in Seq(S) /\ Len(a) = k - 1
      /\ \A j \in 1..(k - 1) : a[j] = s[j]
    BY <1>1, SubSeqProperties
<1>3. /\ b \in Seq(S) /\ Len(b) = Len(s) - k
      /\ \A j \in 1..(Len(s) - k) : b[j] = s[k + j]
    BY <1>1, SubSeqProperties
<1>4. /\ a \o b \in Seq(S) /\ Len(a \o b) = Len(a) + Len(b)
      /\ \A j \in 1..(Len(a) + Len(b)) :
            (a \o b)[j] = IF j <= Len(a) THEN a[j] ELSE b[j - Len(a)]
    BY <1>2, <1>3, ConcatProperties
<1>5. RemoveAt(s, k) = a \o b
    BY DEF RemoveAt
<1> HIDE DEF a, b
<1>6. ASSUME NEW j \in 1..(Len(s) - 1)
      PROVE  (a \o b)[j] = IF j < k THEN s[j] ELSE s[j + 1]
    <2>1. CASE j < k
        BY <2>1, <1>1, <1>2, <1>3, <1>4
    <2>2. CASE ~(j < k)
        <3>1. j - (k - 1) \in 1..(Len(s) - k) /\ k + (j - (k - 1)) = j + 1
            BY <2>2, <1>1
        <3>2. (a \o b)[j] = b[j - (k - 1)]
            BY <2>2, <1>1, <1>2, <1>3, <1>4
        <3> QED
            BY <2>2, <3>1, <3>2, <1>3
    <2> QED
        BY <2>1, <2>2
<1>7. Len(a \o b) = Len(s) - 1
    BY <1>1, <1>2, <1>3, <1>4
<1> QED
    BY <1>4, <1>5, <1>6, <1>7, Zenon

\* No request is twice in a sequence.
Distinct(s) == \A k, l \in 1..Len(s) : s[k] = s[l] => k = l

\* A wait queue that a new request joins stays free of duplicates.
LEMMA JoinDistinct ==
    ASSUME NEW S, NEW s \in Seq(S), Distinct(s), NEW x \in S,
           \A k \in 1..Len(s) : s[k] # x
    PROVE  /\ Append(s, x) \in Seq(S)
           /\ Distinct(Append(s, x))
           /\ \A k \in 1..Len(Append(s, x)) :
                 Append(s, x)[k] = x \/ \E l \in 1..Len(s) : Append(s, x)[k] = s[l]
<1> DEFINE t == Append(s, x)
<1>1. /\ t \in Seq(S) /\ Len(s) \in Nat /\ Len(t) = Len(s) + 1
      /\ t[Len(s) + 1] = x
      /\ \A k \in 1..Len(s) : t[k] = s[k]
    BY AppendProperties
<1> HIDE DEF t
<1>2. \A k \in 1..Len(t) : k \in 1..Len(s) \/ k = Len(s) + 1
    BY <1>1
<1>3. \A k \in 1..Len(t) : t[k] = x \/ \E l \in 1..Len(s) : t[k] = s[l]
    BY <1>1, <1>2
<1>4. Distinct(t)
    <2> SUFFICES ASSUME NEW k \in 1..Len(t), NEW l \in 1..Len(t), t[k] = t[l]
                 PROVE  k = l
        BY DEF Distinct
    <2>1. CASE k \in 1..Len(s) /\ l \in 1..Len(s)
        BY <2>1, <1>1 DEF Distinct
    <2>2. CASE k = Len(s) + 1 /\ l \in 1..Len(s)
        BY <2>2, <1>1
    <2>3. CASE k \in 1..Len(s) /\ l = Len(s) + 1
        BY <2>3, <1>1
    <2>4. CASE k = Len(s) + 1 /\ l = Len(s) + 1
        BY <2>4
    <2> QED
        BY <1>2, <2>1, <2>2, <2>3, <2>4
<1> QED
    BY <1>1, <1>3, <1>4 DEF t

\* A wait queue that one request leaves keeps the others, once each.
LEMMA LeaveDistinct ==
    ASSUME NEW S, NEW s \in Seq(S), Distinct(s), NEW k \in 1..Len(s)
    PROVE  /\ RemoveAt(s, k) \in Seq(S)
           /\ Distinct(RemoveAt(s, k))
           /\ \A j \in 1..Len(RemoveAt(s, k)) :
                 \E l \in 1..Len(s) : RemoveAt(s, k)[j] = s[l] /\ s[l] # s[k]
<1> DEFINE t == RemoveAt(s, k)
           at(j) == IF j < k THEN j ELSE j + 1
<1>1. t \in Seq(S) /\ Len(t) = Len(s) - 1 /\ Len(s) \in Nat /\ k \in Nat
    BY RemoveAtElements
<1>2. \A j \in 1..Len(t) : at(j) \in 1..Len(s) /\ at(j) # k
    BY <1>1
<1>3. \A j \in 1..Len(t) : t[j] = s[at(j)]
    BY <1>1, RemoveAtElements
<1>4. \A i, j \in 1..Len(t) : at(i) = at(j) => i = j
    BY <1>1
<1> HIDE DEF t, at
<1>5. Distinct(t)
    BY <1>2, <1>3, <1>4 DEF Distinct
<1>6. \A j \in 1..Len(t) : \E l \in 1..Len(s) : t[j] = s[l] /\ s[l] # s[k]
    BY <1>2, <1>3 DEF Distinct
<1> QED
    BY <1>1, <1>5, <1>6 DEF t

\* The same for the request at the head.
LEMMA TailDistinct ==
    ASSUME NEW S, NEW s \in Seq(S), Distinct(s), s # <<>>
    PROVE  /\ Tail(s) \in Seq(S)
           /\ Distinct(Tail(s))
           /\ 1 \in 1..Len(s) /\ Head(s) = s[1] /\ Head(s) \in S
           /\ \A j \in 1..Len(Tail(s)) :
                 \E l \in 1..Len(s) : Tail(s)[j] = s[l] /\ s[l] # Head(s)
<1>1. /\ Tail(s) \in Seq(S) /\ Len(Tail(s)) = Len(s) - 1 /\ Len(s) \in Nat \ {0}
      /\ Head(s) = s[1] /\ Head(s) \in S
      /\ \A j \in 1..Len(Tail(s)) : Tail(s)[j] = s[j + 1]
    OBVIOUS
<1>2. \A j \in 1..Len(Tail(s)) : j + 1 \in 1..Len(s) /\ j + 1 # 1
    BY <1>1
<1>3. 1 \in 1..Len(s)
    BY <1>1
<1>4. \A j \in 1..Len(Tail(s)) : Tail(s)[j] = s[j + 1] /\ s[j + 1] # s[1]
    BY <1>1, <1>2, <1>3 DEF Distinct
<1>5. Distinct(Tail(s))
    <2> SUFFICES ASSUME NEW i \in 1..Len(Tail(s)), NEW j \in 1..Len(Tail(s)),
                        Tail(s)[i] = Tail(s)[j]
                 PROVE  i = j
        BY DEF Distinct
    <2>1. i + 1 = j + 1
        BY <1>2, <1>4 DEF Distinct
    <2> QED
        BY <2>1
<1>6. \A j \in 1..Len(Tail(s)) :
        \E l \in 1..Len(s) : Tail(s)[j] = s[l] /\ s[l] # Head(s)
    BY <1>1, <1>2, <1>4
<1> QED
    BY <1>1, <1>3, <1>5, <1>6

-----------------------------------------------------------------------------
(* The inductive invariant.                                                *)

\* The counters and the wait queues start empty.
LEMMA InvInit == AdmInit => AdmInv
<1> SUFFICES ASSUME AdmInit PROVE AdmInv
    OBVIOUS
<1>1. AdmTypeOK
    BY NoInstAssumption, DepthAssumption DEF AdmInit, AdmTypeOK, Stages
<1>2. Parked(queueWait, "inQueue") /\ Parked(genWait, "inGen")
    BY DEF AdmInit, Parked
<1>3. Counted
    <2>1. \A i \in Instances : QueueHolders(i) = {} /\ GenHolders(i) = {}
        BY DEF AdmInit, QueueHolders, GenHolders, HoldsQueue, HoldsGen
    <2>2. IsFiniteSet({}) /\ Cardinality({}) = 0
        BY FS_EmptySet
    <2>3. \A i \in Instances : queueLen[i] = 0 /\ genLen[i] = 0
        BY DEF AdmInit
    <2>4. \A i \in Instances :
            /\ IsFiniteSet(QueueHolders(i)) /\ Cardinality(QueueHolders(i)) = 0
            /\ IsFiniteSet(GenHolders(i)) /\ Cardinality(GenHolders(i)) = 0
        BY <2>1, <2>2, Zenon
    <2> QED
        BY <2>3, <2>4, DepthAssumption DEF Counted
<1> QED
    BY <1>1, <1>2, <1>3 DEF AdmInv

\* A request past the lookup has an instance; a parked one is nowhere else.
LEMMA InvFacts ==
    ASSUME AdmInv, NEW r \in Requests
    PROVE  /\ adm[r] # "idle" <=> target[r] \in Instances
           /\ adm[r] \in Stages
           /\ \A i \in Instances :
                /\ queueLen[i] \in Nat /\ genLen[i] \in Nat
                /\ queueWait[i] \in Seq(Requests) /\ genWait[i] \in Seq(Requests)
                /\ \A k \in 1..Len(queueWait[i]) :
                      adm[queueWait[i][k]] = "inQueue" /\ target[queueWait[i][k]] = i
                /\ \A k \in 1..Len(genWait[i]) :
                      adm[genWait[i][k]] = "inGen" /\ target[genWait[i][k]] = i
<1>1. /\ adm[r] # "idle" <=> target[r] \in Instances
      /\ adm[r] \in Stages
    BY NoInstAssumption DEF AdmInv, AdmTypeOK
<1>2. ASSUME NEW i \in Instances
      PROVE  /\ queueLen[i] \in Nat /\ genLen[i] \in Nat
             /\ queueWait[i] \in Seq(Requests) /\ genWait[i] \in Seq(Requests)
    BY DepthAssumption DEF AdmInv, AdmTypeOK
<1>3. ASSUME NEW i \in Instances
      PROVE  /\ \A k \in 1..Len(queueWait[i]) :
                   adm[queueWait[i][k]] = "inQueue" /\ target[queueWait[i][k]] = i
             /\ \A k \in 1..Len(genWait[i]) :
                   adm[genWait[i][k]] = "inGen" /\ target[genWait[i][k]] = i
    BY DEF AdmInv, Parked
<1> QED
    BY <1>1, <1>2, <1>3

\* A step that moves one unparked request and leaves the wait queues alone
\* keeps every waiter parked.
LEMMA ParkedKept ==
    ASSUME AdmInv, NEW r \in Requests, adm[r] \notin {"inQueue", "inGen"},
           NEW st, adm' = [adm EXCEPT ![r] = st],
           NEW t, target' = [target EXCEPT ![r] = t],
           UNCHANGED <<queueWait, genWait>>
    PROVE  Parked(queueWait, "inQueue")' /\ Parked(genWait, "inGen")'
    BY DEF AdmInv, AdmTypeOK, Parked

\* Who is parked on queueCh stays so in a step that leaves its waiters alone.
LEMMA QueueWaitersKept ==
    ASSUME AdmInv, UNCHANGED queueWait,
           \A q \in Requests : adm[q] = "inQueue" => adm'[q] = "inQueue" /\ target'[q] = target[q]
    PROVE  Parked(queueWait, "inQueue")'
<1> SUFFICES ASSUME NEW j \in Instances
             PROVE  /\ \A n \in 1..Len(queueWait[j]) :
                         adm'[queueWait[j][n]] = "inQueue" /\ target'[queueWait[j][n]] = j
                    /\ \A k, l \in 1..Len(queueWait[j]) : queueWait[j][k] = queueWait[j][l] => k = l
    BY DEF Parked
<1>1. queueWait[j] \in Seq(Requests)
    BY DEF AdmInv, AdmTypeOK
<1>2. \A n \in 1..Len(queueWait[j]) : queueWait[j][n] \in Requests
    BY <1>1
<1>3. \A n \in 1..Len(queueWait[j]) : adm[queueWait[j][n]] = "inQueue" /\ target[queueWait[j][n]] = j
    BY DEF AdmInv, Parked
<1>4. \A k, l \in 1..Len(queueWait[j]) : queueWait[j][k] = queueWait[j][l] => k = l
    BY DEF AdmInv, Parked
<1> QED
    BY <1>2, <1>3, <1>4

\* Who is parked on genCh stays so in a step that leaves its waiters alone.
LEMMA GenWaitersKept ==
    ASSUME AdmInv, UNCHANGED genWait,
           \A q \in Requests : adm[q] = "inGen" => adm'[q] = "inGen" /\ target'[q] = target[q]
    PROVE  Parked(genWait, "inGen")'
<1> SUFFICES ASSUME NEW j \in Instances
             PROVE  /\ \A n \in 1..Len(genWait[j]) :
                         adm'[genWait[j][n]] = "inGen" /\ target'[genWait[j][n]] = j
                    /\ \A k, l \in 1..Len(genWait[j]) : genWait[j][k] = genWait[j][l] => k = l
    BY DEF Parked
<1>1. genWait[j] \in Seq(Requests)
    BY DEF AdmInv, AdmTypeOK
<1>2. \A n \in 1..Len(genWait[j]) : genWait[j][n] \in Requests
    BY <1>1
<1>3. \A n \in 1..Len(genWait[j]) : adm[genWait[j][n]] = "inGen" /\ target[genWait[j][n]] = j
    BY DEF AdmInv, Parked
<1>4. \A k, l \in 1..Len(genWait[j]) : genWait[j][k] = genWait[j][l] => k = l
    BY DEF AdmInv, Parked
<1> QED
    BY <1>2, <1>3, <1>4

\* If a step changes no holder and no length, the lengths still count.
LEMMA CountedKept ==
    ASSUME Counted, UNCHANGED <<queueLen, genLen>>,
           \A i \in Instances : QueueHolders(i)' = QueueHolders(i)
                             /\ GenHolders(i)' = GenHolders(i)
    PROVE  Counted'
    BY DEF Counted

\* A looked-up instance is not yet held.
LEMMA LookupKeepsInv ==
    ASSUME AdmInv, NEW r \in Requests, NEW i \in Instances, Lookup(r, i)
    PROVE  AdmInv'
<1>1. AdmTypeOK'
    BY NoInstAssumption DEF AdmInv, AdmTypeOK, Lookup, Goto, Stages
<1>2. Parked(queueWait, "inQueue")' /\ Parked(genWait, "inGen")'
    BY ParkedKept DEF Lookup, Goto
<1>3. Counted'
    <2>1. \A j \in Instances : QueueHolders(j)' = QueueHolders(j)
                            /\ GenHolders(j)' = GenHolders(j)
        BY DEF AdmInv, AdmTypeOK, Lookup, Goto, QueueHolders, GenHolders, HoldsQueue, HoldsGen
    <2> QED
        BY <2>1, CountedKept DEF AdmInv, Lookup
<1> QED
    BY <1>1, <1>2, <1>3 DEF AdmInv
\* A refused request held nothing.
LEMMA RefuseKeepsInv ==
    ASSUME AdmInv, NEW r \in Requests, Refuse(r)
    PROVE  AdmInv'
<1>1. AdmTypeOK'
    BY NoInstAssumption DEF AdmInv, AdmTypeOK, Refuse, Return, Goto, Stages, HoldsQueue, HoldsGen
<1>2. Parked(queueWait, "inQueue")' /\ Parked(genWait, "inGen")'
    BY ParkedKept DEF Refuse, Return, Goto
<1>3. Counted'
    <2>1. \A j \in Instances : QueueHolders(j)' = QueueHolders(j)
                            /\ GenHolders(j)' = GenHolders(j)
        BY NoInstAssumption
           DEF AdmInv, AdmTypeOK, Refuse, Return, Goto,
               QueueHolders, GenHolders, HoldsQueue, HoldsGen
    <2> QED
        BY <2>1, CountedKept DEF AdmInv, Refuse
<1> QED
    BY <1>1, <1>2, <1>3 DEF AdmInv

\* Passing the checks acquires nothing.
LEMMA PassChecksKeepsInv ==
    ASSUME AdmInv, NEW r \in Requests, PassChecks(r)
    PROVE  AdmInv'
<1>1. AdmTypeOK'
    BY NoInstAssumption DEF AdmInv, AdmTypeOK, PassChecks, Goto, Stages, HoldsQueue, HoldsGen
<1>2. Parked(queueWait, "inQueue")' /\ Parked(genWait, "inGen")'
    <2>1. target' = [target EXCEPT ![r] = target[r]]
        BY DEF AdmInv, AdmTypeOK, PassChecks
    <2> QED
        BY <2>1, ParkedKept DEF PassChecks, Goto
<1>3. Counted'
    <2>1. \A j \in Instances : QueueHolders(j)' = QueueHolders(j)
                            /\ GenHolders(j)' = GenHolders(j)
        BY NoInstAssumption
           DEF AdmInv, AdmTypeOK, PassChecks, Goto,
               QueueHolders, GenHolders, HoldsQueue, HoldsGen
    <2> QED
        BY <2>1, CountedKept DEF AdmInv, PassChecks
<1> QED
    BY <1>1, <1>2, <1>3 DEF AdmInv

\* The request keeps its queue slot, to go on or to give it back.
LEMMA RecheckCtxKeepsInv ==
    ASSUME AdmInv, NEW r \in Requests, RecheckCtx(r)
    PROVE  AdmInv'
<1>1. AdmTypeOK'
    BY NoInstAssumption DEF AdmInv, AdmTypeOK, RecheckCtx, Goto, Stages, HoldsQueue, HoldsGen
<1>2. Parked(queueWait, "inQueue")' /\ Parked(genWait, "inGen")'
    <2>1. target' = [target EXCEPT ![r] = target[r]]
        BY DEF AdmInv, AdmTypeOK, RecheckCtx
    <2> QED
        BY <2>1, ParkedKept DEF RecheckCtx, Goto
<1>3. Counted'
    <2>1. \A j \in Instances : QueueHolders(j)' = QueueHolders(j)
                            /\ GenHolders(j)' = GenHolders(j)
        BY NoInstAssumption
           DEF AdmInv, AdmTypeOK, RecheckCtx, Goto,
               QueueHolders, GenHolders, HoldsQueue, HoldsGen
    <2> QED
        BY <2>1, CountedKept DEF AdmInv, RecheckCtx
<1> QED
    BY <1>1, <1>2, <1>3 DEF AdmInv

\* The owner of both slots keeps them.
LEMMA GrantKeepsInv ==
    ASSUME AdmInv, NEW r \in Requests, Grant(r)
    PROVE  AdmInv'
<1>1. AdmTypeOK'
    BY NoInstAssumption DEF AdmInv, AdmTypeOK, Grant, Goto, Stages, HoldsQueue, HoldsGen
<1>2. Parked(queueWait, "inQueue")' /\ Parked(genWait, "inGen")'
    <2>1. target' = [target EXCEPT ![r] = target[r]]
        BY DEF AdmInv, AdmTypeOK, Grant
    <2> QED
        BY <2>1, ParkedKept DEF Grant, Goto
<1>3. Counted'
    <2>1. \A j \in Instances : QueueHolders(j)' = QueueHolders(j)
                            /\ GenHolders(j)' = GenHolders(j)
        BY NoInstAssumption
           DEF AdmInv, AdmTypeOK, Grant, Goto,
               QueueHolders, GenHolders, HoldsQueue, HoldsGen
    <2> QED
        BY <2>1, CountedKept DEF AdmInv, Grant
<1> QED
    BY <1>1, <1>2, <1>3 DEF AdmInv

\* A context that ends changes no channel.
LEMMA CancelKeepsInv ==
    ASSUME AdmInv, NEW r \in Requests, Cancel(r)
    PROVE  AdmInv'
<1>1. AdmTypeOK'
    BY DEF AdmInv, AdmTypeOK, Cancel
<1>2. Parked(queueWait, "inQueue")' /\ Parked(genWait, "inGen")'
    BY DEF AdmInv, Parked, Cancel
<1>3. Counted'
    BY DEF AdmInv, Counted, Cancel, QueueHolders, GenHolders
<1> QED
    BY <1>1, <1>2, <1>3 DEF AdmInv

\* Nor does a new context.
LEMMA FreshCtxKeepsInv ==
    ASSUME AdmInv, NEW r \in Requests, FreshCtx(r)
    PROVE  AdmInv'
<1>1. AdmTypeOK'
    BY DEF AdmInv, AdmTypeOK, FreshCtx
<1>2. Parked(queueWait, "inQueue")' /\ Parked(genWait, "inGen")'
    BY DEF AdmInv, Parked, FreshCtx
<1>3. Counted'
    BY DEF AdmInv, Counted, FreshCtx, QueueHolders, GenHolders
<1> QED
    BY <1>1, <1>2, <1>3 DEF AdmInv

\* A request that parks on queueCh was in no wait queue and joins the end of one.
LEMMA ParkQueueKeepsInv ==
    ASSUME AdmInv, NEW r \in Requests, ParkQueue(r)
    PROVE  AdmInv'
<1> DEFINE i == target[r]
<1>1. i \in Instances /\ adm[r] = "atQueue" /\ queueWait[i] \in Seq(Requests)
    BY InvFacts DEF ParkQueue
<1>2. /\ adm' = [adm EXCEPT ![r] = "inQueue"]
      /\ queueWait' = [queueWait EXCEPT ![i] = Append(@, r)]
      /\ UNCHANGED <<target, ctxDone, queueLen, genLen, genWait>>
    BY DEF ParkQueue, Goto
<1> HIDE DEF i
<1>3. AdmTypeOK'
    BY <1>1, <1>2 DEF AdmInv, AdmTypeOK, Stages, HoldsQueue
<1>4. Parked(queueWait, "inQueue")'
    <2> SUFFICES ASSUME NEW j \in Instances
                 PROVE  /\ \A k \in 1..Len(queueWait'[j]) :
                             adm'[queueWait'[j][k]] = "inQueue" /\ target'[queueWait'[j][k]] = j
                        /\ \A k, l \in 1..Len(queueWait'[j]) :
                             queueWait'[j][k] = queueWait'[j][l] => k = l
        BY DEF Parked
    <2>1. /\ \A k \in 1..Len(queueWait[j]) :
                /\ queueWait[j][k] \in Requests
                /\ adm[queueWait[j][k]] = "inQueue" /\ target[queueWait[j][k]] = j
          /\ \A k, l \in 1..Len(queueWait[j]) : queueWait[j][k] = queueWait[j][l] => k = l
        BY DEF AdmInv, AdmTypeOK, Parked
    <2>2. CASE j = i
        <3>1. queueWait'[j] = Append(queueWait[j], r) /\ queueWait[j] \in Seq(Requests)
            BY <1>1, <1>2, <2>2 DEF AdmInv, AdmTypeOK
        <3>2. adm'[r] = "inQueue" /\ target'[r] = j
            BY <1>2, <2>2 DEF AdmInv, AdmTypeOK, i
        <3>3. \A k \in 1..Len(queueWait[j]) :
                /\ queueWait[j][k] # r
                /\ adm'[queueWait[j][k]] = "inQueue" /\ target'[queueWait[j][k]] = j
            BY <1>1, <1>2, <2>1 DEF AdmInv, AdmTypeOK
        <3>4. /\ Distinct(queueWait'[j])
              /\ \A k \in 1..Len(queueWait'[j]) :
                    queueWait'[j][k] = r \/ \E l \in 1..Len(queueWait[j]) : queueWait'[j][k] = queueWait[j][l]
            BY <2>1, <3>1, <3>3, JoinDistinct DEF Distinct
        <3> QED
            BY <3>2, <3>3, <3>4 DEF Distinct
    <2>3. CASE j # i
        <3>1. queueWait'[j] = queueWait[j]
            BY <1>2, <2>3 DEF AdmInv, AdmTypeOK
        <3> QED
            BY <1>1, <1>2, <2>1, <3>1 DEF AdmInv, AdmTypeOK
    <2> QED
        BY <2>2, <2>3
<1>5. Parked(genWait, "inGen")'
    <2>1. \A q \in Requests : adm[q] = "inGen" => adm'[q] = "inGen" /\ target'[q] = target[q]
        BY <1>1, <1>2 DEF AdmInv, AdmTypeOK
    <2> QED
        BY <1>1, <1>2, <2>1, GenWaitersKept
<1>6. Counted'
    <2>1. \A j \in Instances : QueueHolders(j)' = QueueHolders(j)
                            /\ GenHolders(j)' = GenHolders(j)
        BY <1>1, <1>2 DEF AdmInv, AdmTypeOK, QueueHolders, GenHolders, HoldsQueue, HoldsGen
    <2> QED
        BY <1>2, <2>1, CountedKept DEF AdmInv
<1> QED
    BY <1>3, <1>4, <1>5, <1>6 DEF AdmInv

\* A request that parks on genCh was in no wait queue and joins the end of one.
LEMMA ParkGenKeepsInv ==
    ASSUME AdmInv, NEW r \in Requests, ParkGen(r)
    PROVE  AdmInv'
<1> DEFINE i == target[r]
<1>1. i \in Instances /\ adm[r] = "atGen" /\ genWait[i] \in Seq(Requests)
    BY InvFacts DEF ParkGen
<1>2. /\ adm' = [adm EXCEPT ![r] = "inGen"]
      /\ genWait' = [genWait EXCEPT ![i] = Append(@, r)]
      /\ UNCHANGED <<target, ctxDone, queueLen, genLen, queueWait>>
    BY DEF ParkGen, Goto
<1> HIDE DEF i
<1>3. AdmTypeOK'
    BY <1>1, <1>2 DEF AdmInv, AdmTypeOK, Stages, HoldsQueue
<1>4. Parked(genWait, "inGen")'
    <2> SUFFICES ASSUME NEW j \in Instances
                 PROVE  /\ \A k \in 1..Len(genWait'[j]) :
                             adm'[genWait'[j][k]] = "inGen" /\ target'[genWait'[j][k]] = j
                        /\ \A k, l \in 1..Len(genWait'[j]) :
                             genWait'[j][k] = genWait'[j][l] => k = l
        BY DEF Parked
    <2>1. /\ \A k \in 1..Len(genWait[j]) :
                /\ genWait[j][k] \in Requests
                /\ adm[genWait[j][k]] = "inGen" /\ target[genWait[j][k]] = j
          /\ \A k, l \in 1..Len(genWait[j]) : genWait[j][k] = genWait[j][l] => k = l
        BY DEF AdmInv, AdmTypeOK, Parked
    <2>2. CASE j = i
        <3>1. genWait'[j] = Append(genWait[j], r) /\ genWait[j] \in Seq(Requests)
            BY <1>1, <1>2, <2>2 DEF AdmInv, AdmTypeOK
        <3>2. adm'[r] = "inGen" /\ target'[r] = j
            BY <1>2, <2>2 DEF AdmInv, AdmTypeOK, i
        <3>3. \A k \in 1..Len(genWait[j]) :
                /\ genWait[j][k] # r
                /\ adm'[genWait[j][k]] = "inGen" /\ target'[genWait[j][k]] = j
            BY <1>1, <1>2, <2>1 DEF AdmInv, AdmTypeOK
        <3>4. /\ Distinct(genWait'[j])
              /\ \A k \in 1..Len(genWait'[j]) :
                    genWait'[j][k] = r \/ \E l \in 1..Len(genWait[j]) : genWait'[j][k] = genWait[j][l]
            BY <2>1, <3>1, <3>3, JoinDistinct DEF Distinct
        <3> QED
            BY <3>2, <3>3, <3>4 DEF Distinct
    <2>3. CASE j # i
        <3>1. genWait'[j] = genWait[j]
            BY <1>2, <2>3 DEF AdmInv, AdmTypeOK
        <3> QED
            BY <1>1, <1>2, <2>1, <3>1 DEF AdmInv, AdmTypeOK
    <2> QED
        BY <2>2, <2>3
<1>5. Parked(queueWait, "inQueue")'
    <2>1. \A q \in Requests : adm[q] = "inQueue" => adm'[q] = "inQueue" /\ target'[q] = target[q]
        BY <1>1, <1>2 DEF AdmInv, AdmTypeOK
    <2> QED
        BY <1>1, <1>2, <2>1, QueueWaitersKept
<1>6. Counted'
    <2>1. \A j \in Instances : QueueHolders(j)' = QueueHolders(j)
                            /\ GenHolders(j)' = GenHolders(j)
        BY <1>1, <1>2 DEF AdmInv, AdmTypeOK, QueueHolders, GenHolders, HoldsQueue, HoldsGen
    <2> QED
        BY <1>2, <2>1, CountedKept DEF AdmInv
<1> QED
    BY <1>3, <1>4, <1>5, <1>6 DEF AdmInv

\* A select on queueCh that ends otherwise takes nothing along.
LEMMA QueueSelectFailsKeepsInv ==
    ASSUME AdmInv, NEW r \in Requests, QueueSelectFails(r)
    PROVE  AdmInv'
<1> DEFINE i == target[r]
<1>1. /\ i \in Instances
      /\ adm[r] \in {"atQueue", "inQueue"}
      /\ adm' = [adm EXCEPT ![r] = "idle"]
      /\ target' = [target EXCEPT ![r] = NoInst]
      /\ UNCHANGED <<ctxDone, queueLen, genLen, genWait>>
    BY InvFacts DEF QueueSelectFails, Return, Goto, AdmInv, AdmTypeOK
<1>2. \/ adm[r] = "atQueue" /\ UNCHANGED queueWait
      \/ adm[r] = "inQueue" /\ LeaveQueueWait(r, i)
    BY DEF QueueSelectFails
<1> HIDE DEF i
<1>3. ASSUME adm[r] = "atQueue", UNCHANGED queueWait
      PROVE  /\ queueWait' \in [Instances -> Seq(Requests)]
             /\ Parked(queueWait, "inQueue")' /\ Parked(genWait, "inGen")'
    <2>1. queueWait' \in [Instances -> Seq(Requests)]
        BY <1>3 DEF AdmInv, AdmTypeOK
    <2>2. Parked(queueWait, "inQueue")' /\ Parked(genWait, "inGen")'
        BY <1>1, <1>3, ParkedKept
    <2> QED
        BY <2>1, <2>2
<1>4. ASSUME adm[r] = "inQueue", LeaveQueueWait(r, i)
      PROVE  /\ queueWait' \in [Instances -> Seq(Requests)]
             /\ Parked(queueWait, "inQueue")' /\ Parked(genWait, "inGen")'
    <2>1. PICK k \in 1..Len(queueWait[i]) :
            /\ queueWait[i][k] = r
            /\ queueWait' = [queueWait EXCEPT ![i] = RemoveAt(@, k)]
        BY <1>4 DEF LeaveQueueWait
    <2>2. queueWait[i] \in Seq(Requests) /\ Distinct(queueWait[i])
        BY <1>1 DEF AdmInv, AdmTypeOK, Parked, Distinct
    <2>3. /\ RemoveAt(queueWait[i], k) \in Seq(Requests)
          /\ Distinct(RemoveAt(queueWait[i], k))
          /\ \A j \in 1..Len(RemoveAt(queueWait[i], k)) :
                \E l \in 1..Len(queueWait[i]) :
                    RemoveAt(queueWait[i], k)[j] = queueWait[i][l] /\ queueWait[i][l] # r
        BY <2>1, <2>2, LeaveDistinct
    <2>4. queueWait' \in [Instances -> Seq(Requests)]
        BY <2>1, <2>3 DEF AdmInv, AdmTypeOK
    <2>5. Parked(queueWait, "inQueue")'
        <3> SUFFICES ASSUME NEW j \in Instances
                     PROVE  /\ \A n \in 1..Len(queueWait'[j]) :
                                 adm'[queueWait'[j][n]] = "inQueue" /\ target'[queueWait'[j][n]] = j
                            /\ Distinct(queueWait'[j])
            BY DEF Parked, Distinct
        <3>1. /\ \A n \in 1..Len(queueWait[j]) :
                    /\ queueWait[j][n] \in Requests
                    /\ adm[queueWait[j][n]] = "inQueue" /\ target[queueWait[j][n]] = j
              /\ Distinct(queueWait[j])
            BY DEF AdmInv, AdmTypeOK, Parked, Distinct
        <3>2. CASE j = i
            <4>1. PICK t : t = RemoveAt(queueWait[i], k)
                OBVIOUS
            <4>2. /\ Distinct(t)
                  /\ \A n \in 1..Len(t) : \E l \in 1..Len(queueWait[i]) :
                        t[n] = queueWait[i][l] /\ queueWait[i][l] # r
                BY <2>3, <4>1
            <4>3. queueWait'[j] = t
                BY <1>1, <2>1, <3>2, <4>1 DEF AdmInv, AdmTypeOK
            <4>4. \A l \in 1..Len(queueWait[i]) : queueWait[i][l] # r =>
                    adm'[queueWait[i][l]] = "inQueue" /\ target'[queueWait[i][l]] = j
                BY <1>1, <3>1, <3>2 DEF AdmInv, AdmTypeOK
            <4>5. ASSUME NEW n \in 1..Len(t)
                  PROVE  adm'[t[n]] = "inQueue" /\ target'[t[n]] = j
                <5>1. PICK l \in 1..Len(queueWait[i]) :
                        t[n] = queueWait[i][l] /\ queueWait[i][l] # r
                    BY <4>2
                <5> QED
                    BY <4>4, <5>1
            <4> QED
                BY <4>2, <4>3, <4>5
        <3>3. CASE j # i
            <4>1. queueWait'[j] = queueWait[j]
                BY <2>1, <3>3 DEF AdmInv, AdmTypeOK
            <4>2. \A n \in 1..Len(queueWait[j]) : queueWait[j][n] # r
                BY <3>1, <3>3 DEF i
            <4> QED
                BY <1>1, <3>1, <4>1, <4>2 DEF AdmInv, AdmTypeOK
        <3> QED
            BY <3>2, <3>3
    <2>6. Parked(genWait, "inGen")'
        <3>1. \A q \in Requests : adm[q] = "inGen" => adm'[q] = "inGen" /\ target'[q] = target[q]
            BY <1>1, <1>4 DEF AdmInv, AdmTypeOK
        <3> QED
            BY <1>1, <1>4, <3>1, GenWaitersKept
    <2> QED
        BY <2>4, <2>5, <2>6
<1>5. /\ queueWait' \in [Instances -> Seq(Requests)]
      /\ Parked(queueWait, "inQueue")' /\ Parked(genWait, "inGen")'
    BY <1>2, <1>3, <1>4
<1>6. AdmTypeOK'
    BY <1>1, <1>5, NoInstAssumption DEF AdmInv, AdmTypeOK, Stages, HoldsQueue, i
<1>7. Counted'
    <2>1. \A j \in Instances : QueueHolders(j)' = QueueHolders(j)
                            /\ GenHolders(j)' = GenHolders(j)
        BY <1>1, NoInstAssumption
           DEF AdmInv, AdmTypeOK, QueueHolders, GenHolders, HoldsQueue, HoldsGen
    <2> QED
        BY <1>1, <2>1, CountedKept DEF AdmInv
<1> QED
    BY <1>5, <1>6, <1>7 DEF AdmInv

\* A select on genCh that ends otherwise keeps the queue slot only.
LEMMA GenSelectFailsKeepsInv ==
    ASSUME AdmInv, NEW r \in Requests, GenSelectFails(r)
    PROVE  AdmInv'
<1> DEFINE i == target[r]
<1>1. /\ i \in Instances
      /\ adm[r] \in {"atGen", "inGen"}
      /\ adm' = [adm EXCEPT ![r] = "abandon"]
      /\ target' = [target EXCEPT ![r] = target[r]]
      /\ UNCHANGED <<ctxDone, queueLen, genLen, queueWait>>
    BY InvFacts DEF GenSelectFails, Return, Goto, AdmInv, AdmTypeOK
<1>2. \/ adm[r] = "atGen" /\ UNCHANGED genWait
      \/ adm[r] = "inGen" /\ LeaveGenWait(r, i)
    BY DEF GenSelectFails
<1> HIDE DEF i
<1>3. ASSUME adm[r] = "atGen", UNCHANGED genWait
      PROVE  /\ genWait' \in [Instances -> Seq(Requests)]
             /\ Parked(queueWait, "inQueue")' /\ Parked(genWait, "inGen")'
    <2>1. genWait' \in [Instances -> Seq(Requests)]
        BY <1>3 DEF AdmInv, AdmTypeOK
    <2>2. Parked(queueWait, "inQueue")' /\ Parked(genWait, "inGen")'
        BY <1>1, <1>3, ParkedKept
    <2> QED
        BY <2>1, <2>2
<1>4. ASSUME adm[r] = "inGen", LeaveGenWait(r, i)
      PROVE  /\ genWait' \in [Instances -> Seq(Requests)]
             /\ Parked(queueWait, "inQueue")' /\ Parked(genWait, "inGen")'
    <2>1. PICK k \in 1..Len(genWait[i]) :
            /\ genWait[i][k] = r
            /\ genWait' = [genWait EXCEPT ![i] = RemoveAt(@, k)]
        BY <1>4 DEF LeaveGenWait
    <2>2. genWait[i] \in Seq(Requests) /\ Distinct(genWait[i])
        BY <1>1 DEF AdmInv, AdmTypeOK, Parked, Distinct
    <2>3. /\ RemoveAt(genWait[i], k) \in Seq(Requests)
          /\ Distinct(RemoveAt(genWait[i], k))
          /\ \A j \in 1..Len(RemoveAt(genWait[i], k)) :
                \E l \in 1..Len(genWait[i]) :
                    RemoveAt(genWait[i], k)[j] = genWait[i][l] /\ genWait[i][l] # r
        BY <2>1, <2>2, LeaveDistinct
    <2>4. genWait' \in [Instances -> Seq(Requests)]
        BY <2>1, <2>3 DEF AdmInv, AdmTypeOK
    <2>5. Parked(genWait, "inGen")'
        <3> SUFFICES ASSUME NEW j \in Instances
                     PROVE  /\ \A n \in 1..Len(genWait'[j]) :
                                 adm'[genWait'[j][n]] = "inGen" /\ target'[genWait'[j][n]] = j
                            /\ Distinct(genWait'[j])
            BY DEF Parked, Distinct
        <3>1. /\ \A n \in 1..Len(genWait[j]) :
                    /\ genWait[j][n] \in Requests
                    /\ adm[genWait[j][n]] = "inGen" /\ target[genWait[j][n]] = j
              /\ Distinct(genWait[j])
            BY DEF AdmInv, AdmTypeOK, Parked, Distinct
        <3>2. CASE j = i
            <4>1. PICK t : t = RemoveAt(genWait[i], k)
                OBVIOUS
            <4>2. /\ Distinct(t)
                  /\ \A n \in 1..Len(t) : \E l \in 1..Len(genWait[i]) :
                        t[n] = genWait[i][l] /\ genWait[i][l] # r
                BY <2>3, <4>1
            <4>3. genWait'[j] = t
                BY <1>1, <2>1, <3>2, <4>1 DEF AdmInv, AdmTypeOK
            <4>4. \A l \in 1..Len(genWait[i]) : genWait[i][l] # r =>
                    adm'[genWait[i][l]] = "inGen" /\ target'[genWait[i][l]] = j
                BY <1>1, <3>1, <3>2 DEF AdmInv, AdmTypeOK
            <4>5. ASSUME NEW n \in 1..Len(t)
                  PROVE  adm'[t[n]] = "inGen" /\ target'[t[n]] = j
                <5>1. PICK l \in 1..Len(genWait[i]) :
                        t[n] = genWait[i][l] /\ genWait[i][l] # r
                    BY <4>2
                <5> QED
                    BY <4>4, <5>1
            <4> QED
                BY <4>2, <4>3, <4>5
        <3>3. CASE j # i
            <4>1. genWait'[j] = genWait[j]
                BY <2>1, <3>3 DEF AdmInv, AdmTypeOK
            <4>2. \A n \in 1..Len(genWait[j]) : genWait[j][n] # r
                BY <3>1, <3>3 DEF i
            <4> QED
                BY <1>1, <3>1, <4>1, <4>2 DEF AdmInv, AdmTypeOK
        <3> QED
            BY <3>2, <3>3
    <2>6. Parked(queueWait, "inQueue")'
        <3>1. \A q \in Requests : adm[q] = "inQueue" => adm'[q] = "inQueue" /\ target'[q] = target[q]
            BY <1>1, <1>4 DEF AdmInv, AdmTypeOK
        <3> QED
            BY <1>1, <1>4, <3>1, QueueWaitersKept
    <2> QED
        BY <2>4, <2>5, <2>6
<1>5. /\ genWait' \in [Instances -> Seq(Requests)]
      /\ Parked(queueWait, "inQueue")' /\ Parked(genWait, "inGen")'
    BY <1>2, <1>3, <1>4
<1>6. AdmTypeOK'
    BY <1>1, <1>5, NoInstAssumption DEF AdmInv, AdmTypeOK, Stages, HoldsQueue, i
<1>7. Counted'
    <2>1. \A j \in Instances : QueueHolders(j)' = QueueHolders(j)
                            /\ GenHolders(j)' = GenHolders(j)
        BY <1>1, NoInstAssumption
           DEF AdmInv, AdmTypeOK, QueueHolders, GenHolders, HoldsQueue, HoldsGen
    <2> QED
        BY <1>1, <2>1, CountedKept DEF AdmInv
<1> QED
    BY <1>5, <1>6, <1>7 DEF AdmInv

\* The send on queueCh adds one token and one holder.
LEMMA ReserveQueueKeepsInv ==
    ASSUME AdmInv, NEW r \in Requests, NEW i \in Instances, target[r] = i, ReserveQueue(r)
    PROVE  AdmInv'
<1>1. /\ target[r] = i /\ adm[r] = "atQueue"
      /\ queueLen[i] \in Nat /\ queueLen[i] < MaxQueueDepth
    BY InvFacts DEF ReserveQueue
<1>2. /\ adm' = [adm EXCEPT ![r] = "slot"]
      /\ queueLen' = [queueLen EXCEPT ![i] = @ + 1]
      /\ UNCHANGED <<target, ctxDone, queueWait, genLen, genWait>>
    BY DEF ReserveQueue, Goto
<1>3. target' = [target EXCEPT ![r] = i]
    BY <1>2 DEF AdmInv, AdmTypeOK
<1>4. AdmTypeOK'
    <2>1. queueLen[i] + 1 \in 0..MaxQueueDepth
        BY <1>1, DepthAssumption
    <2> QED
        BY <1>1, <1>2, <2>1 DEF AdmInv, AdmTypeOK, Stages, HoldsQueue, HoldsGen
<1>5. Parked(queueWait, "inQueue")' /\ Parked(genWait, "inGen")'
    BY <1>1, <1>2, <1>3, ParkedKept
<1>6. Counted'
    <2>1. QueueHolders(i)' = QueueHolders(i) \cup {r} /\ r \notin QueueHolders(i)
        BY <1>1, <1>2
           DEF AdmInv, AdmTypeOK, QueueHolders, HoldsQueue, HoldsGen
    <2>2. \A j \in Instances : j # i => QueueHolders(j)' = QueueHolders(j)
        BY <1>1, <1>2
           DEF AdmInv, AdmTypeOK, QueueHolders, HoldsQueue, HoldsGen
    <2>3. \A j \in Instances : GenHolders(j)' = GenHolders(j)
        BY <1>1, <1>2
           DEF AdmInv, AdmTypeOK, GenHolders, HoldsQueue, HoldsGen
    <2>4. \A j \in Instances :
            /\ IsFiniteSet(QueueHolders(j)) /\ queueLen[j] = Cardinality(QueueHolders(j))
            /\ IsFiniteSet(GenHolders(j)) /\ genLen[j] = Cardinality(GenHolders(j))
            /\ queueLen[j] <= MaxQueueDepth /\ genLen[j] <= 1
        BY DEF AdmInv, Counted
    <2>5. IsFiniteSet(QueueHolders(i)') /\ Cardinality(QueueHolders(i)') = Cardinality(QueueHolders(i)) + 1
        BY <1>1, <2>1, <2>4, CountAdd
    <2>6. queueLen'[i] = queueLen[i] + 1 /\ \A j \in Instances : j # i => queueLen'[j] = queueLen[j]
        BY <1>1, <1>2 DEF AdmInv, AdmTypeOK
    <2> SUFFICES ASSUME NEW j \in Instances
                 PROVE  /\ IsFiniteSet(QueueHolders(j)') /\ queueLen'[j] = Cardinality(QueueHolders(j)')
                        /\ IsFiniteSet(GenHolders(j)') /\ genLen'[j] = Cardinality(GenHolders(j)')
                        /\ queueLen'[j] <= MaxQueueDepth /\ genLen'[j] <= 1
        BY DEF Counted
    <2>7. IsFiniteSet(GenHolders(j)') /\ genLen'[j] = Cardinality(GenHolders(j)') /\ genLen'[j] <= 1
        BY <1>2, <2>3, <2>4
    <2>8. CASE j = i
        BY <1>1, <2>4, <2>5, <2>6, <2>7, <2>8, DepthAssumption
    <2>9. CASE j # i
        BY <2>2, <2>4, <2>6, <2>7, <2>9
    <2> QED
        BY <2>8, <2>9
<1> QED
    BY <1>4, <1>5, <1>6 DEF AdmInv

\* The send on genCh adds one token and one holder; queueCh is untouched.
LEMMA AcquireGenKeepsInv ==
    ASSUME AdmInv, NEW r \in Requests, NEW i \in Instances, target[r] = i, AcquireGen(r)
    PROVE  AdmInv'
<1>1. /\ target[r] = i /\ adm[r] = "atGen"
      /\ genLen[i] \in Nat /\ genLen[i] < 1
    BY InvFacts DEF AcquireGen
<1>2. /\ adm' = [adm EXCEPT ![r] = "granted"]
      /\ genLen' = [genLen EXCEPT ![i] = @ + 1]
      /\ UNCHANGED <<target, ctxDone, queueWait, queueLen, genWait>>
    BY DEF AcquireGen, Goto
<1>3. target' = [target EXCEPT ![r] = i]
    BY <1>2 DEF AdmInv, AdmTypeOK
<1>4. AdmTypeOK'
    BY <1>1, <1>2 DEF AdmInv, AdmTypeOK, Stages, HoldsQueue, HoldsGen
<1>5. Parked(queueWait, "inQueue")' /\ Parked(genWait, "inGen")'
    BY <1>1, <1>2, <1>3, ParkedKept
<1>6. Counted'
    <2>1. GenHolders(i)' = GenHolders(i) \cup {r} /\ r \notin GenHolders(i)
        BY <1>1, <1>2
           DEF AdmInv, AdmTypeOK, GenHolders, HoldsQueue, HoldsGen
    <2>2. \A j \in Instances : j # i => GenHolders(j)' = GenHolders(j)
        BY <1>1, <1>2
           DEF AdmInv, AdmTypeOK, GenHolders, HoldsQueue, HoldsGen
    <2>3. \A j \in Instances : QueueHolders(j)' = QueueHolders(j)
        BY <1>1, <1>2
           DEF AdmInv, AdmTypeOK, QueueHolders, HoldsQueue, HoldsGen
    <2>4. \A j \in Instances :
            /\ IsFiniteSet(GenHolders(j)) /\ genLen[j] = Cardinality(GenHolders(j))
            /\ IsFiniteSet(QueueHolders(j)) /\ queueLen[j] = Cardinality(QueueHolders(j))
            /\ genLen[j] <= 1 /\ queueLen[j] <= MaxQueueDepth
        BY DEF AdmInv, Counted
    <2>5. IsFiniteSet(GenHolders(i)') /\ Cardinality(GenHolders(i)') = Cardinality(GenHolders(i)) + 1
        BY <1>1, <2>1, <2>4, CountAdd
    <2>6. genLen'[i] = genLen[i] + 1 /\ \A j \in Instances : j # i => genLen'[j] = genLen[j]
        BY <1>1, <1>2 DEF AdmInv, AdmTypeOK
    <2> SUFFICES ASSUME NEW j \in Instances
                 PROVE  /\ IsFiniteSet(GenHolders(j)') /\ genLen'[j] = Cardinality(GenHolders(j)')
                        /\ IsFiniteSet(QueueHolders(j)') /\ queueLen'[j] = Cardinality(QueueHolders(j)')
                        /\ genLen'[j] <= 1 /\ queueLen'[j] <= MaxQueueDepth
        BY DEF Counted
    <2>7. IsFiniteSet(QueueHolders(j)') /\ queueLen'[j] = Cardinality(QueueHolders(j)') /\ queueLen'[j] <= MaxQueueDepth
        BY <1>2, <2>3, <2>4
    <2>8. CASE j = i
        BY <1>1, <2>4, <2>5, <2>6, <2>7, <2>8, DepthAssumption
    <2>9. CASE j # i
        BY <2>2, <2>4, <2>6, <2>7, <2>9
    <2> QED
        BY <2>8, <2>9
<1> QED
    BY <1>4, <1>5, <1>6 DEF AdmInv

\* The receive on queueCh takes a token and a holder, or passes both on.
LEMMA ReceiveQueueKeepsInv ==
    ASSUME AdmInv, NEW r \in Requests, NEW i \in Instances, target[r] = i, ReceiveQueue(r)
    PROVE  AdmInv'
<1>1. /\ target[r] = i /\ adm[r] \in {"abandon", "release"}
      /\ queueLen[i] \in Nat /\ queueLen[i] > 0
      /\ target' = [target EXCEPT ![r] = NoInst]
      /\ UNCHANGED <<ctxDone, genLen, genWait>>
    BY InvFacts DEF ReceiveQueue, AdmInv, AdmTypeOK
<1>2. \A j \in Instances :
        /\ IsFiniteSet(QueueHolders(j)) /\ queueLen[j] = Cardinality(QueueHolders(j))
        /\ IsFiniteSet(GenHolders(j)) /\ genLen[j] = Cardinality(GenHolders(j))
        /\ queueLen[j] <= MaxQueueDepth /\ genLen[j] <= 1 /\ queueLen[j] \in Nat
    BY DEF AdmInv, AdmTypeOK, Counted
<1>3. r \in QueueHolders(i)
    BY <1>1 DEF QueueHolders, HoldsQueue, HoldsGen
<1>4. ASSUME \A j \in Instances : j # i => QueueHolders(j)' = QueueHolders(j) /\ queueLen'[j] = queueLen[j],
             \A j \in Instances : GenHolders(j)' = GenHolders(j),
             IsFiniteSet(QueueHolders(i)'), queueLen'[i] = Cardinality(QueueHolders(i)'), queueLen'[i] <= MaxQueueDepth
      PROVE  Counted'
    <2> SUFFICES ASSUME NEW j \in Instances
                 PROVE  /\ IsFiniteSet(QueueHolders(j)') /\ queueLen'[j] = Cardinality(QueueHolders(j)')
                        /\ IsFiniteSet(GenHolders(j)') /\ genLen'[j] = Cardinality(GenHolders(j)')
                        /\ queueLen'[j] <= MaxQueueDepth /\ genLen'[j] <= 1
        BY DEF Counted
    <2>1. IsFiniteSet(GenHolders(j)') /\ genLen'[j] = Cardinality(GenHolders(j)') /\ genLen'[j] <= 1
        BY <1>1, <1>2, <1>4
    <2>2. CASE j = i
        BY <1>4, <2>1, <2>2
    <2>3. CASE j # i
        BY <1>2, <1>4, <2>1, <2>3
    <2> QED
        BY <2>2, <2>3
<1>5. CASE queueWait[i] = <<>>
    <2>1. /\ adm' = [adm EXCEPT ![r] = "idle"]
          /\ queueLen' = [queueLen EXCEPT ![i] = @ - 1]
          /\ UNCHANGED queueWait
        BY <1>1, <1>5 DEF ReceiveQueue, Goto
    <2>2. AdmTypeOK'
        <3>1. queueLen[i] - 1 \in 0..MaxQueueDepth
            BY <1>1, <1>2, DepthAssumption
        <3> QED
            BY <1>1, <2>1, <3>1, NoInstAssumption DEF AdmInv, AdmTypeOK, Stages, HoldsQueue
    <2>3. Parked(queueWait, "inQueue")' /\ Parked(genWait, "inGen")'
        BY <1>1, <2>1, ParkedKept
    <2>4. QueueHolders(i)' = QueueHolders(i) \ {r}
        BY <1>1, <2>1, NoInstAssumption
           DEF AdmInv, AdmTypeOK, QueueHolders, HoldsQueue, HoldsGen
    <2>5. /\ \A j \in Instances : j # i => QueueHolders(j)' = QueueHolders(j)
          /\ \A j \in Instances : GenHolders(j)' = GenHolders(j)
        BY <1>1, <2>1, NoInstAssumption
           DEF AdmInv, AdmTypeOK, QueueHolders, GenHolders, HoldsQueue, HoldsGen
    <2>6. IsFiniteSet(QueueHolders(i)') /\ Cardinality(QueueHolders(i)') = Cardinality(QueueHolders(i)) - 1
        BY <1>2, <1>3, <2>4, CountRemove
    <2>7. /\ queueLen'[i] = queueLen[i] - 1
          /\ \A j \in Instances : j # i => queueLen'[j] = queueLen[j]
        BY <2>1 DEF AdmInv, AdmTypeOK
    <2>8. queueLen'[i] = Cardinality(QueueHolders(i)')
        BY <1>2, <2>6, <2>7
    <2>9. queueLen'[i] <= MaxQueueDepth
        BY <1>1, <1>2, <2>7, DepthAssumption
    <2>10. Counted'
        BY <1>4, <2>5, <2>6, <2>7, <2>8, <2>9
    <2> QED
        BY <2>2, <2>3, <2>10 DEF AdmInv
<1>6. CASE queueWait[i] # <<>>
    <2>1. queueWait[i] \in Seq(Requests) /\ Distinct(queueWait[i])
        BY DEF AdmInv, AdmTypeOK, Parked, Distinct
    <2>2. PICK h \in Requests : h = Head(queueWait[i])
        BY <1>6, <2>1, TailDistinct
    <2>3. /\ Tail(queueWait[i]) \in Seq(Requests) /\ Distinct(Tail(queueWait[i]))
          /\ 1 \in 1..Len(queueWait[i]) /\ h = queueWait[i][1]
          /\ \A j \in 1..Len(Tail(queueWait[i])) :
                \E l \in 1..Len(queueWait[i]) : Tail(queueWait[i])[j] = queueWait[i][l] /\ queueWait[i][l] # h
        BY <1>6, <2>1, <2>2, TailDistinct
    <2>4. /\ adm' = [adm EXCEPT ![r] = "idle", ![h] = "slot"]
          /\ queueWait' = [queueWait EXCEPT ![i] = Tail(@)]
          /\ UNCHANGED queueLen
        BY <1>1, <1>6, <2>2 DEF ReceiveQueue
    <2>5. adm[h] = "inQueue" /\ target[h] = i /\ h # r
        BY <1>1, <2>3 DEF AdmInv, Parked
    <2>6. AdmTypeOK'
        <3>1. queueWait' \in [Instances -> Seq(Requests)]
            BY <2>3, <2>4 DEF AdmInv, AdmTypeOK
        <3> QED
            BY <1>1, <2>4, <2>5, <3>1, NoInstAssumption
               DEF AdmInv, AdmTypeOK, Stages, HoldsQueue, HoldsGen
    <2>7. Parked(queueWait, "inQueue")'
        <3> SUFFICES ASSUME NEW j \in Instances
                     PROVE  /\ \A n \in 1..Len(queueWait'[j]) :
                                 adm'[queueWait'[j][n]] = "inQueue" /\ target'[queueWait'[j][n]] = j
                            /\ Distinct(queueWait'[j])
            BY DEF Parked, Distinct
        <3>1. /\ \A n \in 1..Len(queueWait[j]) :
                    /\ queueWait[j][n] \in Requests
                    /\ adm[queueWait[j][n]] = "inQueue" /\ target[queueWait[j][n]] = j
              /\ Distinct(queueWait[j])
            BY DEF AdmInv, AdmTypeOK, Parked, Distinct
        <3>2. CASE j = i
            <4>1. PICK t : t = Tail(queueWait[i])
                OBVIOUS
            <4>2. /\ Distinct(t)
                  /\ \A n \in 1..Len(t) : \E l \in 1..Len(queueWait[i]) :
                        t[n] = queueWait[i][l] /\ queueWait[i][l] # h
                BY <2>3, <4>1
            <4>3. queueWait'[j] = t
                BY <2>4, <3>2, <4>1 DEF AdmInv, AdmTypeOK
            <4>4. \A l \in 1..Len(queueWait[i]) : queueWait[i][l] # h =>
                    adm'[queueWait[i][l]] = "inQueue" /\ target'[queueWait[i][l]] = j
                BY <1>1, <2>4, <3>1, <3>2 DEF AdmInv, AdmTypeOK
            <4>5. ASSUME NEW n \in 1..Len(t)
                  PROVE  adm'[t[n]] = "inQueue" /\ target'[t[n]] = j
                <5>1. PICK l \in 1..Len(queueWait[i]) :
                        t[n] = queueWait[i][l] /\ queueWait[i][l] # h
                    BY <4>2
                <5> QED
                    BY <4>4, <5>1
            <4> QED
                BY <4>2, <4>3, <4>5
        <3>3. CASE j # i
            <4>1. queueWait'[j] = queueWait[j]
                BY <2>4, <3>3 DEF AdmInv, AdmTypeOK
            <4> QED
                BY <1>1, <2>4, <2>5, <3>1, <3>3, <4>1 DEF AdmInv, AdmTypeOK
        <3> QED
            BY <3>2, <3>3
    <2>8. Parked(genWait, "inGen")'
        <3>1. \A q \in Requests : adm[q] = "inGen" => adm'[q] = "inGen" /\ target'[q] = target[q]
            BY <1>1, <2>4, <2>5 DEF AdmInv, AdmTypeOK
        <3> QED
            BY <1>1, <2>4, <2>5, <3>1, GenWaitersKept
    <2>9. QueueHolders(i)' = (QueueHolders(i) \ {r}) \cup {h} /\ h \notin QueueHolders(i)
        BY <1>1, <2>4, <2>5, NoInstAssumption
           DEF AdmInv, AdmTypeOK, QueueHolders, HoldsQueue, HoldsGen
    <2>10. /\ \A j \in Instances : j # i => QueueHolders(j)' = QueueHolders(j)
           /\ \A j \in Instances : GenHolders(j)' = GenHolders(j)
        BY <1>1, <2>4, <2>5, NoInstAssumption
           DEF AdmInv, AdmTypeOK, QueueHolders, GenHolders, HoldsQueue, HoldsGen
    <2>11. IsFiniteSet(QueueHolders(i)') /\ Cardinality(QueueHolders(i)') = Cardinality(QueueHolders(i))
        BY <1>2, <1>3, <2>9, CountSwap
    <2>12. Counted'
        BY <1>2, <1>4, <2>4, <2>10, <2>11
    <2> QED
        BY <2>6, <2>7, <2>8, <2>12 DEF AdmInv
<1> QED
    BY <1>5, <1>6

\* The receive on genCh takes a token and a holder, or passes both on.
LEMMA ReceiveGenKeepsInv ==
    ASSUME AdmInv, NEW r \in Requests, NEW i \in Instances, target[r] = i, ReceiveGen(r)
    PROVE  AdmInv'
<1>1. /\ target[r] = i /\ adm[r] \in {"inflight"}
      /\ genLen[i] \in Nat /\ genLen[i] > 0
      /\ target' = [target EXCEPT ![r] = i]
      /\ UNCHANGED <<ctxDone, queueLen, queueWait>>
    BY InvFacts DEF ReceiveGen, AdmInv, AdmTypeOK
<1>2. \A j \in Instances :
        /\ IsFiniteSet(GenHolders(j)) /\ genLen[j] = Cardinality(GenHolders(j))
        /\ IsFiniteSet(QueueHolders(j)) /\ queueLen[j] = Cardinality(QueueHolders(j))
        /\ genLen[j] <= 1 /\ queueLen[j] <= MaxQueueDepth /\ genLen[j] \in Nat
    BY InvFacts DEF AdmInv, Counted
<1>3. r \in GenHolders(i)
    BY <1>1 DEF GenHolders, HoldsQueue, HoldsGen
<1>4. ASSUME \A j \in Instances : j # i => GenHolders(j)' = GenHolders(j) /\ genLen'[j] = genLen[j],
             \A j \in Instances : QueueHolders(j)' = QueueHolders(j),
             IsFiniteSet(GenHolders(i)'), genLen'[i] = Cardinality(GenHolders(i)'), genLen'[i] <= 1
      PROVE  Counted'
    <2> SUFFICES ASSUME NEW j \in Instances
                 PROVE  /\ IsFiniteSet(GenHolders(j)') /\ genLen'[j] = Cardinality(GenHolders(j)')
                        /\ IsFiniteSet(QueueHolders(j)') /\ queueLen'[j] = Cardinality(QueueHolders(j)')
                        /\ genLen'[j] <= 1 /\ queueLen'[j] <= MaxQueueDepth
        BY DEF Counted
    <2>1. IsFiniteSet(QueueHolders(j)') /\ queueLen'[j] = Cardinality(QueueHolders(j)') /\ queueLen'[j] <= MaxQueueDepth
        BY <1>1, <1>2, <1>4
    <2>2. CASE j = i
        BY <1>4, <2>1, <2>2
    <2>3. CASE j # i
        BY <1>2, <1>4, <2>1, <2>3
    <2> QED
        BY <2>2, <2>3
<1>5. CASE genWait[i] = <<>>
    <2>1. /\ adm' = [adm EXCEPT ![r] = "release"]
          /\ genLen' = [genLen EXCEPT ![i] = @ - 1]
          /\ UNCHANGED genWait
        BY <1>1, <1>5 DEF ReceiveGen, Goto
    <2>2. AdmTypeOK'
        BY <1>1, <2>1, NoInstAssumption DEF AdmInv, AdmTypeOK, Stages, HoldsQueue
    <2>3. Parked(queueWait, "inQueue")' /\ Parked(genWait, "inGen")'
        BY <1>1, <2>1, ParkedKept
    <2>4. GenHolders(i)' = GenHolders(i) \ {r}
        BY <1>1, <2>1, NoInstAssumption
           DEF AdmInv, AdmTypeOK, GenHolders, HoldsQueue, HoldsGen
    <2>5. /\ \A j \in Instances : j # i => GenHolders(j)' = GenHolders(j)
          /\ \A j \in Instances : QueueHolders(j)' = QueueHolders(j)
        BY <1>1, <2>1, NoInstAssumption
           DEF AdmInv, AdmTypeOK, QueueHolders, GenHolders, HoldsQueue, HoldsGen
    <2>6. IsFiniteSet(GenHolders(i)') /\ Cardinality(GenHolders(i)') = Cardinality(GenHolders(i)) - 1
        BY <1>2, <1>3, <2>4, CountRemove
    <2>7. /\ genLen'[i] = genLen[i] - 1
          /\ \A j \in Instances : j # i => genLen'[j] = genLen[j]
        BY <2>1 DEF AdmInv, AdmTypeOK
    <2>8. genLen'[i] = Cardinality(GenHolders(i)')
        BY <1>2, <2>6, <2>7
    <2>9. genLen'[i] <= 1
        BY <1>1, <1>2, <2>7, DepthAssumption
    <2>10. Counted'
        BY <1>4, <2>5, <2>6, <2>7, <2>8, <2>9
    <2> QED
        BY <2>2, <2>3, <2>10 DEF AdmInv
<1>6. CASE genWait[i] # <<>>
    <2>1. genWait[i] \in Seq(Requests) /\ Distinct(genWait[i])
        BY DEF AdmInv, AdmTypeOK, Parked, Distinct
    <2>2. PICK h \in Requests : h = Head(genWait[i])
        BY <1>6, <2>1, TailDistinct
    <2>3. /\ Tail(genWait[i]) \in Seq(Requests) /\ Distinct(Tail(genWait[i]))
          /\ 1 \in 1..Len(genWait[i]) /\ h = genWait[i][1]
          /\ \A j \in 1..Len(Tail(genWait[i])) :
                \E l \in 1..Len(genWait[i]) : Tail(genWait[i])[j] = genWait[i][l] /\ genWait[i][l] # h
        BY <1>6, <2>1, <2>2, TailDistinct
    <2>4. /\ adm' = [adm EXCEPT ![r] = "release", ![h] = "granted"]
          /\ genWait' = [genWait EXCEPT ![i] = Tail(@)]
          /\ UNCHANGED genLen
        BY <1>1, <1>6, <2>2 DEF ReceiveGen
    <2>5. adm[h] = "inGen" /\ target[h] = i /\ h # r
        BY <1>1, <2>3 DEF AdmInv, Parked
    <2>6. AdmTypeOK'
        <3>1. genWait' \in [Instances -> Seq(Requests)]
            BY <2>3, <2>4 DEF AdmInv, AdmTypeOK
        <3> QED
            BY <1>1, <2>4, <2>5, <3>1, NoInstAssumption
               DEF AdmInv, AdmTypeOK, Stages, HoldsQueue, HoldsGen
    <2>7. Parked(genWait, "inGen")'
        <3> SUFFICES ASSUME NEW j \in Instances
                     PROVE  /\ \A n \in 1..Len(genWait'[j]) :
                                 adm'[genWait'[j][n]] = "inGen" /\ target'[genWait'[j][n]] = j
                            /\ Distinct(genWait'[j])
            BY DEF Parked, Distinct
        <3>1. /\ \A n \in 1..Len(genWait[j]) :
                    /\ genWait[j][n] \in Requests
                    /\ adm[genWait[j][n]] = "inGen" /\ target[genWait[j][n]] = j
              /\ Distinct(genWait[j])
            BY DEF AdmInv, AdmTypeOK, Parked, Distinct
        <3>2. CASE j = i
            <4>1. PICK t : t = Tail(genWait[i])
                OBVIOUS
            <4>2. /\ Distinct(t)
                  /\ \A n \in 1..Len(t) : \E l \in 1..Len(genWait[i]) :
                        t[n] = genWait[i][l] /\ genWait[i][l] # h
                BY <2>3, <4>1
            <4>3. genWait'[j] = t
                BY <2>4, <3>2, <4>1 DEF AdmInv, AdmTypeOK
            <4>4. \A l \in 1..Len(genWait[i]) : genWait[i][l] # h =>
                    adm'[genWait[i][l]] = "inGen" /\ target'[genWait[i][l]] = j
                BY <1>1, <2>4, <3>1, <3>2 DEF AdmInv, AdmTypeOK
            <4>5. ASSUME NEW n \in 1..Len(t)
                  PROVE  adm'[t[n]] = "inGen" /\ target'[t[n]] = j
                <5>1. PICK l \in 1..Len(genWait[i]) :
                        t[n] = genWait[i][l] /\ genWait[i][l] # h
                    BY <4>2
                <5> QED
                    BY <4>4, <5>1
            <4> QED
                BY <4>2, <4>3, <4>5
        <3>3. CASE j # i
            <4>1. genWait'[j] = genWait[j]
                BY <2>4, <3>3 DEF AdmInv, AdmTypeOK
            <4> QED
                BY <1>1, <2>4, <2>5, <3>1, <3>3, <4>1 DEF AdmInv, AdmTypeOK
        <3> QED
            BY <3>2, <3>3
    <2>8. Parked(queueWait, "inQueue")'
        <3>1. \A q \in Requests : adm[q] = "inQueue" => adm'[q] = "inQueue" /\ target'[q] = target[q]
            BY <1>1, <2>4, <2>5 DEF AdmInv, AdmTypeOK
        <3> QED
            BY <1>1, <2>4, <2>5, <3>1, QueueWaitersKept
    <2>9. GenHolders(i)' = (GenHolders(i) \ {r}) \cup {h} /\ h \notin GenHolders(i)
        BY <1>1, <2>4, <2>5, NoInstAssumption
           DEF AdmInv, AdmTypeOK, GenHolders, HoldsQueue, HoldsGen
    <2>10. /\ \A j \in Instances : j # i => GenHolders(j)' = GenHolders(j)
           /\ \A j \in Instances : QueueHolders(j)' = QueueHolders(j)
        BY <1>1, <2>4, <2>5, NoInstAssumption
           DEF AdmInv, AdmTypeOK, QueueHolders, GenHolders, HoldsQueue, HoldsGen
    <2>11. IsFiniteSet(GenHolders(i)') /\ Cardinality(GenHolders(i)') = Cardinality(GenHolders(i))
        BY <1>2, <1>3, <2>9, CountSwap
    <2>12. Counted'
        BY <1>2, <1>4, <2>4, <2>10, <2>11
    <2> QED
        BY <2>6, <2>7, <2>8, <2>12 DEF AdmInv
<1> QED
    BY <1>5, <1>6

\* Every step keeps the inductive invariant.
LEMMA StepKeepsInv == AdmInv /\ [AdmNext]_admVars => AdmInv'
<1> SUFFICES ASSUME AdmInv, [AdmNext]_admVars PROVE AdmInv'
    OBVIOUS
<1>1. CASE UNCHANGED admVars
    <2>1. AdmTypeOK'
        BY <1>1 DEF admVars, AdmInv, AdmTypeOK
    <2>2. Parked(queueWait, "inQueue")' /\ Parked(genWait, "inGen")'
        BY <1>1 DEF admVars, AdmInv, Parked
    <2>3. Counted'
        BY <1>1 DEF admVars, AdmInv, Counted, QueueHolders, GenHolders
    <2> QED
        BY <2>1, <2>2, <2>3 DEF AdmInv
<1>2. ASSUME NEW r \in Requests, NEW i \in Instances, Lookup(r, i)
      PROVE  AdmInv'
    BY <1>2, LookupKeepsInv
<1>3. ASSUME NEW r \in Requests,
             Refuse(r) \/ PassChecks(r) \/ Grant(r) \/ Cancel(r) \/ FreshCtx(r)
      PROVE  AdmInv'
    BY <1>3, RefuseKeepsInv, PassChecksKeepsInv, GrantKeepsInv, CancelKeepsInv,
       FreshCtxKeepsInv
<1>4. ASSUME NEW r \in Requests, ReceiveGen(r)
      PROVE  AdmInv'
    <2>1. PICK i \in Instances : target[r] = i
        BY <1>4, InvFacts DEF ReceiveGen
    <2> QED
        BY <1>4, <2>1, ReceiveGenKeepsInv
<1>5. ASSUME NEW r \in Requests, AdmStep(r)
      PROVE  AdmInv'
    <2>1. CASE ReserveQueue(r)
        <3>1. PICK i \in Instances : target[r] = i
            BY <2>1, InvFacts DEF ReserveQueue
        <3> QED
            BY <2>1, <3>1, ReserveQueueKeepsInv
    <2>2. CASE AcquireGen(r)
        <3>1. PICK i \in Instances : target[r] = i
            BY <2>2, InvFacts DEF AcquireGen
        <3> QED
            BY <2>2, <3>1, AcquireGenKeepsInv
    <2>3. CASE ReceiveQueue(r)
        <3>1. PICK i \in Instances : target[r] = i
            BY <2>3, InvFacts DEF ReceiveQueue
        <3> QED
            BY <2>3, <3>1, ReceiveQueueKeepsInv
    <2>4. CASE ParkQueue(r) \/ QueueSelectFails(r) \/ RecheckCtx(r) \/ ParkGen(r)
               \/ GenSelectFails(r)
        BY <2>4, ParkQueueKeepsInv, QueueSelectFailsKeepsInv, RecheckCtxKeepsInv,
           ParkGenKeepsInv, GenSelectFailsKeepsInv
    <2> QED
        BY <1>5, <2>1, <2>2, <2>3, <2>4 DEF AdmStep
<1> QED
    BY <1>1, <1>2, <1>3, <1>4, <1>5 DEF AdmNext

\* The inductive invariant holds throughout.
THEOREM AdmissionInvariant == AdmSpec => []AdmInv
<1>1. AdmInit => AdmInv
    BY InvInit
<1>2. AdmInv /\ [AdmNext]_admVars => AdmInv'
    BY StepKeepsInv
<1> QED
    BY <1>1, <1>2, PTL DEF AdmSpec

-----------------------------------------------------------------------------
(* What it gives.                                                          *)

\* Every variable of beginGeneration keeps its type, and a request has an
\* instance exactly while it is in beginGeneration.
THEOREM AdmissionTyping == AdmSpec => []AdmTypeOK
<1>1. AdmInv => AdmTypeOK
    BY DEF AdmInv
<1> QED
    BY <1>1, AdmissionInvariant, PTL

\* The channels hold exactly the tokens of the requests that must return
\* one, on every path through beginGeneration and release.
THEOREM TokensAreCounted == AdmSpec => []SlotsMatchHolders
<1>1. AdmInv => SlotsMatchHolders
    BY DEF AdmInv, Counted, SlotsMatchHolders
<1> QED
    BY <1>1, AdmissionInvariant, PTL

\* No two requests hold the in-flight slot of one instance.
THEOREM MutualExclusion == AdmSpec => []SingleInFlight
<1>1. ASSUME AdmInv PROVE SingleInFlight
    <2> SUFFICES ASSUME NEW r \in Requests, NEW s \in Requests,
                        adm[r] \in HoldsGen, adm[s] \in HoldsGen, target[r] = target[s],
                        r # s
                 PROVE  FALSE
        BY DEF SingleInFlight
    <2>1. PICK i \in Instances : target[r] = i
        BY <1>1, InvFacts DEF HoldsGen
    <2>2. r \in GenHolders(i) /\ s \in GenHolders(i) \ {r}
        BY <2>1 DEF GenHolders
    <2>3. IsFiniteSet(GenHolders(i)) /\ Cardinality(GenHolders(i)) <= 1
        BY <1>1 DEF AdmInv, Counted
    <2>4. /\ IsFiniteSet(GenHolders(i) \ {r})
          /\ Cardinality(GenHolders(i) \ {r}) = Cardinality(GenHolders(i)) - 1
          /\ Cardinality(GenHolders(i)) \in Nat
        BY <2>2, <2>3, CountRemove
    <2>5. Cardinality((GenHolders(i) \ {r}) \ {s}) \in Nat
        BY <2>4, FS_RemoveElement, FS_CardinalityType
    <2>6. Cardinality((GenHolders(i) \ {r}) \ {s}) = Cardinality(GenHolders(i) \ {r}) - 1
        BY <2>2, <2>4, CountRemove
    <2> QED
        BY <2>3, <2>4, <2>5, <2>6
<1> QED
    BY <1>1, AdmissionInvariant, PTL

\* The plain receives of the deferred function and of release never block.
THEOREM ReceivesFindTokens == AdmSpec => []ReleaseNeverBlocks
<1>1. ASSUME AdmInv PROVE ReleaseNeverBlocks
    <2> SUFFICES ASSUME NEW r \in Requests
                 PROVE  /\ adm[r] \in {"abandon", "release"} => queueLen[target[r]] > 0
                        /\ adm[r] = "inflight" => genLen[target[r]] > 0
        BY DEF ReleaseNeverBlocks
    <2>1. ASSUME adm[r] \in {"abandon", "release"} PROVE queueLen[target[r]] > 0
        <3>1. PICK i \in Instances : target[r] = i
            BY <1>1, <2>1, InvFacts
        <3>2. r \in QueueHolders(i)
            BY <2>1, <3>1 DEF QueueHolders, HoldsQueue
        <3>3. /\ IsFiniteSet(QueueHolders(i)) /\ queueLen[i] = Cardinality(QueueHolders(i))
            BY <1>1 DEF AdmInv, Counted
        <3>4. Cardinality(QueueHolders(i)) # 0 /\ Cardinality(QueueHolders(i)) \in Nat
            BY <3>2, <3>3, FS_EmptySet, FS_CardinalityType
        <3> QED
            BY <3>1, <3>3, <3>4
    <2>2. ASSUME adm[r] = "inflight" PROVE genLen[target[r]] > 0
        <3>1. PICK i \in Instances : target[r] = i
            BY <1>1, <2>2, InvFacts
        <3>2. r \in GenHolders(i)
            BY <2>2, <3>1 DEF GenHolders, HoldsGen
        <3>3. /\ IsFiniteSet(GenHolders(i)) /\ genLen[i] = Cardinality(GenHolders(i))
            BY <1>1 DEF AdmInv, Counted
        <3>4. Cardinality(GenHolders(i)) # 0 /\ Cardinality(GenHolders(i)) \in Nat
            BY <3>2, <3>3, FS_EmptySet, FS_CardinalityType
        <3> QED
            BY <3>1, <3>3, <3>4
    <2> QED
        BY <2>1, <2>2
<1> QED
    BY <1>1, AdmissionInvariant, PTL

-----------------------------------------------------------------------------
(* Module Admission implements module InstanceGate: channels, parked       *)
(* senders, timers and contexts amount to a bounded set of visitors per    *)
(* instance of which one runs.                                             *)

\* What a request does at an instance depends on its stage and on the
\* instance it looked up.
PhaseOf(stage) ==
    IF stage \in {"slot", "atGen", "inGen"} THEN "waiting"
    ELSE IF stage \in HoldsGen THEN "running"
    ELSE IF stage \in {"abandon", "release"} THEN "done"
    ELSE "out"

\* So is the phase that the mapping gives it, before and after a step.
LEMMA PhaseAt ==
    ASSUME NEW i \in Instances, NEW r \in Requests
    PROVE  /\ GatePhase[i][r] = IF target[r] = i THEN PhaseOf(adm[r]) ELSE "out"
           /\ GatePhase'[i][r] = IF target'[r] = i THEN PhaseOf(adm'[r]) ELSE "out"
    BY DEF GatePhase, PhaseOf

\* The phases of two states are equal when they are equal one by one.
LEMMA PhasesEqual ==
    ASSUME \A j \in Instances, s \in Requests : GatePhase'[j][s] = GatePhase[j][s]
    PROVE  UNCHANGED GatePhase
<1>1. \A j \in Instances : GatePhase'[j] = GatePhase[j]
    BY DEF GatePhase
<1> QED
    BY <1>1 DEF GatePhase

\* One request moves at one instance.
LEMMA OnePhaseMoves ==
    ASSUME NEW i \in Instances, NEW r \in Requests, NEW p,
           \A j \in Instances, s \in Requests :
              GatePhase'[j][s] = IF j = i /\ s = r THEN p ELSE GatePhase[j][s]
    PROVE  GatePhase' = [GatePhase EXCEPT ![i][r] = p]
<1>1. \A j \in Instances : GatePhase'[j] = [GatePhase EXCEPT ![i][r] = p][j]
    BY DEF GatePhase
<1> QED
    BY <1>1 DEF GatePhase

\* Two requests move at one instance.
Exchange(i, r, p, q, w) == [GatePhase EXCEPT ![i][r] = p, ![i][q] = w]

\* Phases that differ in two requests of an instance are such an exchange.
LEMMA TwoPhasesMove ==
    ASSUME NEW i \in Instances, NEW r \in Requests, NEW p,
           NEW q \in Requests, q # r, NEW w,
           \A j \in Instances, s \in Requests :
              GatePhase'[j][s] = IF j = i /\ s = r THEN p
                                 ELSE IF j = i /\ s = q THEN w
                                 ELSE GatePhase[j][s]
    PROVE  GatePhase' = Exchange(i, r, p, q, w)
<1> DEFINE f == [GatePhase[i] EXCEPT ![r] = p, ![q] = w]
           g == [GatePhase EXCEPT ![i] = f]
<1>1. /\ GatePhase'[i] = [s \in Requests |-> GatePhase'[i][s]]
      /\ GatePhase[i] = [s \in Requests |-> GatePhase[i][s]]
      /\ GatePhase' = [j \in Instances |-> GatePhase'[j]]
      /\ GatePhase = [j \in Instances |-> GatePhase[j]]
    BY DEF GatePhase
<1>2. f = [s \in Requests |-> IF s = r THEN p ELSE IF s = q THEN w ELSE GatePhase[i][s]]
    BY <1>1
<1>3. GatePhase'[i] = f
    BY <1>1, <1>2
<1>4. \A j \in Instances : j # i => GatePhase'[j] = GatePhase[j]
    BY DEF GatePhase
<1>5. Exchange(i, r, p, q, w) = g
    BY <1>1 DEF Exchange
<1> HIDE DEF f
<1>6. g = [j \in Instances |-> IF j = i THEN f ELSE GatePhase[j]]
    BY <1>1
<1>7. GatePhase' = g
    BY <1>1, <1>3, <1>4, <1>6
<1> QED
    BY <1>5, <1>7

\* One request takes a stage and keeps, gets or loses an instance.
OnlyMoves(r, st, t) ==
    /\ adm'[r] = st /\ target'[r] = t
    /\ \A s \in Requests : s # r => adm'[s] = adm[s] /\ target'[s] = target[s]

\* Then the others keep their phases.
LEMMA StageMoves ==
    ASSUME NEW r \in Requests, NEW st, NEW t, OnlyMoves(r, st, t)
    PROVE  \A j \in Instances, s \in Requests :
              GatePhase'[j][s] = IF s = r THEN IF t = j THEN PhaseOf(st) ELSE "out"
                                 ELSE GatePhase[j][s]
    BY PhaseAt DEF OnlyMoves

\* The gate counts its occupants like everybody else.
LEMMA SameCount ==
    ASSUME NEW S
    PROVE  Gate!Cardinality(S) = Cardinality(S)
    BY DEF Gate!Cardinality, Gate!IsFiniteSet, Cardinality, IsFiniteSet

\* A request that is at an instance moves within it, or leaves it.
LEMMA VisitorMoves ==
    ASSUME NEW r \in Requests, NEW i \in Instances, target[r] = i,
           NEW st, NEW t \in {i, NoInst}, OnlyMoves(r, st, t)
    PROVE  GatePhase' = [GatePhase EXCEPT ![i][r] = IF t = i THEN PhaseOf(st) ELSE "out"]
<1>1. ASSUME NEW j \in Instances, NEW s \in Requests
      PROVE  GatePhase'[j][s] = IF j = i /\ s = r
                                THEN IF t = i THEN PhaseOf(st) ELSE "out"
                                ELSE GatePhase[j][s]
    <2>1. GatePhase'[j][s] = IF s = r THEN IF t = j THEN PhaseOf(st) ELSE "out"
                             ELSE GatePhase[j][s]
        BY StageMoves
    <2>2. j # i => GatePhase[j][r] = "out" /\ t # j
        BY PhaseAt, NoInstAssumption
    <2> QED
        BY <2>1, <2>2
<1> QED
    BY <1>1, OnePhaseMoves

\* The occupants of an instance are the owners of its queueCh tokens, and the
\* one that runs is the owner of its genCh token.
LEMMA Occupants ==
    ASSUME NEW i \in Instances
    PROVE  /\ Gate!Inside(i) = QueueHolders(i)
           /\ \A s \in Requests : GatePhase[i][s] = "running" <=> s \in GenHolders(i)
<1>1. \A s \in Requests : GatePhase[i][s] # "out" <=> s \in QueueHolders(i)
    BY PhaseAt DEF PhaseOf, QueueHolders, HoldsQueue, HoldsGen
<1>2. \A s \in Requests : GatePhase[i][s] = "running" <=> s \in GenHolders(i)
    BY PhaseAt DEF PhaseOf, GenHolders, HoldsGen
<1> QED
    BY <1>1, <1>2 DEF Gate!Inside, QueueHolders

-----------------------------------------------------------------------------
(* Each action is a step of the gate, or invisible to it.                  *)

\* Looking up, failing the checks, parking, giving up a select on queueCh and
\* returning from beginGeneration are invisible.
LEMMA InvisibleSteps ==
    ASSUME AdmInv, NEW r \in Requests,
           \/ \E i \in Instances : Lookup(r, i)
           \/ Refuse(r) \/ PassChecks(r) \/ ParkQueue(r) \/ QueueSelectFails(r)
           \/ ParkGen(r) \/ Grant(r) \/ Cancel(r) \/ FreshCtx(r)
    PROVE  UNCHANGED GatePhase
<1>1. ASSUME NEW i \in Instances, Lookup(r, i) PROVE UNCHANGED GatePhase
    <2>1. target[r] = NoInst /\ OnlyMoves(r, "found", i)
        BY <1>1 DEF Lookup, Goto, OnlyMoves, AdmInv, AdmTypeOK
    <2>2. \A j \in Instances, s \in Requests : GatePhase'[j][s] = GatePhase[j][s]
        BY <2>1, NoInstAssumption, StageMoves, PhaseAt DEF PhaseOf, HoldsGen
    <2> QED
        BY <2>2, PhasesEqual
<1>2. CASE Refuse(r) \/ QueueSelectFails(r)
    <2>1. OnlyMoves(r, "idle", NoInst) /\ PhaseOf(adm[r]) = "out"
        BY <1>2
           DEF Refuse, QueueSelectFails, Return, Goto, OnlyMoves, AdmInv, AdmTypeOK, PhaseOf,
               HoldsGen
    <2>2. \A j \in Instances, s \in Requests : GatePhase'[j][s] = GatePhase[j][s]
        BY <2>1, NoInstAssumption, StageMoves, PhaseAt
    <2> QED
        BY <2>2, PhasesEqual
<1>3. CASE PassChecks(r) \/ ParkQueue(r) \/ ParkGen(r) \/ Grant(r)
    <2>1. \E st \in Stages : OnlyMoves(r, st, target[r]) /\ PhaseOf(st) = PhaseOf(adm[r])
        BY <1>3
           DEF PassChecks, ParkQueue, ParkGen, Grant, Goto, OnlyMoves, AdmInv, AdmTypeOK,
               PhaseOf, HoldsGen, Stages, HoldsQueue
    <2>2. \A j \in Instances, s \in Requests : GatePhase'[j][s] = GatePhase[j][s]
        BY <2>1, StageMoves, PhaseAt
    <2> QED
        BY <2>2, PhasesEqual
<1>4. CASE Cancel(r) \/ FreshCtx(r)
    BY <1>4 DEF Cancel, FreshCtx, GatePhase
<1> QED
    BY <1>1, <1>2, <1>3, <1>4

\* A queueCh token taken below the capacity admits the request.
LEMMA ReserveQueueAdmits ==
    ASSUME AdmInv, NEW r \in Requests, ReserveQueue(r)
    PROVE  \E i \in Instances : Gate!Admit(i, r)
<1>1. PICK i \in Instances : target[r] = i
    BY InvFacts DEF ReserveQueue
<1>2. GatePhase[i][r] = "out"
    BY <1>1, PhaseAt DEF ReserveQueue, PhaseOf, HoldsGen
<1>3. Cardinality(Gate!Inside(i)) < MaxQueueDepth
    BY <1>1, Occupants DEF ReserveQueue, AdmInv, Counted
<1>4. GatePhase' = [GatePhase EXCEPT ![i][r] = "waiting"]
    <2>1. OnlyMoves(r, "slot", i) /\ PhaseOf("slot") = "waiting"
        BY <1>1 DEF ReserveQueue, Goto, OnlyMoves, AdmInv, AdmTypeOK, PhaseOf
    <2> QED
        BY <1>1, <2>1, VisitorMoves
<1> QED
    BY <1>2, <1>3, <1>4, SameCount DEF Gate!Admit

\* A genCh token taken from an empty channel starts the request.
LEMMA AcquireGenStarts ==
    ASSUME AdmInv, NEW r \in Requests, AcquireGen(r)
    PROVE  \E i \in Instances : Gate!Start(i, r)
<1>1. PICK i \in Instances : target[r] = i
    BY InvFacts DEF AcquireGen
<1>2. GatePhase[i][r] = "waiting"
    BY <1>1, PhaseAt DEF AcquireGen, PhaseOf
<1>3. \A s \in Requests : GatePhase[i][s] # "running"
    <2>1. IsFiniteSet(GenHolders(i)) /\ Cardinality(GenHolders(i)) = 0
        BY <1>1, InvFacts DEF AcquireGen, AdmInv, Counted
    <2>2. GenHolders(i) = {}
        BY <2>1, FS_EmptySet
    <2> QED
        BY <2>2, Occupants
<1>4. GatePhase' = [GatePhase EXCEPT ![i][r] = "running"]
    <2>1. OnlyMoves(r, "granted", i) /\ PhaseOf("granted") = "running"
        BY <1>1 DEF AcquireGen, Goto, OnlyMoves, AdmInv, AdmTypeOK, PhaseOf, HoldsGen
    <2> QED
        BY <1>1, <2>1, VisitorMoves
<1> QED
    BY <1>2, <1>3, <1>4 DEF Gate!Start

\* The recheck of the context and the second select either change nothing
\* visible or give up.
LEMMA WaitGivesUp ==
    ASSUME AdmInv, NEW r \in Requests, RecheckCtx(r) \/ GenSelectFails(r)
    PROVE  UNCHANGED GatePhase \/ \E i \in Instances : Gate!GiveUp(i, r)
<1>1. PICK i \in Instances : target[r] = i
    BY InvFacts DEF RecheckCtx, GenSelectFails
<1>2. /\ GatePhase[i][r] = "waiting" /\ PhaseOf(adm[r]) = "waiting"
      /\ OnlyMoves(r, "abandon", i) \/ OnlyMoves(r, "atGen", i)
    BY <1>1, PhaseAt
       DEF RecheckCtx, GenSelectFails, Goto, OnlyMoves, PhaseOf, AdmInv, AdmTypeOK
<1>3. CASE OnlyMoves(r, "abandon", i)
    <2>1. PhaseOf("abandon") = "done"
        BY DEF HoldsGen, PhaseOf
    <2>2. GatePhase' = [GatePhase EXCEPT ![i][r] = "done"]
        BY <1>1, <1>3, <2>1, VisitorMoves
    <2> QED
        BY <1>2, <2>2 DEF Gate!GiveUp
<1>4. CASE OnlyMoves(r, "atGen", i)
    <2>1. PhaseOf("atGen") = "waiting"
        BY DEF PhaseOf
    <2>2. \A j \in Instances, s \in Requests : GatePhase'[j][s] = GatePhase[j][s]
        BY <1>1, <1>2, <1>4, <2>1, StageMoves, PhaseAt
    <2> QED
        BY <2>2, PhasesEqual
<1> QED
    BY <1>2, <1>3, <1>4

\* Two visitors of one instance take a stage each; the first may leave.
TwoMove(i, r, st, t, q, sw) ==
    /\ adm'[r] = st /\ target'[r] = t
    /\ adm'[q] = sw /\ target'[q] = i
    /\ \A s \in Requests : s \notin {r, q} => adm'[s] = adm[s] /\ target'[s] = target[s]

\* The mapping makes an exchange of phases of it.
LEMMA VisitorsMove ==
    ASSUME NEW i \in Instances, NEW r \in Requests, target[r] = i,
           NEW q \in Requests, q # r, target[q] = i,
           NEW st, NEW t \in {i, NoInst}, NEW sw, TwoMove(i, r, st, t, q, sw)
    PROVE  GatePhase' =
             Exchange(i, r, IF t = i THEN PhaseOf(st) ELSE "out", q, PhaseOf(sw))
<1>1. ASSUME NEW j \in Instances, NEW s \in Requests
      PROVE  GatePhase'[j][s] = IF j = i /\ s = r
                                THEN IF t = i THEN PhaseOf(st) ELSE "out"
                                ELSE IF j = i /\ s = q THEN PhaseOf(sw)
                                ELSE GatePhase[j][s]
    <2>1. CASE s \notin {r, q}
        BY <2>1, PhaseAt DEF TwoMove
    <2>2. CASE s \in {r, q} /\ j = i
        BY <2>2, PhaseAt, NoInstAssumption DEF TwoMove
    <2>3. CASE s \in {r, q} /\ j # i
        BY <2>3, PhaseAt, NoInstAssumption DEF TwoMove
    <2> QED
        BY <2>1, <2>2, <2>3
<1> QED
    BY <1>1, TwoPhasesMove

\* A receive from queueCh ends a visit, and may let the oldest parked sender
\* in.
LEMMA ReceiveQueueLeaves ==
    ASSUME AdmInv, NEW r \in Requests, ReceiveQueue(r)
    PROVE  \E i \in Instances : Gate!Leave(i, r)
<1>1. PICK i \in Instances : target[r] = i
    BY InvFacts DEF ReceiveQueue
<1>2. adm[r] \in {"abandon", "release"} /\ GatePhase[i][r] = "done"
    BY <1>1, PhaseAt DEF ReceiveQueue, PhaseOf, HoldsGen
<1>3. CASE queueWait[i] = <<>>
    <2>1. OnlyMoves(r, "idle", NoInst)
        BY <1>1, <1>3 DEF ReceiveQueue, Goto, OnlyMoves, AdmInv, AdmTypeOK
    <2>2. GatePhase' = [GatePhase EXCEPT ![i][r] = "out"]
        BY <1>1, <2>1, NoInstAssumption, VisitorMoves
    <2> QED
        BY <1>2, <2>2 DEF Gate!Leave
<1>4. CASE queueWait[i] # <<>>
    <2> DEFINE q == Head(queueWait[i])
    <2>1. /\ q \in Requests /\ q # r
          /\ adm[q] = "inQueue" /\ target[q] = i
        <3>1. queueWait[i] \in Seq(Requests) /\ Distinct(queueWait[i])
            BY DEF AdmInv, AdmTypeOK, Parked, Distinct
        <3>2. q = queueWait[i][1] /\ 1 \in 1..Len(queueWait[i]) /\ q \in Requests
            BY <1>4, <3>1, TailDistinct
        <3> QED
            BY <1>2, <3>2 DEF AdmInv, Parked
    <2>2. /\ adm' = [adm EXCEPT ![r] = "idle", ![q] = "slot"]
          /\ target' = [target EXCEPT ![r] = NoInst]
        BY <1>1, <1>4 DEF ReceiveQueue
    <2> HIDE DEF q
    <2>3. TwoMove(i, r, "idle", NoInst, q, "slot")
        BY <2>1, <2>2 DEF TwoMove, AdmInv, AdmTypeOK
    <2>4. GatePhase' = Exchange(i, r, "out", q, "waiting")
        <3>1. PhaseOf("slot") = "waiting" /\ NoInst # i
            BY NoInstAssumption DEF PhaseOf
        <3> QED
            BY <1>1, <2>1, <2>3, <3>1, VisitorsMove
    <2>5. GatePhase[i][q] = "out"
        BY <2>1, PhaseAt DEF PhaseOf, HoldsGen
    <2> QED
        BY <1>2, <2>1, <2>4, <2>5 DEF Gate!Leave, Exchange
<1> QED
    BY <1>3, <1>4

\* A receive from genCh ends a run, and may start that of the oldest parked
\* sender.
LEMMA ReceiveGenFinishes ==
    ASSUME AdmInv, NEW r \in Requests, ReceiveGen(r)
    PROVE  \E i \in Instances : Gate!Finish(i, r)
<1>1. PICK i \in Instances : target[r] = i
    BY InvFacts DEF ReceiveGen
<1>2. adm[r] = "inflight" /\ GatePhase[i][r] = "running" /\ PhaseOf("release") = "done"
    BY <1>1, PhaseAt DEF ReceiveGen, PhaseOf, HoldsGen
<1>3. CASE genWait[i] = <<>>
    <2>1. OnlyMoves(r, "release", i)
        BY <1>1, <1>3 DEF ReceiveGen, Goto, OnlyMoves, AdmInv, AdmTypeOK
    <2>2. GatePhase' = [GatePhase EXCEPT ![i][r] = "done"]
        BY <1>1, <1>2, <2>1, VisitorMoves
    <2> QED
        BY <1>2, <2>2 DEF Gate!Finish
<1>4. CASE genWait[i] # <<>>
    <2> DEFINE q == Head(genWait[i])
    <2>1. /\ q \in Requests /\ q # r
          /\ adm[q] = "inGen" /\ target[q] = i
        <3>1. genWait[i] \in Seq(Requests) /\ Distinct(genWait[i])
            BY DEF AdmInv, AdmTypeOK, Parked, Distinct
        <3>2. q = genWait[i][1] /\ 1 \in 1..Len(genWait[i]) /\ q \in Requests
            BY <1>4, <3>1, TailDistinct
        <3> QED
            BY <1>2, <3>2 DEF AdmInv, Parked
    <2>2. /\ adm' = [adm EXCEPT ![r] = "release", ![q] = "granted"]
          /\ target' = target
        BY <1>1, <1>4 DEF ReceiveGen
    <2> HIDE DEF q
    <2>3. TwoMove(i, r, "release", i, q, "granted")
        BY <1>1, <2>1, <2>2 DEF TwoMove, AdmInv, AdmTypeOK
    <2>4. GatePhase' = Exchange(i, r, "done", q, "running")
        <3>1. PhaseOf("granted") = "running"
            BY DEF PhaseOf, HoldsGen
        <3> QED
            BY <1>1, <1>2, <2>1, <2>3, <3>1, VisitorsMove
    <2>5. GatePhase[i][q] = "waiting"
        BY <2>1, PhaseAt DEF PhaseOf
    <2> QED
        BY <1>2, <2>1, <2>4, <2>5 DEF Gate!Finish, Exchange
<1> QED
    BY <1>3, <1>4

\* Every step of Admission is a step of the gate, or invisible to it.
LEMMA StepIsGate == AdmInv /\ [AdmNext]_admVars => [Gate!Next]_GatePhase
<1> SUFFICES ASSUME AdmInv, [AdmNext]_admVars PROVE [Gate!Next]_GatePhase
    OBVIOUS
<1>1. CASE UNCHANGED admVars
    BY <1>1 DEF admVars, GatePhase
<1>2. ASSUME NEW r \in Requests,
             \/ \E i \in Instances : Lookup(r, i)
             \/ Refuse(r) \/ PassChecks(r) \/ ParkQueue(r) \/ QueueSelectFails(r)
             \/ ParkGen(r) \/ Grant(r) \/ Cancel(r) \/ FreshCtx(r)
      PROVE  UNCHANGED GatePhase
    BY <1>2, InvisibleSteps
<1>3. ASSUME NEW r \in Requests,
             \/ ReserveQueue(r) \/ AcquireGen(r) \/ ReceiveQueue(r) \/ ReceiveGen(r)
             \/ RecheckCtx(r) \/ GenSelectFails(r)
      PROVE  [Gate!Next]_GatePhase
    BY <1>3, ReserveQueueAdmits, AcquireGenStarts, ReceiveQueueLeaves, ReceiveGenFinishes,
       WaitGivesUp DEF Gate!Next
<1> QED
    BY <1>1, <1>2, <1>3 DEF AdmNext, AdmStep

\* Admission implements the gate: at most MaxQueueDepth visitors per instance,
\* one of them running, one run per visit, and a place or the run is only
\* handed over to one who waits for it.
THEOREM AdmissionImplementsGate == AdmSpec => ImplementsGate
<1>1. AdmInit => Gate!Init
    <2>1. ASSUME AdmInit PROVE \A i \in Instances, r \in Requests : GatePhase[i][r] = "out"
        BY <2>1, PhaseAt, NoInstAssumption DEF AdmInit
    <2>2. ASSUME AdmInit
          PROVE  \A i \in Instances : GatePhase[i] = [r \in Requests |-> "out"]
        BY <2>1, <2>2 DEF GatePhase
    <2> QED
        BY <2>2 DEF Gate!Init, GatePhase
<1>2. AdmInv /\ [AdmNext]_admVars => [Gate!Next]_GatePhase
    BY StepIsGate
<1> QED
    BY <1>1, <1>2, AdmissionInvariant, PTL DEF AdmSpec, Gate!Spec, ImplementsGate
=============================================================================
