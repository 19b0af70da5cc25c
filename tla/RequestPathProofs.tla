--------------------------- MODULE RequestPathProofs ---------------------------
(***************************************************************************)
(* Proofs about RequestGate and RequestPath, for any callers, any kinds of *)
(* call, any limits of the gate and any number of sessions and attempts.   *)
(* The first half is about the gate alone; the path uses its invariant.    *)
(***************************************************************************)
EXTENDS RequestPath, FiniteSetTheorems, SequenceTheorems, TLAPS

(***************************************************************************)
(* The gate                                                                *)
(***************************************************************************)

\* The inductive invariant: the gate's counter and its queue are only meaningful
\* together (a release grants by the queue and keeps the count).
GateInv ==
    /\ TypeOK
    /\ SlotAccounting
    /\ QueueHoldsWaiters
    /\ WorkConserving
    /\ ClosedDrains

--------------------------------------------------------------------------------
(* What the actions do to the set of slot holders *)

\* Any set of callers is finite and has a natural number of members.
LEMMA CallersSubset ==
    ASSUME NEW S \in SUBSET Callers
    PROVE  IsFiniteSet(S) /\ Cardinality(S) \in Nat
BY CallersFinite, FS_Subset, FS_CardinalityType

\* A caller that obtains a slot adds one to the number of holders.
LEMMA HolderAdded ==
    ASSUME TypeOK, NEW c \in Callers, status[c] # "held",
           status' = [status EXCEPT ![c] = "held"]
    PROVE  Cardinality(Held') = Cardinality(Held) + 1
<1>1. Held' = Held \cup {c}
  BY DEF TypeOK, Held
<1>2. Held \in SUBSET Callers /\ c \notin Held
  BY DEF Held
<1> QED
  BY <1>1, <1>2, CallersSubset, FS_AddElement

\* A caller that gives its slot back takes one from the number of holders.
LEMMA HolderRemoved ==
    ASSUME TypeOK, NEW c \in Callers, status[c] = "held",
           status' = [status EXCEPT ![c] = "released"]
    PROVE  Cardinality(Held') = Cardinality(Held) - 1
<1>1. Held' = Held \ {c}
  BY DEF TypeOK, Held
<1>2. Held \in SUBSET Callers /\ c \in Held
  BY DEF Held
<1> QED
  BY <1>1, <1>2, CallersSubset, FS_RemoveElement

\* A slot that is handed over leaves the number of holders as it is.
LEMMA HolderReplaced ==
    ASSUME TypeOK, NEW c \in Callers, NEW d \in Callers,
           status[c] = "held", status[d] # "held",
           status' = [status EXCEPT ![c] = "released", ![d] = "held"]
    PROVE  Cardinality(Held') = Cardinality(Held)
<1>1. Held' = (Held \ {c}) \cup {d}
  BY DEF TypeOK, Held
<1>2. Held \in SUBSET Callers /\ c \in Held /\ d \notin Held
  BY DEF Held
<1>3. /\ IsFiniteSet(Held \ {c})
      /\ Cardinality(Held \ {c}) = Cardinality(Held) - 1
  BY <1>2, CallersSubset, FS_RemoveElement
<1>4. Cardinality((Held \ {c}) \cup {d}) = Cardinality(Held \ {c}) + 1
  BY <1>2, <1>3, FS_AddElement
<1> QED
  BY <1>1, <1>2, <1>3, <1>4, CallersSubset

\* A step that moves callers between states other than "held" leaves the holders alone.
LEMMA HoldersUnchanged ==
    ASSUME \A c \in Callers : status'[c] = "held" <=> status[c] = "held"
    PROVE  Held' = Held
BY DEF Held

--------------------------------------------------------------------------------
(* What the actions do to the queue *)

\* removeWaiter() takes out one waiter and keeps the others in their order.
LEMMA WithoutIndexProperties ==
    ASSUME NEW q \in Seq(Callers), NEW i \in 1..Len(q)
    PROVE  /\ WithoutIndex(q, i) \in Seq(Callers)
           /\ Len(WithoutIndex(q, i)) = Len(q) - 1
           /\ \A j \in 1..(Len(q) - 1) :
                WithoutIndex(q, i)[j] = q[IF j < i THEN j ELSE j + 1]
<1> DEFINE a == SubSeq(q, 1, i - 1)
           b == SubSeq(q, i + 1, Len(q))
<1>0. Len(q) \in Nat /\ \A j \in 1..Len(q) : q[j] \in Callers
  BY LenProperties, ElementOfSeq
<1>1. /\ a \in Seq(Callers)
      /\ Len(a) = i - 1
      /\ \A j \in 1..(i - 1) : a[j] = q[j]
  BY <1>0, SubSeqProperties
<1>2. /\ b \in Seq(Callers)
      /\ Len(b) = Len(q) - i
      /\ \A j \in 1..(Len(q) - i) : b[j] = q[i + j]
  <2>1. \A j \in (i + 1)..Len(q) : q[j] \in Callers
    BY <1>0
  <2>2. /\ b \in Seq(Callers)
        /\ Len(b) = IF i + 1 <= Len(q) THEN Len(q) - (i + 1) + 1 ELSE 0
        /\ \A j \in 1..(Len(q) - (i + 1) + 1) : b[j] = q[(i + 1) + j - 1]
    BY <1>0, <2>1, SubSeqProperties
  <2> QED
    BY <1>0, <2>2
<1> HIDE DEF a, b
<1>3. /\ a \o b \in Seq(Callers)
      /\ Len(a \o b) = Len(a) + Len(b)
      /\ \A j \in 1..(Len(a) + Len(b)) :
           (a \o b)[j] = IF j <= Len(a) THEN a[j] ELSE b[j - Len(a)]
  BY <1>1, <1>2, ConcatProperties
<1>4. WithoutIndex(q, i) = a \o b
  BY DEF WithoutIndex, a, b
<1>5. Len(a) + Len(b) = Len(q) - 1
  BY <1>0, <1>1, <1>2
<1>6. ASSUME NEW j \in 1..(Len(q) - 1)
      PROVE  (a \o b)[j] = q[IF j < i THEN j ELSE j + 1]
  <2>1. CASE j < i
    <3>1. j \in 1..(i - 1) /\ j <= Len(a)
      BY <1>0, <1>1, <2>1
    <3> QED
      BY <1>1, <1>3, <1>5, <2>1, <3>1
  <2>2. CASE ~(j < i)
    <3>1. j - Len(a) \in 1..(Len(q) - i) /\ ~(j <= Len(a)) /\ i + (j - Len(a)) = j + 1
      BY <1>0, <1>1, <2>2
    <3>2. b[j - Len(a)] = q[j + 1]
      BY <1>2, <3>1
    <3>3. (a \o b)[j] = b[j - Len(a)]
      BY <1>3, <1>5, <3>1
    <3> QED
      BY <2>2, <3>2, <3>3
  <2> QED
    BY <2>1, <2>2
<1> QED
  BY <1>3, <1>4, <1>5, <1>6

\* What release() leaves of the queue when it grants its k+1-st waiter.
LEMMA QueueRest ==
    ASSUME NEW q \in Seq(Callers), NEW k \in Nat, k < Len(q)
    PROVE  /\ SubSeq(q, k + 2, Len(q)) \in Seq(Callers)
           /\ Len(SubSeq(q, k + 2, Len(q))) = Len(q) - k - 1
           /\ \A j \in 1..(Len(q) - k - 1) : SubSeq(q, k + 2, Len(q))[j] = q[k + 1 + j]
<1>0. Len(q) \in Nat /\ \A j \in 1..Len(q) : q[j] \in Callers
  BY LenProperties, ElementOfSeq
<1>1. \A j \in (k + 2)..Len(q) : q[j] \in Callers
  BY <1>0
<1> DEFINE m == k + 2
<1>2. m \in Int /\ Len(q) \in Int /\ \A j \in m..Len(q) : q[j] \in Callers
  BY <1>0, <1>1
<1> HIDE DEF m
<1>3. /\ SubSeq(q, m, Len(q)) \in Seq(Callers)
      /\ Len(SubSeq(q, m, Len(q))) = IF m <= Len(q) THEN Len(q) - m + 1 ELSE 0
      /\ \A j \in 1..(Len(q) - m + 1) : SubSeq(q, m, Len(q))[j] = q[m + j - 1]
  BY <1>2, SubSeqProperties
<1> QED
  BY <1>0, <1>3 DEF m

--------------------------------------------------------------------------------
(* The invariant is inductive *)

LEMMA GateInit == Init => GateInv
<1> SUFFICES ASSUME Init PROVE GateInv
  OBVIOUS
<1> USE DEF Init
<1>1. TypeOK
  <2>1. queue \in Seq(Callers) /\ Len(queue) = 0
    BY EmptySeq
  <2>2. status \in [Callers -> Statuses]
    BY DEF Statuses, Outcomes
  <2>3. activeCount \in Nat /\ closed \in BOOLEAN /\ aborted \in SUBSET Callers
    OBVIOUS
  <2> HIDE DEF Init
  <2> QED
    BY <2>1, <2>2, <2>3, BoundsAssumption DEF TypeOK
<1>2. SlotAccounting
  <2>1. Held = {}
    BY DEF Held
  <2> QED
    BY <2>1, FS_EmptySet, BoundsAssumption DEF SlotAccounting
<1>3. QueueHoldsWaiters
  <2>1. DOMAIN queue = {}
    BY EmptySeq
  <2> QED
    BY <2>1 DEF QueueHoldsWaiters
<1>4. WorkConserving /\ ClosedDrains
  BY DEF WorkConserving, ClosedDrains
<1> QED
  BY <1>1, <1>2, <1>3, <1>4 DEF GateInv

\* The invariant in the form the steps below use it.
LEMMA GateFacts ==
    ASSUME GateInv
    PROVE  /\ Len(queue) \in Nat
           /\ DOMAIN queue = 1..Len(queue)
           /\ \A i \in 1..Len(queue) : queue[i] \in Callers /\ status[queue[i]] = "waiting"
           /\ Held \in SUBSET Callers
           /\ activeCount \in Nat
           /\ MaxConcurrency \in Nat
<1>1. queue \in Seq(Callers)
  BY DEF GateInv, TypeOK
<1>2. Len(queue) \in Nat /\ DOMAIN queue = 1..Len(queue)
  BY <1>1, LenProperties
<1>3. \A i \in 1..Len(queue) : queue[i] \in Callers
  BY <1>1, ElementOfSeq
<1>4. \A i \in 1..Len(queue) : status[queue[i]] = "waiting"
  BY <1>2 DEF GateInv, QueueHoldsWaiters
<1> QED
  BY <1>2, <1>3, <1>4, BoundsAssumption DEF GateInv, TypeOK, Held

LEMMA AcquireRejectedStep ==
    ASSUME GateInv, NEW c \in Callers, AcquireRejected(c)
    PROVE  GateInv'
<1> USE GateFacts DEF GateInv
<1>1. status[c] \in Outcomes /\ UNCHANGED <<activeCount, closed, queue, aborted>>
  BY DEF AcquireRejected
<1>2. \/ status' = [status EXCEPT ![c] = "aborted"]
      \/ status' = [status EXCEPT ![c] = "closed"]
  BY DEF AcquireRejected
<1>3. TypeOK'
  BY <1>1, <1>2 DEF TypeOK, Statuses, Outcomes
<1>4. Held' = Held
  BY <1>1, <1>2, HoldersUnchanged DEF TypeOK, Outcomes
<1>5. QueueHoldsWaiters'
  BY <1>1, <1>2 DEF QueueHoldsWaiters, TypeOK, Outcomes
<1> QED
  BY <1>1, <1>3, <1>4, <1>5 DEF SlotAccounting, WorkConserving, ClosedDrains

LEMMA AcquireGrantedStep ==
    ASSUME GateInv, NEW c \in Callers, AcquireGranted(c)
    PROVE  GateInv'
<1> USE GateFacts DEF GateInv
<1>1. /\ status[c] \in Outcomes /\ ~closed /\ activeCount < MaxConcurrency
      /\ activeCount' = activeCount + 1
      /\ status' = [status EXCEPT ![c] = "held"]
      /\ UNCHANGED <<closed, queue, aborted>>
  BY DEF AcquireGranted
<1>2. TypeOK'
  BY <1>1 DEF TypeOK, Statuses, Outcomes
<1>3. SlotAccounting'
  <2>1. Cardinality(Held') = Cardinality(Held) + 1
    BY <1>1, HolderAdded DEF Outcomes
  <2> QED
    BY <1>1, <2>1 DEF SlotAccounting
<1>4. QueueHoldsWaiters'
  BY <1>1 DEF QueueHoldsWaiters, TypeOK, Outcomes
<1>5. queue = <<>>
  BY <1>1 DEF WorkConserving
<1> QED
  BY <1>1, <1>2, <1>3, <1>4, <1>5 DEF WorkConserving, ClosedDrains

LEMMA AcquireQueuedStep ==
    ASSUME GateInv, NEW c \in Callers, AcquireQueued(c)
    PROVE  GateInv'
<1> USE GateFacts DEF GateInv
<1>1. /\ status[c] \in Outcomes /\ ~closed /\ activeCount >= MaxConcurrency
      /\ UNCHANGED <<activeCount, closed, aborted>>
  BY DEF AcquireQueued
<1>2. CASE status' = [status EXCEPT ![c] = "full"] /\ queue' = queue
  <2>1. TypeOK'
    BY <1>1, <1>2 DEF TypeOK, Statuses, Outcomes
  <2>2. Held' = Held
    BY <1>1, <1>2, HoldersUnchanged DEF TypeOK, Outcomes
  <2>3. QueueHoldsWaiters'
    BY <1>1, <1>2 DEF QueueHoldsWaiters, TypeOK, Outcomes
  <2> QED
    BY <1>1, <1>2, <2>1, <2>2, <2>3 DEF SlotAccounting, WorkConserving, ClosedDrains
<1>3. CASE ~QueueFull /\ status' = [status EXCEPT ![c] = "waiting"] /\ queue' = Append(queue, c)
  <2>1. /\ queue' \in Seq(Callers)
        /\ Len(queue') = Len(queue) + 1
        /\ \A i \in 1..Len(queue) : queue'[i] = queue[i]
        /\ queue'[Len(queue) + 1] = c
    BY <1>3, AppendProperties DEF TypeOK
  <2>2. TypeOK'
    BY <1>1, <1>3, <2>1, BoundsAssumption DEF TypeOK, Statuses, Outcomes, QueueFull
  <2>3. Held' = Held
    BY <1>1, <1>3, HoldersUnchanged DEF TypeOK, Outcomes
  <2>4. DOMAIN queue' = 1..(Len(queue) + 1)
    BY <2>1, LenProperties
  <2>5. \A i \in 1..Len(queue) : queue[i] # c
    BY <1>1 DEF Outcomes
  <2>6. QueueHoldsWaiters'
    <3>1. \A i \in DOMAIN queue' : i \in 1..Len(queue) \/ i = Len(queue) + 1
      BY <2>4
    <3>2. \A i \in DOMAIN queue' : status'[queue'[i]] = "waiting"
      BY <1>3, <2>1, <2>5, <3>1 DEF TypeOK
    <3>3. \A i, j \in DOMAIN queue' : queue'[i] = queue'[j] => i = j
      BY <2>1, <2>5, <3>1 DEF QueueHoldsWaiters
    <3> QED
      BY <3>2, <3>3 DEF QueueHoldsWaiters
  <2> QED
    BY <1>1, <2>2, <2>3, <2>6 DEF SlotAccounting, WorkConserving, ClosedDrains
<1> QED
  BY <1>2, <1>3 DEF AcquireQueued

LEMMA OnAbortStep ==
    ASSUME GateInv, NEW i \in DOMAIN queue, OnAbort(i)
    PROVE  GateInv'
<1> USE GateFacts DEF GateInv
<1>1. /\ status' = [status EXCEPT ![queue[i]] = "aborted"]
      /\ aborted' = aborted \ {queue[i]}
      /\ queue' = WithoutIndex(queue, i)
      /\ UNCHANGED <<activeCount, closed>>
  BY DEF OnAbort
<1>2. /\ queue' \in Seq(Callers)
      /\ Len(queue') = Len(queue) - 1
      /\ \A j \in 1..(Len(queue) - 1) : queue'[j] = queue[IF j < i THEN j ELSE j + 1]
  BY <1>1, WithoutIndexProperties DEF TypeOK
<1>3. TypeOK'
  BY <1>1, <1>2, BoundsAssumption DEF TypeOK, Statuses, Outcomes
<1>4. Held' = Held
  BY <1>1, HoldersUnchanged DEF TypeOK
<1>5. DOMAIN queue' = 1..(Len(queue) - 1)
  BY <1>2, LenProperties
<1>6. QueueHoldsWaiters'
  <2> DEFINE at(j) == IF j < i THEN j ELSE j + 1
  <2>1. \A j \in DOMAIN queue' : at(j) \in 1..Len(queue) /\ at(j) # i /\ queue'[j] = queue[at(j)]
    BY <1>2, <1>5
  <2>2. \A j, k \in DOMAIN queue' : at(j) = at(k) => j = k
    BY <1>5
  <2> HIDE DEF at
  <2>3. \A j \in DOMAIN queue' : queue[at(j)] # queue[i]
    BY <2>1 DEF QueueHoldsWaiters
  <2>4. \A j \in DOMAIN queue' : status'[queue'[j]] = "waiting"
    BY <1>1, <2>1, <2>3 DEF TypeOK
  <2>5. \A j, k \in DOMAIN queue' : queue'[j] = queue'[k] => j = k
    BY <2>1, <2>2 DEF QueueHoldsWaiters
  <2> QED
    BY <2>4, <2>5 DEF QueueHoldsWaiters
<1>7. queue # <<>>
  BY EmptySeq
<1> QED
  BY <1>1, <1>3, <1>4, <1>6, <1>7 DEF SlotAccounting, WorkConserving, ClosedDrains

LEMMA ReleaseStep ==
    ASSUME GateInv, NEW c \in Callers, Release(c)
    PROVE  GateInv'
<1> USE GateFacts DEF GateInv
<1>1. status[c] = "held" /\ UNCHANGED <<closed, aborted>>
  BY DEF Release
<1>2. c \in Held /\ activeCount > 0
  BY <1>1, CallersSubset, FS_EmptySet DEF Held, SlotAccounting
<1>3. CASE /\ status' = [status EXCEPT ![c] = "released"]
           /\ activeCount' = activeCount - 1
           /\ queue' = <<>>
  <2>1. TypeOK'
    BY <1>1, <1>2, <1>3, EmptySeq, BoundsAssumption DEF TypeOK, Statuses, Outcomes
  <2>2. SlotAccounting'
    <3>1. Cardinality(Held') = Cardinality(Held) - 1
      BY <1>1, <1>3, HolderRemoved
    <3> QED
      BY <1>2, <1>3, <3>1 DEF SlotAccounting
  <2>3. DOMAIN queue' = {}
    BY <1>3, EmptySeq
  <2> QED
    BY <1>3, <2>1, <2>2, <2>3 DEF QueueHoldsWaiters, WorkConserving, ClosedDrains
<1>4. CASE closed \/ activeCount - 1 >= MaxConcurrency
  <2>1. closed
    BY <1>4 DEF SlotAccounting
  <2>2. queue = <<>>
    BY <2>1 DEF ClosedDrains
  <2>3. queue' = <<>>
    BY <1>4, <2>1, <2>2 DEF Release
  <2> QED
    BY <1>3, <1>4, <2>1, <2>3 DEF Release
<1>5. ASSUME ~closed, NEW k \in 0..Len(queue), k < Len(queue),
             status' = [status EXCEPT ![c] = "released", ![queue[k + 1]] = "held"],
             activeCount' = activeCount,
             queue' = SubSeq(queue, k + 2, Len(queue))
      PROVE  GateInv'
  <2>1. /\ queue' \in Seq(Callers)
        /\ Len(queue') = Len(queue) - k - 1
        /\ \A j \in 1..(Len(queue) - k - 1) : queue'[j] = queue[k + 1 + j]
    BY <1>5, QueueRest DEF TypeOK
  <2>2. k + 1 \in 1..Len(queue) /\ queue[k + 1] \in Callers /\ status[queue[k + 1]] = "waiting"
    BY <1>5
  <2>3. TypeOK'
    <3>1. status' \in [Callers -> Statuses]
      BY <1>5, <2>2 DEF TypeOK, Statuses, Outcomes
    <3>2. Len(queue') <= MaxQueueSize
      BY <1>5, <2>1, BoundsAssumption DEF TypeOK
    <3> QED
      BY <1>1, <1>5, <2>1, <3>1, <3>2 DEF TypeOK
  <2>4. SlotAccounting'
    BY <1>1, <1>5, <2>2, HolderReplaced DEF SlotAccounting
  <2>5. DOMAIN queue' = 1..(Len(queue) - k - 1)
    BY <2>1, LenProperties
  <2>6. QueueHoldsWaiters'
    <3>1. ASSUME NEW j \in DOMAIN queue'
          PROVE  /\ k + 1 + j \in 1..Len(queue)
                 /\ k + 1 + j # k + 1
                 /\ queue'[j] = queue[k + 1 + j]
      <4>1. j \in 1..(Len(queue) - k - 1)
        BY <2>5
      <4>2. PICK n \in Nat : n = Len(queue) /\ k \in 0..n
        BY DEF GateInv, TypeOK
      <4>3. k + 1 + j \in 1..n /\ k + 1 + j # k + 1
        BY <4>1, <4>2
      <4>4. queue'[j] = queue[k + 1 + j]
        BY <2>1, <4>1
      <4> QED
        BY <4>2, <4>3, <4>4
    <3>2. \A j \in DOMAIN queue' : queue'[j] # queue[k + 1] /\ queue'[j] # c
      BY <1>1, <2>2, <3>1 DEF QueueHoldsWaiters
    <3>3. \A j \in DOMAIN queue' : status'[queue'[j]] = "waiting"
      BY <1>5, <3>1, <3>2 DEF TypeOK
    <3>4. \A i, j \in DOMAIN queue' : queue'[i] = queue'[j] => i = j
      <4> SUFFICES ASSUME NEW i \in DOMAIN queue', NEW j \in DOMAIN queue', queue'[i] = queue'[j]
                   PROVE  i = j
        OBVIOUS
      <4>1. k + 1 + i = k + 1 + j
        BY <3>1 DEF QueueHoldsWaiters
      <4> QED
        BY <2>5, <4>1
    <3> QED
      BY <3>3, <3>4 DEF QueueHoldsWaiters
  <2>7. queue # <<>>
    BY <2>2, EmptySeq
  <2> QED
    BY <1>1, <1>5, <2>3, <2>4, <2>6, <2>7 DEF WorkConserving, ClosedDrains
<1> QED
  BY <1>3, <1>4, <1>5 DEF Release

LEMMA CloseStep ==
    ASSUME GateInv, Close
    PROVE  GateInv'
<1> USE GateFacts DEF GateInv
<1>1. /\ closed' = TRUE
      /\ status' = [c \in Callers |->
                      IF \E i \in DOMAIN queue : queue[i] = c THEN "closed" ELSE status[c]]
      /\ aborted' = {c \in aborted : \A i \in DOMAIN queue : queue[i] # c}
      /\ queue' = <<>>
      /\ UNCHANGED activeCount
  BY DEF Close
<1>2. TypeOK'
  <2>1. status' \in [Callers -> Statuses]
    BY <1>1 DEF TypeOK, Statuses, Outcomes
  <2> QED
    BY <1>1, <2>1, EmptySeq, BoundsAssumption DEF TypeOK
<1>3. \A c \in Callers : status'[c] = "held" <=> status[c] = "held"
  BY <1>1
<1>4. Held' = Held
  BY <1>3, HoldersUnchanged
<1>5. DOMAIN queue' = {}
  BY <1>1, EmptySeq
<1> QED
  BY <1>1, <1>2, <1>4, <1>5 DEF SlotAccounting, QueueHoldsWaiters, WorkConserving, ClosedDrains

\* Every step of the gate preserves the invariant.
LEMMA GateNext == GateInv /\ [Next]_vars => GateInv'
<1> SUFFICES ASSUME GateInv, [Next]_vars PROVE GateInv'
  OBVIOUS
<1>1. CASE UNCHANGED vars
  BY <1>1 DEF vars, GateInv, TypeOK, SlotAccounting, Held, QueueHoldsWaiters, WorkConserving,
              ClosedDrains
<1>2. ASSUME NEW c \in Callers, AcquireRejected(c) PROVE GateInv'
  BY <1>2, AcquireRejectedStep
<1>3. ASSUME NEW c \in Callers, AcquireGranted(c) PROVE GateInv'
  BY <1>3, AcquireGrantedStep
<1>4. ASSUME NEW c \in Callers, AcquireQueued(c) PROVE GateInv'
  BY <1>4, AcquireQueuedStep
<1>5. ASSUME NEW c \in Callers, Release(c) PROVE GateInv'
  BY <1>5, ReleaseStep
<1>6. ASSUME NEW i \in DOMAIN queue, ScriptAbort(i) \/ NativeAbortDelivered(i) PROVE GateInv'
  BY <1>6, OnAbortStep DEF ScriptAbort, NativeAbortDelivered
<1>7. ASSUME NEW i \in DOMAIN queue, NativeAbortBegins(i) PROVE GateInv'
  <2>1. queue[i] \in Callers
    BY GateFacts
  <2> QED
    BY <1>7, <2>1 DEF NativeAbortBegins, GateInv, TypeOK, SlotAccounting, Held, QueueHoldsWaiters,
                      WorkConserving, ClosedDrains
<1>8. CASE Close
  BY <1>8, CloseStep
<1> QED
  BY <1>1, <1>2, <1>3, <1>4, <1>5, <1>6, <1>7, <1>8 DEF Next

--------------------------------------------------------------------------------
(* The theorems *)

\* The inductive invariant holds in every reachable state of the gate.
THEOREM GateCorrect == Spec => []GateInv
BY GateInit, GateNext, PTL DEF Spec

\* The gate's variables keep their types, and no more than maxQueueSize callers wait.
THEOREM GateTypeCorrect == Spec => []TypeOK
<1>1. GateInv => TypeOK
  BY DEF GateInv
<1> QED
  BY GateCorrect, <1>1, PTL

\* For all limits and any number of callers, activeCount is the number of callers
\* between acquire() and release(), and it never exceeds maxConcurrency.
THEOREM GateSlotAccounting == Spec => []SlotAccounting
<1>1. GateInv => SlotAccounting
  BY DEF GateInv
<1> QED
  BY GateCorrect, <1>1, PTL

\* Nobody waits in an open gate that has a free slot.
THEOREM GateWorkConserving == Spec => []WorkConserving
<1>1. GateInv => WorkConserving
  BY DEF GateInv
<1> QED
  BY GateCorrect, <1>1, PTL

\* The queue holds waiting callers, each once, so that no slot is granted to a
\* caller that has given up.
THEOREM GateQueueHoldsWaiters == Spec => []QueueHoldsWaiters
<1>1. GateInv => QueueHoldsWaiters
  BY DEF GateInv
<1> QED
  BY GateCorrect, <1>1, PTL

\* close() leaves no waiter behind, and none is added later.
THEOREM GateClosedDrains == Spec => []ClosedDrains
<1>1. GateInv => ClosedDrains
  BY DEF GateInv
<1> QED
  BY GateCorrect, <1>1, PTL

\* Slots are granted in arrival order: acquire() cannot overtake the waiters, and
\* release() passes over a waiter only if its signal is aborted.
THEOREM GateGrantsInOrder == Spec => GrantsInOrder
<1> DEFINE InOrder ==
      \A c \in Callers :
         status[c] # "held" /\ status'[c] = "held" =>
           \/ queue = <<>>
           \/ \E n \in DOMAIN queue :
                queue[n] = c /\ \A i \in 1..(n - 1) : queue[i] \in aborted
<1>1. ASSUME GateInv, [Next]_vars PROVE [InOrder]_vars
  <2> SUFFICES ASSUME NEW c \in Callers, status[c] # "held", status'[c] = "held",
                      queue # <<>>
               PROVE  \E n \in DOMAIN queue :
                        queue[n] = c /\ \A i \in 1..(n - 1) : queue[i] \in aborted
    OBVIOUS
  <2> USE <1>1, GateFacts
  <2>0. status \in [Callers -> Statuses]
    BY DEF GateInv, TypeOK
  <2>1. ASSUME NEW d \in Callers, AcquireRejected(d) \/ AcquireQueued(d) PROVE FALSE
    BY <2>0, <2>1 DEF AcquireRejected, AcquireQueued
  <2>2. ASSUME NEW d \in Callers, AcquireGranted(d) PROVE FALSE
    BY <2>2 DEF AcquireGranted, GateInv, WorkConserving
  <2>3. ASSUME NEW i \in DOMAIN queue,
               ScriptAbort(i) \/ NativeAbortDelivered(i) \/ NativeAbortBegins(i)
        PROVE  FALSE
    BY <2>0, <2>3 DEF ScriptAbort, NativeAbortDelivered, NativeAbortBegins, OnAbort
  <2>4. CASE Close
    BY <2>0, <2>4 DEF Close
  <2>5. CASE UNCHANGED vars
    BY <2>5 DEF vars
  <2>6. ASSUME NEW d \in Callers, Release(d)
        PROVE  \E n \in DOMAIN queue :
                 queue[n] = c /\ \A i \in 1..(n - 1) : queue[i] \in aborted
    <3>1. status' # [status EXCEPT ![d] = "released"]
      BY <2>0
    <3>2. PICK k \in 0..Len(queue) :
            /\ \A i \in 1..k : queue[i] \in aborted
            /\ k < Len(queue)
            /\ status' = [status EXCEPT ![d] = "released", ![queue[k + 1]] = "held"]
      BY <2>6, <3>1 DEF Release
    <3>3. queue[k + 1] = c
      BY <2>0, <3>2
    <3>4. k + 1 \in DOMAIN queue /\ \A i \in 1..((k + 1) - 1) : queue[i] \in aborted
      BY <3>2
    <3> QED
      BY <3>3, <3>4
  <2> QED
    BY <2>1, <2>2, <2>3, <2>4, <2>5, <2>6 DEF Next
<1> QED
  BY <1>1, GateCorrect, PTL DEF Spec, GrantsInOrder

\* After close() no caller obtains a slot any more.
THEOREM GateNoGrantAfterClose == Spec => NoGrantAfterClose
<1> DEFINE NoGrant == closed => \A c \in Callers : status'[c] = "held" => status[c] = "held"
<1>1. ASSUME GateInv, [Next]_vars PROVE [NoGrant]_vars
  <2> SUFFICES ASSUME closed, NEW c \in Callers, status'[c] = "held", status[c] # "held"
               PROVE  FALSE
    OBVIOUS
  <2> USE <1>1, GateFacts
  <2>0. status \in [Callers -> Statuses] /\ queue = <<>>
    BY DEF GateInv, TypeOK, ClosedDrains
  <2>1. DOMAIN queue = {}
    BY <2>0, EmptySeq
  <2>2. ASSUME NEW d \in Callers,
               AcquireRejected(d) \/ AcquireGranted(d) \/ AcquireQueued(d) \/ Release(d)
        PROVE  FALSE
    BY <2>0, <2>2 DEF AcquireRejected, AcquireGranted, AcquireQueued, Release
  <2>3. ~Close
    BY DEF Close
  <2>4. ~UNCHANGED vars
    BY DEF vars
  <2> QED
    BY <2>1, <2>2, <2>3, <2>4 DEF Next
<1> QED
  BY <1>1, GateCorrect, PTL DEF Spec, NoGrantAfterClose

--------------------------------------------------------------------------------
(***************************************************************************)
(* The path                                                                *)
(***************************************************************************)

\* The classes whose effect the broker must not see twice in another session.
HandleWrites == HandleClasses \ {"handleRead"}

\* c waits in the queue of the current gate.
Queued(c) == \E i \in DOMAIN queue : queue[i] = c

\* A frame of c is on the write chain.
OnChain(c) == \E i \in DOMAIN chain : chain[i].caller = c

\* c may still write into the current session.
Live(c) == pc[c] = "woken" \/ (pc[c] = "gate" /\ (status[c] = "held" \/ Queued(c)))

Frames == [caller : Callers, attempt : Nat, for : Nat]
UnderWay == {"gate", "chain", "reply", "rejected"}

(***************************************************************************)
(* The inductive invariant, in six parts.                                  *)
(***************************************************************************)

\* The variables and what travels have their types, and who backs off has an attempt left.
TypePart ==
    /\ PTypeOK
    /\ \A c \in Callers : pc[c] = "backoff" => attempt[c] < MaxAttempts
    /\ chain \in Seq(Frames)

\* The gate is correct, it is closed exactly while there is no session, who holds
\* a slot or waits for one is at the await of it or behind, and a waiter is queued
\* unless release() passed over it.
GatePart ==
    /\ GateInv
    /\ closed <=> conn \in {"down", "closed"}
    /\ \A c \in Callers :
         /\ status[c] = "held" => pc[c] \in UnderWay
         /\ status[c] = "waiting" => pc[c] = "gate" /\ (c \in aborted \/ Queued(c))

\* The readiness counter counts those who wait for readiness.
ReadyPart ==
    /\ \A c \in waitSlots : pc[c] \in {"ready", "woken", "rejected"}
    /\ \A c \in Callers : pc[c] = "ready" => c \in waitSlots /\ conn \in {"down", "restoring"}
    /\ Cardinality(waitSlots) <= MaxQueueSize

\* Who waits on the chain has its frame there, and an answer is kept for a request
\* that waits for it.
ChainPart ==
    \A c \in Callers :
      /\ pc[c] = "chain" =>
           \E i \in DOMAIN chain : chain[i].caller = c /\ chain[i].attempt = attempt[c]
      /\ answer[c] # "none" => pc[c] = "reply"

\* What a write may still do: it has one frame on the chain or has been executed or
\* neither, never two of these, and with either it is past the point of a retry.
WriteOnce(c) ==
    /\ effects[c] <= 1
    /\ effects[c] = 1 =>
         ~OnChain(c) /\ pc[c] \in {"reply", "rejected", "done"} /\ answer[c] # "negative"
    /\ OnChain(c) => pc[c] \in {"chain", "rejected", "done"}
    /\ \A i, j \in DOMAIN chain : chain[i].caller = c /\ chain[j].caller = c => i = j

\* What c issued before the session is over but for the frame it left on the chain,
\* which no broker of this session gets, and cannot be issued again.
Outdated(c) ==
    /\ pc[c] \in {"chain", "reply", "rejected", "done"} /\ answer[c] \in {"none", "lost"}
    /\ \A i \in DOMAIN chain : chain[i].caller = c => chain[i].for < sess

OncePart ==
    /\ \A c \in Callers :
         /\ err[c] # "negative"
         /\ pc[c] = "idle" => class[c] = "none"
         /\ class[c] \notin {"restore", "handleRead"} => WriteOnce(c)
         /\ c \in past /\ class[c] # "handleRead" => Outdated(c)
    /\ \A i \in DOMAIN chain : chain[i].for <= sess

\* A handle that heard of every disconnect is open in its own session only, no write
\* through it waits for another one, and its frames name its session.
InItsSession ==
    /\ open => conn = "up" /\ begun = sess
    /\ \A c \in Callers : class[c] \in HandleWrites =>
         pc[c] # "ready" /\ (Live(c) => begun = sess)
    /\ \A i \in DOMAIN chain : class[chain[i].caller] \in HandleWrites => chain[i].for = begun
    /\ \A c \in wire : class[c] \in HandleWrites => begun = sess

\* Until a handle is made there is no call through it, and no session follows the one
\* it was granted in; no write is retried; a transaction has one caller that ends it;
\* and a handle that is not made after a loss stays in its session.
HandlePart ==
    /\ kind = "none" => ~open
    /\ granted # "none" => kind = "none" /\ begun = sess
    /\ \A c \in Callers :
         /\ class[c] \in HandleClasses => kind # "none"
         /\ class[c] \in HandleWrites => pc[c] # "backoff"
    /\ kind = "kv" =>
         \A c, d \in Callers :
           class[c] \in {"commit", "rollback"} =>
             /\ ~open
             /\ class[d] \in {"commit", "rollback"} => c = d
    /\ ~untold => InItsSession

PathInv == TypePart /\ GatePart /\ ReadyPart /\ ChainPart /\ OncePart /\ HandlePart

\* The steps that make a handle.
HandleMade ==
    KvBegin \/ StreamBegin \/ ReserveItem \/ \E k \in {"kv", "stream", "item"} : Granted(k)

\* They change nothing but the handle.
LEMMA HandleMadeEffect ==
    ASSUME HandleMade
    PROVE  UNCHANGED <<vars, conn, sess, past, pc, class, attempt, err, waitSlots, chain, answer,
                       wire, effects>>
BY DEF HandleMade, KvBegin, StreamBegin, ReserveItem, MakeHandle, Granted, session

--------------------------------------------------------------------------------
(* What the steps of a call do to the gate *)

\* release() in the finally block: the caller has no slot afterwards, and nobody gets
\* one but a waiter of the queue.
LEMMA ReleaseSlotEffect ==
    ASSUME GateInv, NEW c \in Callers, ReleaseSlot(c),
           \A d \in Callers : status[d] = "waiting" => d \in aborted \/ Queued(d)
    PROVE  /\ GateInv'
           /\ UNCHANGED <<closed, aborted>>
           /\ status'[c] # "held" /\ (status'[c] = "waiting" => status[c] = "waiting")
           /\ \A d \in Callers : d # c =>
                \/ status'[d] = status[d]
                \/ status[d] = "waiting" /\ Queued(d) /\ status'[d] = "held"
           /\ \A d \in Callers : status'[d] = "waiting" => d \in aborted \/ Queued(d)'
           /\ \A d \in Callers : Queued(d)' => Queued(d)
<1> USE GateFacts
<1>0. status \in [Callers -> Statuses] /\ queue \in Seq(Callers)
  BY DEF GateInv, TypeOK
<1>1. CASE status[c] # "held"
  <2>1. UNCHANGED vars
    BY <1>1 DEF ReleaseSlot
  <2> QED
    BY <1>1, <2>1 DEF vars, GateInv, TypeOK, SlotAccounting, Held, QueueHoldsWaiters,
                      WorkConserving, ClosedDrains, Queued
<1>2. CASE status[c] = "held"
  <2>1. Release(c)
    BY <1>2 DEF ReleaseSlot
  <2>2. GateInv' /\ UNCHANGED <<closed, aborted>>
    BY <2>1, ReleaseStep DEF Release
  <2>3. CASE status' = [status EXCEPT ![c] = "released"] /\ queue' = queue
    BY <1>0, <1>2, <2>2, <2>3 DEF Queued
  <2>4. ASSUME \A i \in DOMAIN queue : queue[i] \in aborted,
               status' = [status EXCEPT ![c] = "released"], queue' = <<>>
        PROVE  /\ status'[c] # "held" /\ (status'[c] = "waiting" => status[c] = "waiting")
               /\ \A d \in Callers : d # c =>
                    \/ status'[d] = status[d]
                    \/ status[d] = "waiting" /\ Queued(d) /\ status'[d] = "held"
               /\ \A d \in Callers : status'[d] = "waiting" => d \in aborted \/ Queued(d)'
               /\ \A d \in Callers : Queued(d)' => Queued(d)
    <3>1. DOMAIN queue' = {}
      BY <2>4, EmptySeq
    <3> QED
      BY <1>0, <1>2, <2>4, <3>1 DEF Queued
  <2>5. ASSUME NEW k \in 0..Len(queue), \A i \in 1..k : queue[i] \in aborted,
               k < Len(queue),
               status' = [status EXCEPT ![c] = "released", ![queue[k + 1]] = "held"],
               queue' = SubSeq(queue, k + 2, Len(queue))
        PROVE  /\ status'[c] # "held" /\ (status'[c] = "waiting" => status[c] = "waiting")
               /\ \A d \in Callers : d # c =>
                    \/ status'[d] = status[d]
                    \/ status[d] = "waiting" /\ Queued(d) /\ status'[d] = "held"
               /\ \A d \in Callers : status'[d] = "waiting" => d \in aborted \/ Queued(d)'
               /\ \A d \in Callers : Queued(d)' => Queued(d)
    <3>0. k \in Nat /\ k < Len(queue)
      BY <2>5
    <3>1. /\ queue' \in Seq(Callers)
          /\ Len(queue') = Len(queue) - k - 1
          /\ \A j \in 1..(Len(queue) - k - 1) : queue'[j] = queue[k + 1 + j]
      BY <1>0, <2>5, <3>0, QueueRest
    <3>2. DOMAIN queue' = 1..(Len(queue) - k - 1)
      BY <3>1, LenProperties
    <3>3. k + 1 \in DOMAIN queue /\ queue[k + 1] \in Callers /\ status[queue[k + 1]] = "waiting"
      BY <2>5
    <3>4. \A j \in DOMAIN queue' : k + 1 + j \in DOMAIN queue /\ queue'[j] = queue[k + 1 + j]
      BY <3>0, <3>1, <3>2
    <3>5. \A j \in DOMAIN queue : j > k + 1 =>
             j - k - 1 \in DOMAIN queue' /\ queue'[j - k - 1] = queue[j]
      <4>1. \A j \in DOMAIN queue : j > k + 1 =>
               j - k - 1 \in DOMAIN queue' /\ k + 1 + (j - k - 1) = j
        BY <3>0, <3>2
      <4> QED
        BY <3>4, <4>1
    <3>6. ASSUME NEW d \in Callers, status'[d] = "waiting", d \notin aborted
          PROVE  Queued(d)'
      <4>1. status[d] = "waiting" /\ d # queue[k + 1]
        BY <1>0, <2>5, <3>3, <3>6
      <4>2. PICK j \in DOMAIN queue : queue[j] = d
        BY <3>6, <4>1 DEF Queued
      <4>3. j > k + 1
        BY <2>5, <3>6, <4>1, <4>2
      <4> QED
        BY <3>5, <4>2, <4>3 DEF Queued
    <3>7. \A d \in Callers : Queued(d)' => Queued(d)
      BY <3>4 DEF Queued
    <3>8. \A d \in Callers : d # c =>
             \/ status'[d] = status[d]
             \/ status[d] = "waiting" /\ Queued(d) /\ status'[d] = "held"
      BY <1>0, <2>5, <3>3 DEF Queued
    <3>9. status'[c] = "released"
      BY <1>0, <1>2, <2>5, <3>3
    <3> QED
      BY <2>2, <3>6, <3>7, <3>8, <3>9
  <2> QED
    BY <2>1, <2>2, <2>3, <2>4, <2>5 DEF Release
<1> QED
  BY <1>1, <1>2

\* The gate of a session that ends: nobody is queued in it, nobody obtains a slot,
\* and those whose attempt ends with it have none.
LEMMA SessionEndsEffect ==
    ASSUME GateInv, NEW C \in SUBSET Callers, NEW n, SessionEnds(C, n),
           \A d \in Callers : status[d] = "waiting" => d \in aborted \/ Queued(d)
    PROVE  /\ GateInv' /\ closed' = TRUE
           /\ \A d \in Callers :
                /\ status'[d] = "held" => status[d] = "held" /\ d \notin C
                /\ status'[d] = "waiting" => status[d] = "waiting" /\ d \in aborted'
                /\ ~Queued(d)'
<1> USE GateFacts DEF GateInv
<1>1. /\ closed' = TRUE
      /\ status' = [c \in Callers |->
            IF Queued(c) THEN "closed"
            ELSE IF c \in C /\ status[c] = "held" THEN "released" ELSE status[c]]
      /\ activeCount' = activeCount - Cardinality(C \cap Held)
      /\ aborted' = {c \in aborted : ~Queued(c)}
      /\ queue' = <<>>
  BY DEF SessionEnds, Queued
<1>2. DOMAIN queue' = {}
  BY <1>1, EmptySeq
<1>3. \A c \in Callers : Queued(c) => status[c] = "waiting"
  BY DEF Queued
<1>4. Held' = Held \ C
  BY <1>1, <1>3 DEF Held
<1>5. Cardinality(Held \ C) = Cardinality(Held) - Cardinality(Held \cap C)
  BY CallersSubset, FS_Difference
<1>6. Held \cap C = C \cap Held
  OBVIOUS
<1>7. activeCount' = Cardinality(Held')
  BY <1>1, <1>4, <1>5, <1>6 DEF SlotAccounting
<1>8. Cardinality(C \cap Held) \in Nat /\ Cardinality(Held') \in Nat
  BY CallersSubset DEF Held
<1>9. status' \in [Callers -> Statuses]
  BY <1>1 DEF TypeOK, Statuses, Outcomes
<1>10. TypeOK'
  BY <1>1, <1>7, <1>8, <1>9, EmptySeq, BoundsAssumption DEF TypeOK
<1>11. SlotAccounting'
  BY <1>1, <1>7, <1>8, BoundsAssumption DEF SlotAccounting, TypeOK
<1>12. QueueHoldsWaiters' /\ WorkConserving' /\ ClosedDrains'
  BY <1>1, <1>2 DEF QueueHoldsWaiters, WorkConserving, ClosedDrains
<1>13. \A d \in Callers : ~Queued(d)'
  BY <1>2 DEF Queued
<1> QED
  BY <1>1, <1>3, <1>10, <1>11, <1>12, <1>13

\* The gate of a new session is empty; who is still unsettled in the old one was
\* passed over there.
LEMMA NewGateEffect ==
    ASSUME GateInv, closed, NewGate,
           \A d \in Callers : status[d] = "waiting" => d \in aborted \/ Queued(d)
    PROVE  /\ GateInv' /\ closed' = FALSE
           /\ \A d \in Callers :
                /\ status'[d] # "held"
                /\ status'[d] = "waiting" => status[d] = "waiting" /\ d \in aborted'
                /\ ~Queued(d)'
<1> USE GateFacts DEF GateInv
<1>1. /\ activeCount' = 0 /\ closed' = FALSE /\ queue' = <<>>
      /\ status' = [c \in Callers |-> IF status[c] = "waiting" THEN "waiting" ELSE "idle"]
      /\ aborted' = aborted
  BY DEF NewGate
<1>2. DOMAIN queue = {} /\ DOMAIN queue' = {}
  BY <1>1, EmptySeq DEF ClosedDrains
<1>3. Held' = {}
  BY <1>1 DEF Held
<1>4. TypeOK'
  <2>1. status' \in [Callers -> Statuses]
    BY <1>1 DEF Statuses, Outcomes
  <2>2. queue' \in Seq(Callers) /\ Len(queue') <= MaxQueueSize
    BY <1>1, EmptySeq, BoundsAssumption
  <2>3. aborted' \in SUBSET Callers
    BY <1>1 DEF TypeOK
  <2> QED
    BY <1>1, <2>1, <2>2, <2>3 DEF TypeOK
<1>5. SlotAccounting'
  BY <1>1, <1>3, FS_EmptySet, BoundsAssumption DEF SlotAccounting
<1>6. QueueHoldsWaiters' /\ WorkConserving' /\ ClosedDrains'
  BY <1>1, <1>2 DEF QueueHoldsWaiters, WorkConserving, ClosedDrains
<1>7. \A d \in Callers : ~Queued(d) /\ ~Queued(d)'
  BY <1>2 DEF Queued
<1> QED
  BY <1>1, <1>4, <1>5, <1>6, <1>7

\* A rejection that is handled leaves the gate to the others.
LEMMA RejectionHandledEffect ==
    ASSUME GateInv, NEW c \in Callers, status[c] \in Outcomes,
           status' = [status EXCEPT ![c] = "idle"],
           UNCHANGED <<activeCount, closed, queue, aborted>>
    PROVE  GateInv' /\ Held' = Held
<1> USE GateFacts DEF GateInv
<1>1. TypeOK'
  BY DEF TypeOK, Statuses, Outcomes
<1>2. Held' = Held
  BY HoldersUnchanged DEF TypeOK, Outcomes
<1>3. QueueHoldsWaiters'
  BY DEF QueueHoldsWaiters, TypeOK, Outcomes
<1> QED
  BY <1>1, <1>2, <1>3 DEF SlotAccounting, WorkConserving, ClosedDrains

\* A step that leaves the gate alone keeps its invariant and its queue.
LEMMA GateUntouched ==
    ASSUME GateInv, UNCHANGED vars
    PROVE  GateInv' /\ \A c : Queued(c)' = Queued(c)
BY DEF vars, GateInv, TypeOK, SlotAccounting, Held, QueueHoldsWaiters, WorkConserving,
       ClosedDrains, Queued

\* A failed attempt ends in the back-off or for good.
LEMMA AttemptFailsMoves ==
    ASSUME NEW c \in Callers, NEW e, AttemptFails(c, e)
    PROVE  \E x \in {"backoff", "done"} : pc' = [pc EXCEPT ![c] = x]
BY DEF AttemptFails

\* The head of the chain is a frame; the rest moves up by one.
LEMMA ChainRest ==
    ASSUME chain \in Seq(Frames), chain # <<>>
    PROVE  /\ Head(chain) = chain[1] /\ 1 \in DOMAIN chain
           /\ Head(chain) \in Frames /\ Head(chain).caller \in Callers
           /\ Tail(chain) \in Seq(Frames)
           /\ \A i \in DOMAIN Tail(chain) :
                i + 1 \in DOMAIN chain /\ i + 1 # 1 /\ Tail(chain)[i] = chain[i + 1]
           /\ \A i \in DOMAIN chain : i # 1 =>
                i - 1 \in DOMAIN Tail(chain) /\ Tail(chain)[i - 1] = chain[i]
<1>1. /\ Head(chain) \in Frames /\ Head(chain) = chain[1]
      /\ Tail(chain) \in Seq(Frames) /\ Len(Tail(chain)) = Len(chain) - 1
      /\ \A i \in 1..Len(Tail(chain)) : Tail(chain)[i] = chain[i + 1]
  BY HeadTailProperties
<1>2. /\ Len(chain) \in Nat /\ DOMAIN chain = 1..Len(chain)
      /\ Len(Tail(chain)) \in Nat /\ DOMAIN Tail(chain) = 1..Len(Tail(chain))
  BY <1>1, LenProperties
<1>3. Head(chain).caller \in Callers
  BY <1>1 DEF Frames
<1>4. \A i \in DOMAIN chain : i # 1 => i - 1 \in 1..Len(Tail(chain)) /\ (i - 1) + 1 = i
  BY <1>1, <1>2
<1>5. \A i \in DOMAIN chain : i # 1 => Tail(chain)[i - 1] = chain[i]
  BY <1>1, <1>4
<1> QED
  BY <1>1, <1>2, <1>3, <1>4, <1>5

\* Who is registered with the multiplexer is past the gate.
LEMMA RegisteredPastGate == \A c \in Registered : pc[c] \in {"chain", "reply"} /\ c \in Callers
BY DEF Registered

--------------------------------------------------------------------------------
(* The gate serves the calls that are under way *)

\* A call that moves on outside the gate, and is not in it, disturbs nobody there.
LEMMA MoveKeepsGatePart ==
    ASSUME TypePart, GatePart, NEW c \in Callers, NEW x, UNCHANGED <<vars, conn>>,
           pc' = [pc EXCEPT ![c] = x],
           status[c] = "waiting" => x = "gate", status[c] = "held" => x \in UnderWay
    PROVE  GatePart'
<1>1. GateInv' /\ \A d : Queued(d)' = Queued(d)
  BY GateUntouched DEF GatePart
<1>2. pc \in [Callers -> {"idle", "ready", "woken", "gate", "chain", "reply",
                          "rejected", "backoff", "done"}]
  BY DEF TypePart, PTypeOK
<1>3. \A d \in Callers :
         /\ status'[d] = "held" => pc'[d] \in UnderWay
         /\ status'[d] = "waiting" => pc'[d] = "gate" /\ (d \in aborted' \/ Queued(d)')
  BY <1>1, <1>2 DEF GatePart, vars
<1> QED
  BY <1>1, <1>3 DEF GatePart, vars

\* The end of an attempt gives its slot back, so that whoever gets it is at the gate.
LEMMA EndKeepsGatePart ==
    ASSUME TypePart, GatePart, NEW c \in Callers, NEW x, UNCHANGED conn,
           pc' = [pc EXCEPT ![c] = x], status[c] # "waiting", ReleaseSlot(c)
    PROVE  GatePart'
<1>1. \A d \in Callers : status[d] = "waiting" => d \in aborted \/ Queued(d)
  BY DEF GatePart
<1>2. /\ GateInv'
      /\ UNCHANGED <<closed, aborted>>
      /\ status'[c] # "held" /\ (status'[c] = "waiting" => status[c] = "waiting")
      /\ \A d \in Callers : d # c =>
           \/ status'[d] = status[d]
           \/ status[d] = "waiting" /\ Queued(d) /\ status'[d] = "held"
      /\ \A d \in Callers : status'[d] = "waiting" => d \in aborted \/ Queued(d)'
  BY <1>1, ReleaseSlotEffect DEF GatePart
<1>3. pc \in [Callers -> {"idle", "ready", "woken", "gate", "chain", "reply",
                          "rejected", "backoff", "done"}]
  BY DEF TypePart, PTypeOK
<1>4. ASSUME NEW d \in Callers
      PROVE  /\ status'[d] = "held" => pc'[d] \in UnderWay
             /\ status'[d] = "waiting" => pc'[d] = "gate" /\ (d \in aborted' \/ Queued(d)')
  BY <1>2, <1>3 DEF GatePart, UnderWay
<1> QED
  BY <1>2, <1>4 DEF GatePart

\* The end of a session leaves nobody in its queue.
LEMMA LossKeepsGatePart ==
    ASSUME TypePart, GatePart, NEW C \in SUBSET Callers, NEW n \in {"down", "closed"},
           SessionEnds(C, n),
           \A d \in Callers \ C : pc'[d] = pc[d] \/ (pc'[d] = "rejected" /\ pc[d] # "gate"),
           \A d \in C : status[d] # "waiting"
    PROVE  GatePart'
<1>1. \A d \in Callers : status[d] = "waiting" => d \in aborted \/ Queued(d)
  BY DEF GatePart
<1>2. /\ GateInv' /\ closed' = TRUE
      /\ \A d \in Callers :
           /\ status'[d] = "held" => status[d] = "held" /\ d \notin C
           /\ status'[d] = "waiting" => status[d] = "waiting" /\ d \in aborted'
  BY <1>1, SessionEndsEffect DEF GatePart
<1>3. conn' = n
  BY DEF SessionEnds
<1>4. ASSUME NEW d \in Callers
      PROVE  /\ status'[d] = "held" => pc'[d] \in UnderWay
             /\ status'[d] = "waiting" => pc'[d] = "gate" /\ (d \in aborted' \/ Queued(d)')
  BY <1>2 DEF GatePart, UnderWay
<1> QED
  BY <1>2, <1>3, <1>4 DEF GatePart

\* acquire() behind the await of readiness: granted, queued or refused.
LEMMA AcquireKeepsGatePart ==
    ASSUME TypePart, GatePart, NEW c \in Callers, UNCHANGED conn,
           AcquireGranted(c) \/ AcquireQueued(c), pc' = [pc EXCEPT ![c] = "gate"]
    PROVE  GatePart'
<1>1. GateInv'
  BY AcquireGrantedStep, AcquireQueuedStep DEF GatePart
<1>2. /\ status \in [Callers -> Statuses]
      /\ pc \in [Callers -> {"idle", "ready", "woken", "gate", "chain", "reply",
                             "rejected", "backoff", "done"}]
      /\ queue \in Seq(Callers)
  BY DEF TypePart, PTypeOK, TypeOK
<1>3. UNCHANGED <<closed, aborted>>
  BY DEF AcquireGranted, AcquireQueued
<1>4. \/ status' = [status EXCEPT ![c] = "held"] /\ queue' = queue
      \/ status' = [status EXCEPT ![c] = "full"] /\ queue' = queue
      \/ status' = [status EXCEPT ![c] = "waiting"] /\ queue' = Append(queue, c)
  BY DEF AcquireGranted, AcquireQueued
<1>5. CASE queue' = queue /\ \/ status' = [status EXCEPT ![c] = "held"]
                             \/ status' = [status EXCEPT ![c] = "full"]
  <2>1. \A d : Queued(d)' = Queued(d)
    BY <1>5 DEF Queued
  <2>2. ASSUME NEW d \in Callers
        PROVE  /\ status'[d] = "held" => pc'[d] \in UnderWay
               /\ status'[d] = "waiting" => pc'[d] = "gate" /\ (d \in aborted' \/ Queued(d)')
    BY <1>2, <1>3, <1>5, <2>1 DEF GatePart, UnderWay
  <2> QED
    BY <1>1, <1>3, <2>2 DEF GatePart
<1>6. CASE status' = [status EXCEPT ![c] = "waiting"] /\ queue' = Append(queue, c)
  <2>1. /\ queue' \in Seq(Callers) /\ Len(queue') = Len(queue) + 1
        /\ \A i \in 1..Len(queue) : queue'[i] = queue[i]
        /\ queue'[Len(queue) + 1] = c
        /\ Len(queue) \in Nat
    BY <1>2, <1>6, AppendProperties, LenProperties
  <2>2. DOMAIN queue' = 1..(Len(queue) + 1) /\ DOMAIN queue = 1..Len(queue)
    BY <1>2, <2>1, LenProperties
  <2>3. Queued(c)' /\ \A d : Queued(d) => Queued(d)'
    BY <2>1, <2>2 DEF Queued
  <2>4. ASSUME NEW d \in Callers
        PROVE  /\ status'[d] = "held" => pc'[d] \in UnderWay
               /\ status'[d] = "waiting" => pc'[d] = "gate" /\ (d \in aborted' \/ Queued(d)')
    BY <1>2, <1>3, <1>6, <2>3 DEF GatePart, UnderWay
  <2> QED
    BY <1>1, <1>3, <2>4 DEF GatePart
<1> QED
  BY <1>4, <1>5, <1>6

\* A signal of a waiter that fires leaves it at its await, rejected or passed over.
LEMMA AbortKeepsGatePart ==
    ASSUME TypePart, GatePart, GateAbort
    PROVE  GatePart'
<1> USE GateFacts
<1>0. /\ GateInv /\ status \in [Callers -> Statuses] /\ queue \in Seq(Callers)
      /\ aborted \in SUBSET Callers
  BY DEF GatePart, TypePart, PTypeOK, TypeOK
<1>1. UNCHANGED <<conn, pc>>
  BY DEF GateAbort, pathVars
<1>2. PICK i \in DOMAIN queue : NativeAbortBegins(i) \/ NativeAbortDelivered(i)
  BY DEF GateAbort
<1>3. queue[i] \in Callers /\ status[queue[i]] = "waiting"
  BY <1>0
<1>4. CASE NativeAbortBegins(i)
  <2>1. aborted' = aborted \cup {queue[i]} /\ UNCHANGED <<status, activeCount, closed, queue>>
    BY <1>4 DEF NativeAbortBegins
  <2>2. GateInv'
    BY <1>0, <1>3, <2>1 DEF GateInv, TypeOK, SlotAccounting, Held, QueueHoldsWaiters, WorkConserving,
                      ClosedDrains
  <2>3. \A d : Queued(d)' = Queued(d)
    BY <2>1 DEF Queued
  <2> QED
    BY <1>1, <2>1, <2>2, <2>3 DEF GatePart
<1>5. CASE NativeAbortDelivered(i)
  <2>1. OnAbort(i)
    BY <1>5 DEF NativeAbortDelivered
  <2>2. GateInv'
    BY <1>0, <2>1, OnAbortStep
  <2>3. /\ status' = [status EXCEPT ![queue[i]] = "aborted"]
        /\ aborted' = aborted \ {queue[i]}
        /\ queue' = WithoutIndex(queue, i)
        /\ UNCHANGED closed
    BY <2>1 DEF OnAbort
  <2>4. /\ queue' \in Seq(Callers) /\ Len(queue') = Len(queue) - 1
        /\ \A j \in 1..(Len(queue) - 1) : queue'[j] = queue[IF j < i THEN j ELSE j + 1]
    BY <1>0, <2>3, WithoutIndexProperties
  <2>5. DOMAIN queue' = 1..(Len(queue) - 1)
    BY <2>4, LenProperties
  <2>6. ASSUME NEW d, Queued(d), d # queue[i] PROVE Queued(d)'
    <3>1. PICK j \in DOMAIN queue : queue[j] = d
      BY <2>6 DEF Queued
    <3>2. CASE j < i
      <4>1. j \in DOMAIN queue' /\ queue'[j] = d
        BY <1>0, <2>4, <2>5, <3>1, <3>2
      <4> QED
        BY <4>1 DEF Queued
    <3>3. CASE j > i
      <4>1. j - 1 \in DOMAIN queue' /\ ~(j - 1 < i) /\ (j - 1) + 1 = j
        BY <1>0, <2>5, <3>1, <3>3
      <4>2. queue'[j - 1] = d
        BY <2>4, <2>5, <3>1, <4>1
      <4> QED
        BY <4>1, <4>2 DEF Queued
    <3> QED
      BY <1>0, <2>6, <3>1, <3>2, <3>3
  <2>7. ASSUME NEW d \in Callers
        PROVE  /\ status'[d] = "held" => pc'[d] \in UnderWay
               /\ status'[d] = "waiting" => pc'[d] = "gate" /\ (d \in aborted' \/ Queued(d)')
    BY <1>0, <1>1, <1>3, <2>3, <2>6, <2>7 DEF GatePart
  <2> QED
    BY <1>1, <2>2, <2>3, <2>7 DEF GatePart
<1> QED
  BY <1>2, <1>4, <1>5

\* Every step keeps the gate and the calls that are in it together.
LEMMA GateStep ==
    ASSUME TypePart, GatePart, PNext
    PROVE  GatePart'
<1>0. \A c \in Callers :
         /\ status[c] = "held" => pc[c] \in {"gate", "chain", "reply", "rejected"}
         /\ status[c] = "waiting" => pc[c] = "gate"
  BY DEF GatePart, UnderWay
<1>1. ASSUME NEW c \in Callers, NEW k \in Classes(c), MakeCall(c, k) PROVE GatePart'
  <2>1. pc[c] = "idle" /\ UNCHANGED <<vars, conn>>
    BY <1>1 DEF MakeCall, HandleCall, ClientCall, RestoreCall
  <2>2. PICK x : pc' = [pc EXCEPT ![c] = x]
    BY <1>1 DEF MakeCall, HandleCall, ClientCall, RestoreCall, WaitForReady
  <2> QED
    BY <1>0, <2>1, <2>2, MoveKeepsGatePart
<1>2. ASSUME NEW c \in Callers, Retry(c) \/ BackoffAborted(c) PROVE GatePart'
  <2>1. pc[c] = "backoff" /\ UNCHANGED <<vars, conn>>
    BY <1>2 DEF Retry, BackoffAborted
  <2>2. PICK x : pc' = [pc EXCEPT ![c] = x]
    BY <1>2 DEF Retry, BackoffAborted, WaitForReady
  <2> QED
    BY <1>0, <2>1, <2>2, MoveKeepsGatePart
<1>3. ASSUME NEW c \in Callers, NEW e, ReadyGivesUp(c, e) PROVE GatePart'
  <2>1. pc[c] = "ready" /\ UNCHANGED <<vars, conn>> /\ pc' = [pc EXCEPT ![c] = "rejected"]
    BY <1>3 DEF ReadyGivesUp
  <2> QED
    BY <1>0, <2>1, MoveKeepsGatePart
<1>4. ASSUME NEW c \in Callers, Woken(c) PROVE GatePart'
  <2>1. pc[c] = "woken" /\ UNCHANGED conn
    BY <1>4 DEF Woken
  <2>2. CASE AttemptFails(c, "connection") /\ UNCHANGED vars
    <3>1. PICK x \in {"backoff", "done"} : pc' = [pc EXCEPT ![c] = x]
      BY <2>2, AttemptFailsMoves
    <3> QED
      BY <1>0, <2>1, <2>2, <3>1, MoveKeepsGatePart
  <2>3. CASE (AcquireGranted(c) \/ AcquireQueued(c)) /\ pc' = [pc EXCEPT ![c] = "gate"]
    BY <2>1, <2>3, AcquireKeepsGatePart
  <2> QED
    BY <1>4, <2>2, <2>3 DEF Woken
<1>5. ASSUME NEW c \in Callers, GateRejects(c) PROVE GatePart'
  <2>1. /\ status[c] \in Outcomes /\ status' = [status EXCEPT ![c] = "idle"]
        /\ UNCHANGED <<activeCount, closed, queue, aborted, conn>>
    BY <1>5 DEF GateRejects, Outcomes
  <2>2. PICK x \in {"backoff", "done"} : pc' = [pc EXCEPT ![c] = x]
    BY <1>5, AttemptFailsMoves DEF GateRejects
  <2>3. GateInv'
    BY <2>1, RejectionHandledEffect DEF GatePart
  <2>4. \A d : Queued(d)' = Queued(d)
    BY <2>1 DEF Queued
  <2>5. \A d \in Callers :
           /\ status'[d] = "held" => pc'[d] \in UnderWay
           /\ status'[d] = "waiting" => pc'[d] = "gate" /\ (d \in aborted' \/ Queued(d)')
    BY <2>1, <2>2, <2>4 DEF GatePart, TypePart, PTypeOK, TypeOK
  <2> QED
    BY <2>1, <2>3, <2>5 DEF GatePart
<1>6. ASSUME NEW c \in Callers, Issue(c) PROVE GatePart'
  <2>1. pc[c] = "gate" /\ status[c] = "held" /\ UNCHANGED conn
    BY <1>6 DEF Issue
  <2>2. CASE pc' = [pc EXCEPT ![c] = "chain"] /\ UNCHANGED vars
    BY <2>1, <2>2, MoveKeepsGatePart DEF UnderWay
  <2>3. ASSUME NEW e, AttemptFails(c, e), ReleaseSlot(c) PROVE GatePart'
    <3>1. PICK x \in {"backoff", "done"} : pc' = [pc EXCEPT ![c] = x]
      BY <2>3, AttemptFailsMoves
    <3> QED
      BY <2>1, <2>3, <3>1, EndKeepsGatePart
  <2> QED
    BY <1>6, <2>2, <2>3 DEF Issue
<1>7. ASSUME NEW c \in Callers, Rejected(c) \/ Reply(c) \/ \E e \in {"timeout", "abort"} : GiveUp(c, e)
      PROVE  GatePart'
  <2>1. pc[c] \in {"chain", "reply", "rejected"} /\ UNCHANGED conn /\ ReleaseSlot(c)
    BY <1>7 DEF Rejected, Reply, GiveUp, Registered
  <2>2. \E x : pc' = [pc EXCEPT ![c] = x]
    BY <1>7, AttemptFailsMoves DEF Rejected, Reply, GiveUp, CallSucceeds
  <2> QED
    BY <1>0, <2>1, <2>2, EndKeepsGatePart
<1>8. ASSUME NEW v, WriteSucceeds(v) PROVE GatePart'
  <2> DEFINE f == Head(chain)
             c == f.caller
  <2>1. c \in Callers
    BY <1>8, ChainRest DEF WriteSucceeds, TypePart
  <2>2. CASE ~Pending(f)
    <3>1. UNCHANGED <<vars, pc, conn>>
      BY <1>8, <2>2 DEF WriteSucceeds
    <3>2. GateInv' /\ \A d : Queued(d)' = Queued(d)
      BY <3>1, GateUntouched DEF GatePart
    <3> QED
      BY <3>1, <3>2 DEF GatePart, vars
  <2>3. CASE Pending(f) /\ class[c] = "send"
    <3>1. CallSucceeds(c) /\ ReleaseSlot(c) /\ UNCHANGED conn /\ pc[c] = "chain"
      BY <1>8, <2>3 DEF WriteSucceeds, Pending
    <3> QED
      BY <1>0, <2>1, <3>1, EndKeepsGatePart DEF CallSucceeds
  <2>4. CASE Pending(f) /\ class[c] # "send"
    <3>1. pc' = [pc EXCEPT ![c] = "reply"] /\ UNCHANGED <<vars, conn>> /\ pc[c] = "chain"
      BY <1>8, <2>4 DEF WriteSucceeds, Pending
    <3> QED
      BY <1>0, <2>1, <3>1, MoveKeepsGatePart DEF UnderWay
  <2> QED
    BY <2>2, <2>3, <2>4
<1>9. ASSUME NEW v, NEW e, WriteFails(v, e) PROVE GatePart'
  <2> DEFINE f == Head(chain)
             c == f.caller
  <2>1. c \in Callers
    BY <1>9, ChainRest DEF WriteFails, TypePart
  <2>2. CASE ~Pending(f)
    <3>1. UNCHANGED <<vars, pc, conn>>
      BY <1>9, <2>2 DEF WriteFails
    <3>2. GateInv' /\ \A d : Queued(d)' = Queued(d)
      BY <3>1, GateUntouched DEF GatePart
    <3> QED
      BY <3>1, <3>2 DEF GatePart, vars
  <2>3. CASE Pending(f) /\ (e = "timeout" \/ ~IsLoss(f))
    <3>1. AttemptFails(c, e) /\ ReleaseSlot(c) /\ UNCHANGED conn /\ pc[c] = "chain"
      BY <1>9, <2>3 DEF WriteFails, Pending
    <3>2. PICK x \in {"backoff", "done"} : pc' = [pc EXCEPT ![c] = x]
      BY <2>1, <3>1, AttemptFailsMoves
    <3> QED
      BY <1>0, <2>1, <3>1, <3>2, EndKeepsGatePart
  <2>4. CASE Pending(f) /\ ~(e = "timeout" \/ ~IsLoss(f))
    <3>1. SessionEnds({c}, "down") /\ pc[c] = "chain"
      BY <1>9, <2>4 DEF WriteFails, Pending
    <3>2. \A d \in Callers \ {c} : pc'[d] = IF d \in Registered \ {c} THEN "rejected" ELSE pc[d]
      BY <1>9, <2>4 DEF WriteFails
    <3>3. \A d \in Callers \ {c} : pc'[d] = pc[d] \/ (pc'[d] = "rejected" /\ pc[d] # "gate")
      BY <3>2, RegisteredPastGate
    <3>4. status[c] # "waiting"
      BY <1>0, <2>1, <3>1
    <3> QED
      BY <2>1, <3>1, <3>3, <3>4, LossKeepsGatePart
  <2> QED
    BY <2>2, <2>3, <2>4
<1>10. CASE Lose \/ CloseConnection
  <2>1. PICK n \in {"down", "closed"} : SessionEnds({}, n)
    BY <1>10 DEF Lose, CloseConnection
  <2>2. \A d \in Callers : pc'[d] = pc[d] \/ (pc'[d] = "rejected" /\ pc[d] # "gate")
    BY <1>10, RegisteredPastGate DEF Lose, CloseConnection
  <2> QED
    BY <2>1, <2>2, LossKeepsGatePart
<1>11. CASE NewSession
  <2>1. NewGate /\ conn = "down" /\ conn' = "restoring" /\ UNCHANGED pc
    BY <1>11 DEF NewSession
  <2>2. GateInv /\ closed /\ \A d \in Callers : status[d] = "waiting" => d \in aborted \/ Queued(d)
    BY <2>1 DEF GatePart
  <2>3. /\ GateInv' /\ closed' = FALSE
        /\ \A d \in Callers :
             /\ status'[d] # "held"
             /\ status'[d] = "waiting" => status[d] = "waiting" /\ d \in aborted'
    BY <2>1, <2>2, NewGateEffect
  <2> QED
    BY <2>1, <2>3 DEF GatePart
<1>12. CASE Restored
  <2>1. /\ UNCHANGED vars /\ conn = "restoring" /\ conn' = "up"
        /\ \A c \in Callers : pc'[c] = pc[c] \/ pc[c] = "ready"
    BY <1>12 DEF Restored
  <2>2. GateInv' /\ \A d : Queued(d)' = Queued(d)
    BY <2>1, GateUntouched DEF GatePart
  <2>3. \A d \in Callers :
           /\ status'[d] = "held" => pc'[d] \in UnderWay
           /\ status'[d] = "waiting" => pc'[d] = "gate" /\ (d \in aborted' \/ Queued(d)')
    BY <1>0, <2>1, <2>2 DEF GatePart, UnderWay, vars
  <2> QED
    BY <2>1, <2>2, <2>3 DEF GatePart, vars
<1>13. CASE GateAbort
  BY <1>13, AbortKeepsGatePart
<1>14. CASE HandleMade
  <2>1. UNCHANGED <<vars, pc, conn>>
    BY <1>14, HandleMadeEffect
  <2>2. GateInv' /\ \A d : Queued(d)' = Queued(d)
    BY <2>1, GateUntouched DEF GatePart
  <2> QED
    BY <2>1, <2>2 DEF GatePart, vars
<1> QED
  BY <1>1, <1>2, <1>3, <1>4, <1>5, <1>6, <1>7, <1>8, <1>9, <1>10, <1>11, <1>12, <1>13, <1>14
     DEF PNext, WriteEnds, Progress, HandleMade

--------------------------------------------------------------------------------
(* Types *)

\* The variables that a step of a call may change besides the gate's.
CallTypes ==
    /\ pc \in [Callers -> {"idle", "ready", "woken", "gate", "chain", "reply",
                           "rejected", "backoff", "done"}]
    /\ class \in [Callers -> AllClasses \cup {"none"}]
    /\ attempt \in [Callers -> 0..MaxAttempts]
    /\ err \in [Callers -> {"none", "connection", "transport", "timeout", "full",
                            "negative", "abort"}]
    /\ waitSlots \subseteq Callers
    /\ answer \in [Callers -> {"none", "lost", "ok", "negative"}]
    /\ \A c \in Callers : pc[c] = "backoff" => attempt[c] < MaxAttempts

\* The variables of the connection, the handle and the wire.
SessionTypes ==
    /\ conn \in {"up", "down", "restoring", "closed"} /\ sess \in 1..MaxSessions
    /\ kind \in {"none", "kv", "stream", "item"} /\ open \in BOOLEAN /\ begun \in 0..MaxSessions
    /\ granted \in {"none", "kv", "stream", "item"} /\ untold \in BOOLEAN
    /\ past \subseteq Callers /\ wire \subseteq Callers
    /\ chain \in Seq(Frames)
    /\ effects \in [Callers -> Nat]

\* The types, by who changes them.
LEMMA TypePartSplit == TypePart <=> TypeOK /\ CallTypes /\ SessionTypes
BY DEF TypePart, PTypeOK, CallTypes, SessionTypes

\* A call at the await of readiness.
LEMMA WaitForReadyTypes ==
    ASSUME CallTypes, NEW c \in Callers, WaitForReady(c), UNCHANGED <<class, answer>>,
           attempt' \in [Callers -> 0..MaxAttempts],
           \A d \in Callers \ {c} : attempt'[d] = attempt[d]
    PROVE  CallTypes'
BY DEF CallTypes, WaitForReady

\* The end of an attempt in executeWithRetry().
LEMMA AttemptFailsTypes ==
    ASSUME CallTypes, NEW c \in Callers, NEW e, AttemptFails(c, e), UNCHANGED <<class, attempt>>
    PROVE  CallTypes'
<1>1. /\ pc' = [pc EXCEPT ![c] =
            IF ShouldRetryOperation(class[c], e) /\ attempt[c] < MaxAttempts
            THEN "backoff" ELSE "done"]
      /\ err' = [err EXCEPT ![c] = "none"]
      /\ answer' = [answer EXCEPT ![c] = "none"]
      /\ waitSlots' = waitSlots \ {c}
  BY DEF AttemptFails
<1> QED
  BY <1>1 DEF CallTypes

\* The steps of calls keep the types of what they change.
LEMMA CallTypeStep ==
    ASSUME TypePart, PNext
    PROVE  CallTypes'
<1>0. CallTypes /\ SessionTypes
  BY TypePartSplit
<1>1. ASSUME NEW c \in Callers, NEW k \in Classes(c), MakeCall(c, k) PROVE CallTypes'
  <2>1. /\ class' = [class EXCEPT ![c] = k] /\ attempt' = [attempt EXCEPT ![c] = 1]
        /\ UNCHANGED answer
    BY <1>1 DEF MakeCall, HandleCall, ClientCall, RestoreCall
  <2>2. k \in AllClasses
    BY PathAssumption
  <2>3. /\ class' \in [Callers -> AllClasses \cup {"none"}]
        /\ attempt' \in [Callers -> 0..MaxAttempts]
        /\ \A d \in Callers : d # c => attempt'[d] = attempt[d]
    BY <1>0, <2>1, <2>2, PathAssumption DEF CallTypes
  <2>4. CASE WaitForReady(c)
    BY <1>0, <2>1, <2>3, <2>4 DEF CallTypes, WaitForReady
  <2>5. CASE pc' = [pc EXCEPT ![c] = "woken"] /\ UNCHANGED <<err, waitSlots>>
    BY <1>0, <2>1, <2>3, <2>5 DEF CallTypes
  <2> QED
    BY <1>1, <2>4, <2>5 DEF MakeCall, HandleCall, ClientCall, RestoreCall
<1>2. ASSUME NEW c \in Callers, Retry(c) PROVE CallTypes'
  <2>1. /\ pc[c] = "backoff" /\ WaitForReady(c) /\ UNCHANGED <<class, answer>>
        /\ attempt' = [attempt EXCEPT ![c] = @ + 1]
    BY <1>2 DEF Retry
  <2>2. attempt' \in [Callers -> 0..MaxAttempts]
    BY <1>0, <2>1, PathAssumption DEF CallTypes
  <2>3. \A d \in Callers \ {c} : attempt'[d] = attempt[d]
    BY <1>0, <2>1 DEF CallTypes
  <2> QED
    BY <1>0, <2>1, <2>2, <2>3, WaitForReadyTypes
<1>3. ASSUME NEW c \in Callers, NEW e, ReadyGivesUp(c, e) \/ BackoffAborted(c) PROVE CallTypes'
  BY <1>0, <1>3 DEF CallTypes, ReadyGivesUp, BackoffAborted
<1>4. ASSUME NEW c \in Callers, NEW e, AttemptFails(c, e), UNCHANGED <<class, attempt>>
      PROVE  CallTypes'
  BY <1>0, <1>4, AttemptFailsTypes
<1>5. ASSUME NEW c \in Callers, CallSucceeds(c), UNCHANGED <<class, attempt>> PROVE CallTypes'
  BY <1>0, <1>5 DEF CallTypes, CallSucceeds
<1>6. ASSUME NEW c \in Callers, Woken(c) PROVE CallTypes'
  <2>1. CASE /\ pc' = [pc EXCEPT ![c] = "gate"] /\ waitSlots' = waitSlots \ {c}
             /\ UNCHANGED <<err, answer, class, attempt>>
    BY <1>0, <2>1 DEF CallTypes
  <2> QED
    BY <1>4, <1>6, <2>1 DEF Woken
<1>7. ASSUME NEW c \in Callers, Issue(c) PROVE CallTypes'
  <2>1. CASE pc' = [pc EXCEPT ![c] = "chain"] /\ UNCHANGED <<err, waitSlots, answer, class, attempt>>
    BY <1>0, <2>1 DEF CallTypes
  <2> QED
    BY <1>4, <1>7, <2>1 DEF Issue
<1>8. ASSUME NEW c \in Callers,
             GateRejects(c) \/ Rejected(c) \/ Reply(c) \/ \E e \in {"timeout", "abort"} : GiveUp(c, e)
      PROVE  CallTypes'
  BY <1>4, <1>5, <1>8 DEF GateRejects, Rejected, Reply, GiveUp
<1>9. ASSUME UNCHANGED <<pc, class, attempt, err, waitSlots, answer>> PROVE CallTypes'
  BY <1>0, <1>9 DEF CallTypes
<1>10. ASSUME NEW v \in {"lost", "ok", "negative"}, WriteSucceeds(v) PROVE CallTypes'
  <2> DEFINE c == Head(chain).caller
  <2>1. c \in Callers /\ UNCHANGED <<class, attempt>>
    BY <1>0, <1>10, ChainRest DEF WriteSucceeds, SessionTypes
  <2>2. CASE CallSucceeds(c)
    BY <1>5, <2>1, <2>2
  <2>3. CASE /\ pc' = [pc EXCEPT ![c] = "reply"] /\ answer' = [answer EXCEPT ![c] = v]
             /\ UNCHANGED <<err, waitSlots>>
    BY <1>0, <2>1, <2>3 DEF CallTypes
  <2> QED
    BY <1>9, <1>10, <2>1, <2>2, <2>3 DEF WriteSucceeds
<1>11. ASSUME NEW v, NEW e, WriteFails(v, e) PROVE CallTypes'
  <2> DEFINE f == Head(chain)
             c == f.caller
  <2>1. c \in Callers /\ UNCHANGED <<class, attempt>>
    BY <1>0, <1>11, ChainRest DEF WriteFails, SessionTypes
  <2>2. CASE ~Pending(f)
    BY <1>9, <1>11, <2>1, <2>2 DEF WriteFails
  <2>3. CASE Pending(f) /\ (e = "timeout" \/ ~IsLoss(f))
    BY <1>4, <1>11, <2>1, <2>3 DEF WriteFails
  <2>4. CASE Pending(f) /\ ~(e = "timeout" \/ ~IsLoss(f))
    <3> DEFINE others == Registered \ {c}
    <3>1. /\ pc' = [d \in Callers |->
                IF d \in others THEN "rejected"
                ELSE IF d # c THEN pc[d]
                ELSE IF ShouldRetryOperation(class[c], e) /\ attempt[c] < MaxAttempts
                     THEN "backoff" ELSE "done"]
          /\ err' = [d \in Callers |-> IF d \in others THEN "connection" ELSE err[d]]
          /\ answer' = [d \in Callers |-> IF d \in others THEN "none" ELSE answer[d]]
          /\ UNCHANGED waitSlots
      BY <1>11, <2>4 DEF WriteFails
    <3> HIDE DEF others
    <3> QED
      BY <1>0, <2>1, <3>1 DEF CallTypes
  <2> QED
    BY <2>2, <2>3, <2>4
<1>12. CASE Lose \/ CloseConnection
  BY <1>0, <1>12 DEF CallTypes, Lose, CloseConnection
<1>13. CASE Restored
  BY <1>0, <1>13 DEF CallTypes, Restored
<1>14. CASE GateAbort \/ HandleMade
  BY <1>9, <1>14, HandleMadeEffect DEF GateAbort, pathVars
<1>15. CASE NewSession
  BY <1>0, <1>15 DEF CallTypes, NewSession
<1> QED
  BY <1>1, <1>2, <1>3, <1>6, <1>7, <1>8, <1>10, <1>11, <1>12, <1>13, <1>14, <1>15
     DEF PNext, WriteEnds, Progress, HandleMade

\* The broker's side of a write.
LEMMA DeliverTypes ==
    ASSUME SessionTypes, NEW f \in Frames, NEW v, Deliver(f, v)
    PROVE  wire' \subseteq Callers /\ effects' \in [Callers -> Nat]
BY DEF SessionTypes, Frames, Deliver

\* The steps keep the types of the connection, the handle and what is written.
LEMMA SessionTypeStep ==
    ASSUME TypePart, PNext
    PROVE  SessionTypes'
<1>0. CallTypes /\ SessionTypes
  BY TypePartSplit
<1>1. ASSUME UNCHANGED <<conn, session, kind, begun, grant, chain, wire, effects>>, open' \in BOOLEAN
      PROVE  SessionTypes'
  BY <1>0, <1>1 DEF SessionTypes, session, grant
<1>2. ASSUME NEW c \in Callers, NEW k \in Classes(c), MakeCall(c, k) PROVE SessionTypes'
  <2>1. UNCHANGED <<conn, session, kind, begun, grant, chain, wire, effects>>
    BY <1>2 DEF MakeCall, HandleCall, ClientCall, RestoreCall, EnsureOpen, handle
  <2>2. open' \in BOOLEAN
    BY <1>0, <1>2 DEF MakeCall, HandleCall, ClientCall, RestoreCall, EnsureOpen, handle, SessionTypes
  <2> QED
    BY <1>1, <2>1, <2>2
<1>3. ASSUME NEW c \in Callers,
             \/ Retry(c) \/ BackoffAborted(c) \/ Woken(c) \/ GateRejects(c) \/ Rejected(c)
             \/ \E e \in {"timeout", "abort"} : GiveUp(c, e)
             \/ \E e \in {"connection", "abort"} : ReadyGivesUp(c, e)
      PROVE  SessionTypes'
  <2>1. UNCHANGED <<conn, session, kind, open, begun, grant, chain, wire, effects>>
    BY <1>3 DEF Retry, BackoffAborted, Woken, GateRejects, Rejected, GiveUp, ReadyGivesUp, handle
  <2> QED
    BY <1>0, <2>1 DEF SessionTypes, session, grant
<1>4. ASSUME NEW c \in Callers, Reply(c) PROVE SessionTypes'
  <2>1. UNCHANGED <<conn, session, kind, begun, grant, chain, wire, effects>>
    BY <1>4 DEF Reply, CallSucceeds, handle
  <2>2. open' \in BOOLEAN
    BY <1>0, <1>4 DEF Reply, CallSucceeds, handle, SessionTypes
  <2> QED
    BY <1>1, <2>1, <2>2
<1>5. ASSUME NEW c \in Callers, Issue(c) PROVE SessionTypes'
  <2>1. UNCHANGED <<conn, session, kind, open, begun, grant, wire, effects>>
    BY <1>5 DEF Issue, handle
  <2>2. CASE UNCHANGED chain
    BY <1>0, <2>1, <2>2 DEF SessionTypes, session, grant
  <2>3. CASE chain' = Append(chain, Frame(c))
    <3>1. Frame(c) \in Frames
      BY <1>0, PathAssumption DEF Frame, Frames, CallTypes, SessionTypes
    <3>2. chain' \in Seq(Frames)
      BY <1>0, <2>3, <3>1, AppendProperties DEF SessionTypes
    <3> QED
      BY <1>0, <2>1, <3>2 DEF SessionTypes, session, grant
  <2> QED
    BY <1>5, <2>2, <2>3 DEF Issue
<1>6. ASSUME NEW v, WriteSucceeds(v) \/ \E e \in {"transport", "timeout"} : WriteFails(v, e)
      PROVE  SessionTypes'
  <2>1. chain # <<>> /\ Deliver(Head(chain), v) /\ chain' = Tail(chain) /\ UNCHANGED session
    BY <1>6 DEF WriteSucceeds, WriteFails
  <2>2. chain \in Seq(Frames)
    BY <1>0 DEF SessionTypes
  <2>3. Head(chain) \in Frames /\ chain' \in Seq(Frames)
    BY <2>1, <2>2, ChainRest
  <2>4. wire' \subseteq Callers /\ effects' \in [Callers -> Nat]
    BY <1>0, <2>1, <2>3, DeliverTypes
  <2>5. UNCHANGED <<kind, begun, grant>> /\ open' \in BOOLEAN
    BY <1>0, <1>6 DEF WriteSucceeds, WriteFails, CallSucceeds, SessionEnds, HandleDisconnected,
                      handle, SessionTypes
  <2>6. conn' \in {"up", "down", "restoring", "closed"}
    BY <1>0, <1>6 DEF WriteSucceeds, WriteFails, SessionEnds, SessionTypes
  <2> QED
    BY <1>0, <2>1, <2>3, <2>4, <2>5, <2>6 DEF SessionTypes, session, grant
<1>7. CASE Lose \/ CloseConnection
  <2>1. /\ conn' \in {"down", "closed"} /\ open' = FALSE
        /\ UNCHANGED <<session, kind, begun, grant, chain, wire, effects>>
    BY <1>7 DEF Lose, CloseConnection, SessionEnds, HandleDisconnected
  <2> QED
    BY <1>0, <2>1 DEF SessionTypes, session, grant
<1>8. CASE NewSession
  <2>1. /\ conn' = "restoring" /\ sess' = sess + 1 /\ sess < MaxSessions /\ wire' = {}
        /\ past' \subseteq Callers /\ UNCHANGED <<kind, open, begun, grant, chain, effects>>
    BY <1>8 DEF NewSession, handle
  <2> QED
    BY <1>0, <2>1, PathAssumption DEF SessionTypes, grant
<1>9. CASE Restored \/ GateAbort
  <2>1. conn' \in {"up", conn} /\ UNCHANGED <<session, kind, open, begun, grant, chain, wire, effects>>
    BY <1>9 DEF Restored, GateAbort, pathVars, handle
  <2> QED
    BY <1>0, <2>1 DEF SessionTypes, session, grant
<1>10. CASE HandleMade
  <2>1. UNCHANGED <<conn, sess, past, chain, wire, effects>>
    BY <1>10, HandleMadeEffect
  <2>2. /\ kind' \in {"none", "kv", "stream", "item"} /\ open' \in BOOLEAN
        /\ begun' \in {begun, sess}
        /\ granted' \in {"none", "kv", "stream", "item"} /\ untold' \in BOOLEAN
    BY <1>0, <1>10 DEF HandleMade, KvBegin, StreamBegin, ReserveItem, MakeHandle, Granted, SessionTypes
  <2> QED
    BY <1>0, <2>1, <2>2, PathAssumption DEF SessionTypes
<1> QED
  BY <1>2, <1>3, <1>4, <1>5, <1>6, <1>7, <1>8, <1>9, <1>10 DEF PNext, WriteEnds, Progress, HandleMade

\* Every step keeps the types.
LEMMA TypeStep ==
    ASSUME TypePart, GatePart, PNext
    PROVE  TypePart'
<1>1. TypeOK'
  BY GateStep DEF GatePart, GateInv
<1>2. (TypeOK /\ CallTypes /\ SessionTypes)' => TypePart'
  BY DEF TypePart, PTypeOK, TypeOK, CallTypes, SessionTypes
<1> QED
  BY <1>1, <1>2, CallTypeStep, SessionTypeStep

--------------------------------------------------------------------------------
(* The readiness counter *)

\* A call that begins to wait takes one slot of the counter, within its limit.
LEMMA WaitForReadyKeepsReadyPart ==
    ASSUME TypePart, ReadyPart, NEW c \in Callers, WaitForReady(c),
           pc[c] \in {"idle", "backoff"}, UNCHANGED conn
    PROVE  ReadyPart'
<1>0. CallTypes /\ waitSlots \in SUBSET Callers /\ c \notin waitSlots
  BY TypePartSplit DEF CallTypes, ReadyPart
<1>1. CASE \E x \in {"woken", "rejected"} : pc' = [pc EXCEPT ![c] = x] /\ UNCHANGED waitSlots
  BY <1>0, <1>1 DEF ReadyPart, CallTypes
<1>2. CASE /\ conn \in {"down", "restoring"} /\ Cardinality(waitSlots) < MaxQueueSize
           /\ pc' = [pc EXCEPT ![c] = "ready"] /\ waitSlots' = waitSlots \cup {c}
  <2>1. Cardinality(waitSlots') = Cardinality(waitSlots) + 1 /\ Cardinality(waitSlots) \in Nat
    BY <1>0, <1>2, CallersSubset, FS_AddElement
  <2>2. Cardinality(waitSlots') <= MaxQueueSize
    BY <1>2, <2>1, BoundsAssumption
  <2>3. \A d \in waitSlots' : pc'[d] \in {"ready", "woken", "rejected"}
    BY <1>0, <1>2 DEF ReadyPart, CallTypes
  <2>4. \A d \in Callers : pc'[d] = "ready" => d \in waitSlots' /\ conn' \in {"down", "restoring"}
    BY <1>0, <1>2 DEF ReadyPart, CallTypes
  <2> QED
    BY <2>2, <2>3, <2>4 DEF ReadyPart
<1> QED
  BY <1>1, <1>2 DEF WaitForReady

\* A call that stops waiting leaves the counter, or was never counted.
LEMMA LeaveKeepsReadyPart ==
    ASSUME TypePart, ReadyPart, NEW c \in Callers, NEW x, x # "ready", UNCHANGED conn,
           pc' = [pc EXCEPT ![c] = x],
           \/ waitSlots' = waitSlots \ {c}
           \/ UNCHANGED waitSlots /\ (c \in waitSlots => x = "rejected")
    PROVE  ReadyPart'
<1>0. CallTypes /\ waitSlots \in SUBSET Callers
  BY TypePartSplit DEF CallTypes
<1>1. Cardinality(waitSlots') <= Cardinality(waitSlots)
  BY <1>0, CallersSubset, FS_Subset, FS_CardinalityType
<1>2. Cardinality(waitSlots') <= MaxQueueSize
  BY <1>0, <1>1, CallersSubset, BoundsAssumption DEF ReadyPart
<1>3. \A d \in waitSlots' : pc'[d] \in {"ready", "woken", "rejected"}
  BY <1>0 DEF ReadyPart, CallTypes
<1>4. \A d \in Callers : pc'[d] = "ready" => d \in waitSlots' /\ conn' \in {"down", "restoring"}
  BY <1>0 DEF ReadyPart, CallTypes
<1> QED
  BY <1>2, <1>3, <1>4 DEF ReadyPart

\* Every step keeps the readiness counter in agreement with those who wait.
LEMMA ReadyStep ==
    ASSUME TypePart, ReadyPart, PNext
    PROVE  ReadyPart'
<1>0. /\ CallTypes /\ SessionTypes
      /\ \A c \in waitSlots : pc[c] \in {"ready", "woken", "rejected"}
  BY TypePartSplit DEF ReadyPart
<1>1. ASSUME NEW c \in Callers, NEW k \in Classes(c), MakeCall(c, k) PROVE ReadyPart'
  <2>1. pc[c] = "idle" /\ UNCHANGED conn
    BY <1>1 DEF MakeCall, HandleCall, ClientCall, RestoreCall
  <2>2. CASE WaitForReady(c)
    BY <2>1, <2>2, WaitForReadyKeepsReadyPart
  <2>3. CASE pc' = [pc EXCEPT ![c] = "woken"] /\ UNCHANGED waitSlots
    BY <1>0, <2>1, <2>3, LeaveKeepsReadyPart
  <2> QED
    BY <1>1, <2>2, <2>3 DEF MakeCall, HandleCall, ClientCall, RestoreCall
<1>2. ASSUME NEW c \in Callers, Retry(c) PROVE ReadyPart'
  BY <1>2, WaitForReadyKeepsReadyPart DEF Retry
<1>3. ASSUME NEW c \in Callers, NEW e, AttemptFails(c, e), UNCHANGED conn PROVE ReadyPart'
  <2>1. PICK x \in {"backoff", "done"} : pc' = [pc EXCEPT ![c] = x]
    BY <1>3, AttemptFailsMoves
  <2>2. x # "ready" /\ waitSlots' = waitSlots \ {c}
    BY <1>3 DEF AttemptFails
  <2> QED
    BY <1>3, <2>1, <2>2, LeaveKeepsReadyPart
<1>4. ASSUME NEW c \in Callers, NEW x, x # "ready", pc[c] \notin {"ready", "woken", "rejected"},
             pc' = [pc EXCEPT ![c] = x], UNCHANGED <<conn, waitSlots>>
      PROVE  ReadyPart'
  BY <1>0, <1>4, LeaveKeepsReadyPart
<1>5. ASSUME NEW c \in Callers, BackoffAborted(c) PROVE ReadyPart'
  BY <1>4, <1>5 DEF BackoffAborted
<1>6. ASSUME NEW c \in Callers, NEW e, ReadyGivesUp(c, e) PROVE ReadyPart'
  BY <1>6, LeaveKeepsReadyPart DEF ReadyGivesUp
<1>7. ASSUME NEW c \in Callers, Woken(c) PROVE ReadyPart'
  <2>1. CASE pc' = [pc EXCEPT ![c] = "gate"] /\ waitSlots' = waitSlots \ {c} /\ UNCHANGED conn
    BY <2>1, LeaveKeepsReadyPart
  <2> QED
    BY <1>3, <1>7, <2>1 DEF Woken
<1>8. ASSUME NEW c \in Callers, Issue(c) PROVE ReadyPart'
  <2>1. CASE pc[c] = "gate" /\ pc' = [pc EXCEPT ![c] = "chain"] /\ UNCHANGED <<waitSlots, conn>>
    BY <1>4, <2>1
  <2> QED
    BY <1>3, <1>8, <2>1 DEF Issue
<1>9. ASSUME NEW c \in Callers, pc[c] \in {"chain", "reply"}, CallSucceeds(c), UNCHANGED conn
      PROVE  ReadyPart'
  BY <1>4, <1>9 DEF CallSucceeds
<1>10. ASSUME NEW c \in Callers,
              GateRejects(c) \/ Rejected(c) \/ Reply(c) \/ \E e \in {"timeout", "abort"} : GiveUp(c, e)
       PROVE  ReadyPart'
  BY <1>3, <1>9, <1>10 DEF GateRejects, Rejected, Reply, GiveUp
<1>11. ASSUME UNCHANGED <<pc, waitSlots, conn>> PROVE ReadyPart'
  BY <1>11 DEF ReadyPart
<1>12. ASSUME NEW v, WriteSucceeds(v) PROVE ReadyPart'
  <2> DEFINE c == Head(chain).caller
  <2>1. c \in Callers /\ UNCHANGED conn
    BY <1>0, <1>12, ChainRest DEF WriteSucceeds, SessionTypes
  <2>2. CASE pc[c] = "chain" /\ CallSucceeds(c)
    BY <1>9, <2>1, <2>2
  <2>3. CASE pc[c] = "chain" /\ pc' = [pc EXCEPT ![c] = "reply"] /\ UNCHANGED waitSlots
    BY <1>4, <2>1, <2>3
  <2> QED
    BY <1>11, <1>12, <2>1, <2>2, <2>3 DEF WriteSucceeds, Pending
<1>13. ASSUME NEW v, NEW e, WriteFails(v, e) PROVE ReadyPart'
  <2> DEFINE f == Head(chain)
             c == f.caller
  <2>1. c \in Callers
    BY <1>0, <1>13, ChainRest DEF WriteFails, SessionTypes
  <2>2. CASE ~Pending(f)
    BY <1>11, <1>13, <2>2 DEF WriteFails
  <2>3. CASE Pending(f) /\ (e = "timeout" \/ ~IsLoss(f))
    BY <1>3, <1>13, <2>1, <2>3 DEF WriteFails
  <2>4. CASE Pending(f) /\ ~(e = "timeout" \/ ~IsLoss(f))
    <3>1. \A d \in Callers : pc[d] # "ready"
      BY <2>4 DEF IsLoss, ReadyPart
    <3>2. pc[c] = "chain" /\ UNCHANGED waitSlots
      BY <1>13, <2>4 DEF WriteFails, Pending
    <3>3. \A d \in Callers \ {c} : pc'[d] = IF d \in Registered \ {c} THEN "rejected" ELSE pc[d]
      BY <1>13, <2>4 DEF WriteFails
    <3>4. pc'[c] \in {"backoff", "done"}
      BY <1>13, <2>1, <2>4 DEF WriteFails
    <3>5. c \notin waitSlots /\ waitSlots \subseteq Callers
      BY <1>0, <3>2 DEF CallTypes
    <3> QED
      BY <3>1, <3>2, <3>3, <3>4, <3>5, RegisteredPastGate DEF ReadyPart
  <2> QED
    BY <2>2, <2>3, <2>4
<1>14. CASE Lose
  <2>1. /\ UNCHANGED waitSlots /\ conn' = "down"
        /\ \A c \in Callers : pc'[c] = IF c \in Registered THEN "rejected" ELSE pc[c]
    BY <1>14 DEF Lose, SessionEnds
  <2> QED
    BY <1>0, <2>1, RegisteredPastGate DEF ReadyPart, CallTypes
<1>15. CASE CloseConnection
  <2>1. /\ UNCHANGED waitSlots
        /\ \A c \in Callers :
             pc'[c] = IF c \in Registered \/ pc[c] = "ready" THEN "rejected" ELSE pc[c]
    BY <1>15 DEF CloseConnection
  <2> QED
    BY <1>0, <2>1, RegisteredPastGate DEF ReadyPart, CallTypes
<1>16. CASE NewSession
  <2>1. UNCHANGED <<pc, waitSlots>> /\ conn' = "restoring"
    BY <1>16 DEF NewSession
  <2> QED
    BY <2>1 DEF ReadyPart
<1>17. CASE Restored
  <2>1. /\ UNCHANGED waitSlots
        /\ \A c \in Callers : pc'[c] = IF pc[c] = "ready" THEN "woken" ELSE pc[c]
    BY <1>17 DEF Restored
  <2> QED
    BY <1>0, <2>1 DEF ReadyPart, CallTypes
<1>18. CASE GateAbort \/ HandleMade
  BY <1>11, <1>18, HandleMadeEffect DEF GateAbort, pathVars
<1> QED
  BY <1>1, <1>2, <1>5, <1>6, <1>7, <1>8, <1>10, <1>12, <1>13, <1>14, <1>15, <1>16, <1>17, <1>18
     DEF PNext, WriteEnds, Progress, HandleMade

--------------------------------------------------------------------------------
(* The write chain *)

\* What the continuation of a caller other than its writer changes leaves the chain and
\* the answers of the others alone.
LEMMA MoveKeepsChainPart ==
    ASSUME TypePart, ChainPart, UNCHANGED chain,
           \A d \in Callers :
             \/ pc'[d] = pc[d] /\ attempt'[d] = attempt[d] /\ answer'[d] \in {answer[d], "none"}
             \/ pc'[d] # "chain" /\ answer'[d] = "none"
    PROVE  ChainPart'
<1>1. ASSUME NEW d \in Callers
      PROVE  /\ pc'[d] = "chain" =>
                  \E i \in DOMAIN chain' : chain'[i].caller = d /\ chain'[i].attempt = attempt'[d]
             /\ answer'[d] # "none" => pc'[d] = "reply"
  BY DEF ChainPart
<1> QED
  BY <1>1 DEF ChainPart

\* A write that ends takes the head of the chain with it: its writer waits on the
\* chain no longer, the others keep their frames.
LEMMA WriteKeepsChainPart ==
    ASSUME TypePart, ChainPart, chain # <<>>, chain' = Tail(chain), UNCHANGED attempt,
           Pending(Head(chain)) => pc'[Head(chain).caller] # "chain",
           \A d \in Callers : pc'[d] = "chain" => pc[d] = "chain",
           \A d \in Callers : answer'[d] # "none" => pc'[d] = "reply"
    PROVE  ChainPart'
<1>0. chain \in Seq(Frames)
  BY DEF TypePart
<1>1. /\ Head(chain) = chain[1] /\ Head(chain) \in Frames
      /\ \A i \in DOMAIN chain : i # 1 => i - 1 \in DOMAIN chain' /\ chain'[i - 1] = chain[i]
  BY <1>0, ChainRest
<1>2. ASSUME NEW d \in Callers, pc'[d] = "chain"
      PROVE  \E i \in DOMAIN chain' : chain'[i].caller = d /\ chain'[i].attempt = attempt'[d]
  <2>1. PICK i \in DOMAIN chain : chain[i].caller = d /\ chain[i].attempt = attempt[d]
    BY <1>2 DEF ChainPart
  <2>2. i # 1
    BY <1>1, <1>2, <2>1 DEF Pending
  <2> QED
    BY <1>1, <2>1, <2>2
<1> QED
  BY <1>2 DEF ChainPart

\* Every step keeps a frame on the chain for whoever waits there.
LEMMA ChainStep ==
    ASSUME TypePart, ChainPart, PNext
    PROVE  ChainPart'
<1>0. CallTypes /\ SessionTypes
  BY TypePartSplit
<1>1. ASSUME NEW c \in Callers, NEW x, x # "chain", pc' = [pc EXCEPT ![c] = x],
             UNCHANGED chain,
             \A d \in Callers \ {c} : attempt'[d] = attempt[d],
             \/ answer' = [answer EXCEPT ![c] = "none"]
             \/ UNCHANGED answer /\ pc[c] # "reply"
      PROVE  ChainPart'
  <2>1. \A d \in Callers \ {c} :
           pc'[d] = pc[d] /\ attempt'[d] = attempt[d] /\ answer'[d] \in {answer[d], "none"}
    BY <1>0, <1>1 DEF CallTypes
  <2>2. pc'[c] # "chain" /\ answer'[c] = "none"
    BY <1>0, <1>1 DEF CallTypes, ChainPart
  <2> QED
    BY <1>1, <2>1, <2>2, MoveKeepsChainPart
<1>2. ASSUME NEW c \in Callers, NEW e, AttemptFails(c, e), UNCHANGED <<chain, attempt>>
      PROVE  ChainPart'
  <2>1. PICK x \in {"backoff", "done"} : pc' = [pc EXCEPT ![c] = x]
    BY <1>2, AttemptFailsMoves
  <2>2. x # "chain" /\ answer' = [answer EXCEPT ![c] = "none"]
    BY <1>2 DEF AttemptFails
  <2> QED
    BY <1>1, <1>2, <2>1, <2>2
<1>3. ASSUME NEW c \in Callers, NEW k \in Classes(c), MakeCall(c, k) PROVE ChainPart'
  <2>1. /\ pc[c] = "idle" /\ attempt' = [attempt EXCEPT ![c] = 1]
        /\ UNCHANGED <<chain, answer>>
    BY <1>3 DEF MakeCall, HandleCall, ClientCall, RestoreCall
  <2>2. PICK x \in {"woken", "ready", "rejected"} : pc' = [pc EXCEPT ![c] = x]
    BY <1>3 DEF MakeCall, HandleCall, ClientCall, RestoreCall, WaitForReady
  <2>3. \A d \in Callers \ {c} : attempt'[d] = attempt[d]
    BY <1>0, <2>1 DEF CallTypes
  <2>4. x # "chain" /\ pc[c] # "reply"
    BY <2>1
  <2> QED
    BY <1>1, <2>1, <2>2, <2>3, <2>4
<1>4. ASSUME NEW c \in Callers, Retry(c) PROVE ChainPart'
  <2>1. /\ pc[c] = "backoff" /\ attempt' = [attempt EXCEPT ![c] = @ + 1]
        /\ UNCHANGED <<chain, answer>>
    BY <1>4 DEF Retry
  <2>2. PICK x \in {"woken", "ready", "rejected"} : pc' = [pc EXCEPT ![c] = x]
    BY <1>4 DEF Retry, WaitForReady
  <2>3. \A d \in Callers \ {c} : attempt'[d] = attempt[d]
    BY <1>0, <2>1 DEF CallTypes
  <2>4. x # "chain" /\ pc[c] # "reply"
    BY <2>1
  <2> QED
    BY <1>1, <2>1, <2>2, <2>3, <2>4
<1>5. ASSUME NEW c \in Callers,
             BackoffAborted(c) \/ \E e \in {"connection", "abort"} : ReadyGivesUp(c, e)
      PROVE  ChainPart'
  <2>1. pc[c] # "reply" /\ UNCHANGED <<chain, attempt, answer>>
    BY <1>5 DEF BackoffAborted, ReadyGivesUp
  <2>2. PICK x \in {"rejected", "done"} : pc' = [pc EXCEPT ![c] = x]
    BY <1>5 DEF BackoffAborted, ReadyGivesUp
  <2>3. x # "chain"
    OBVIOUS
  <2> QED
    BY <1>1, <2>1, <2>2, <2>3
<1>6. ASSUME NEW c \in Callers, Woken(c) PROVE ChainPart'
  <2>1. CASE /\ pc[c] = "woken" /\ pc' = [pc EXCEPT ![c] = "gate"]
             /\ UNCHANGED <<chain, attempt, answer>>
    BY <1>1, <2>1
  <2> QED
    BY <1>2, <1>6, <2>1 DEF Woken
<1>7. ASSUME NEW c \in Callers, GateRejects(c) \/ Rejected(c) \/ \E e \in {"timeout", "abort"} : GiveUp(c, e)
      PROVE  ChainPart'
  BY <1>2, <1>7 DEF GateRejects, Rejected, GiveUp
<1>8. ASSUME NEW c \in Callers, Reply(c) PROVE ChainPart'
  <2>1. CASE CallSucceeds(c) /\ UNCHANGED <<chain, attempt>>
    BY <1>1, <2>1 DEF CallSucceeds
  <2> QED
    BY <1>2, <1>8, <2>1 DEF Reply
<1>9. ASSUME NEW c \in Callers, Issue(c) PROVE ChainPart'
  <2>1. CASE /\ chain' = Append(chain, Frame(c)) /\ pc' = [pc EXCEPT ![c] = "chain"]
             /\ UNCHANGED <<attempt, answer>> /\ pc[c] = "gate"
    <3>0. chain \in Seq(Frames) /\ Frame(c) \in Frames
      BY <1>0, PathAssumption DEF SessionTypes, CallTypes, Frame, Frames
    <3>1. /\ Len(chain) \in Nat /\ DOMAIN chain = 1..Len(chain)
          /\ DOMAIN chain' = 1..(Len(chain) + 1)
          /\ \A i \in DOMAIN chain : i \in DOMAIN chain' /\ chain'[i] = chain[i]
          /\ Len(chain) + 1 \in DOMAIN chain' /\ chain'[Len(chain) + 1] = Frame(c)
      BY <2>1, <3>0, AppendProperties, LenProperties
    <3>2. ASSUME NEW d \in Callers, d # c
          PROVE  /\ pc'[d] = "chain" =>
                      \E i \in DOMAIN chain' : chain'[i].caller = d /\ chain'[i].attempt = attempt'[d]
                 /\ answer'[d] # "none" => pc'[d] = "reply"
      BY <1>0, <2>1, <3>1, <3>2 DEF ChainPart, CallTypes
    <3>3. \E i \in DOMAIN chain' : chain'[i].caller = c /\ chain'[i].attempt = attempt'[c]
      BY <2>1, <3>1 DEF Frame
    <3>4. answer'[c] = "none"
      BY <1>0, <2>1 DEF ChainPart, CallTypes
    <3> QED
      BY <3>2, <3>3, <3>4 DEF ChainPart
  <2> QED
    BY <1>2, <1>9, <2>1 DEF Issue
<1>10. ASSUME NEW v, WriteSucceeds(v) PROVE ChainPart'
  <2> DEFINE f == Head(chain)
             c == f.caller
  <2>1. /\ chain # <<>> /\ chain' = Tail(chain) /\ UNCHANGED attempt
    BY <1>10 DEF WriteSucceeds
  <2>2. c \in Callers
    BY <1>0, <2>1, ChainRest DEF SessionTypes
  <2>3. \/ ~Pending(f) /\ UNCHANGED <<pc, answer>>
        \/ pc' = [pc EXCEPT ![c] = "done"] /\ answer' = [answer EXCEPT ![c] = "none"]
        \/ pc' = [pc EXCEPT ![c] = "reply"] /\ answer' = [answer EXCEPT ![c] = v]
    BY <1>10 DEF WriteSucceeds, CallSucceeds
  <2>4. /\ Pending(f) => pc'[c] # "chain"
        /\ \A d \in Callers : pc'[d] = "chain" => pc[d] = "chain"
        /\ \A d \in Callers : answer'[d] # "none" => pc'[d] = "reply"
    BY <1>0, <2>2, <2>3 DEF CallTypes, ChainPart
  <2> QED
    BY <2>1, <2>4, WriteKeepsChainPart
<1>11. ASSUME NEW v, NEW e, WriteFails(v, e) PROVE ChainPart'
  <2> DEFINE f == Head(chain)
             c == f.caller
  <2>1. /\ chain # <<>> /\ chain' = Tail(chain) /\ UNCHANGED attempt
    BY <1>11 DEF WriteFails
  <2>2. c \in Callers
    BY <1>0, <2>1, ChainRest DEF SessionTypes
  <2>3. CASE ~Pending(f)
    <3>1. UNCHANGED <<pc, answer>>
      BY <1>11, <2>3 DEF WriteFails
    <3> QED
      BY <2>1, <2>3, <3>1, WriteKeepsChainPart DEF ChainPart
  <2>4. CASE Pending(f) /\ (e = "timeout" \/ ~IsLoss(f))
    <3>1. AttemptFails(c, e)
      BY <1>11, <2>4 DEF WriteFails
    <3>2. PICK x \in {"backoff", "done"} : pc' = [pc EXCEPT ![c] = x]
      BY <2>2, <3>1, AttemptFailsMoves
    <3>3. answer' = [answer EXCEPT ![c] = "none"]
      BY <3>1 DEF AttemptFails
    <3>4. /\ pc'[c] # "chain"
          /\ \A d \in Callers : pc'[d] = "chain" => pc[d] = "chain"
          /\ \A d \in Callers : answer'[d] # "none" => pc'[d] = "reply"
      BY <1>0, <2>2, <3>2, <3>3 DEF CallTypes, ChainPart
    <3> QED
      BY <2>1, <3>4, WriteKeepsChainPart
  <2>5. CASE Pending(f) /\ ~(e = "timeout" \/ ~IsLoss(f))
    <3>1. \A d \in Callers :
             /\ d # c => pc'[d] = IF d \in Registered \ {c} THEN "rejected" ELSE pc[d]
             /\ answer'[d] = IF d \in Registered \ {c} THEN "none" ELSE answer[d]
      BY <1>11, <2>5 DEF WriteFails
    <3>2. pc'[c] \in {"backoff", "done"} /\ pc[c] = "chain"
      BY <1>11, <2>2, <2>5 DEF WriteFails, Pending
    <3>3. /\ pc'[c] # "chain"
          /\ \A d \in Callers : pc'[d] = "chain" => pc[d] = "chain"
          /\ \A d \in Callers : answer'[d] # "none" => pc'[d] = "reply"
      BY <2>2, <3>1, <3>2 DEF ChainPart
    <3> QED
      BY <2>1, <3>3, WriteKeepsChainPart
  <2> QED
    BY <2>3, <2>4, <2>5
<1>12. CASE Lose \/ CloseConnection
  <2>1. /\ UNCHANGED <<chain, attempt>>
        /\ \A d \in Callers : answer'[d] = "none" /\ pc'[d] \in {pc[d], "rejected"}
    BY <1>12 DEF Lose, CloseConnection
  <2> QED
    BY <2>1, MoveKeepsChainPart
<1>13. CASE NewSession
  <2>1. UNCHANGED <<chain, pc, attempt>> /\ \A d \in Callers : answer'[d] = "none"
    BY <1>13 DEF NewSession
  <2> QED
    BY <2>1, MoveKeepsChainPart
<1>14. CASE Restored
  <2>1. /\ UNCHANGED <<chain, attempt, answer>>
        /\ \A d \in Callers : pc'[d] = IF pc[d] = "ready" THEN "woken" ELSE pc[d]
    BY <1>14 DEF Restored
  <2>2. \A d \in Callers :
           \/ pc'[d] = pc[d] /\ attempt'[d] = attempt[d] /\ answer'[d] \in {answer[d], "none"}
           \/ pc'[d] # "chain" /\ answer'[d] = "none"
    BY <2>1 DEF ChainPart
  <2> QED
    BY <2>1, <2>2, MoveKeepsChainPart
<1>15. CASE GateAbort \/ HandleMade
  <2>1. UNCHANGED <<chain, pc, attempt, answer>>
    BY <1>15, HandleMadeEffect DEF GateAbort, pathVars
  <2> QED
    BY <2>1 DEF ChainPart
<1> QED
  BY <1>3, <1>4, <1>5, <1>6, <1>7, <1>8, <1>9, <1>10, <1>11, <1>12, <1>13, <1>14, <1>15
     DEF PNext, WriteEnds, Progress, HandleMade

--------------------------------------------------------------------------------
(* Writes are executed at most once *)

\* A step that writes nothing and puts nothing on the chain: who may have been executed
\* already, or has a frame on the chain, is not brought back to an earlier point.
LEMMA MoveKeepsOncePart ==
    ASSUME TypePart, OncePart, UNCHANGED <<sess, past, chain, effects>>,
           \A d \in Callers :
             \/ /\ pc'[d] = pc[d] /\ class'[d] = class[d] /\ err'[d] = err[d]
                /\ answer'[d] \in {answer[d], "none"}
             \/ /\ pc'[d] # "idle" /\ err'[d] # "negative" /\ answer'[d] = "none"
                /\ \/ pc[d] = "idle"
                   \/ /\ class'[d] = class[d]
                      /\ \/ pc[d] \notin {"chain", "reply", "rejected", "done"}
                         \/ pc'[d] \in {"rejected", "done"}
                         \/ pc[d] = "reply" /\ answer[d] = "negative"
                         \/ class[d] = "handleRead"
    PROVE  OncePart'
<1>1. \A d : OnChain(d)' = OnChain(d)
  BY DEF OnChain
<1>2. ASSUME NEW d \in Callers, class'[d] \notin {"restore", "handleRead"} PROVE WriteOnce(d)'
  <2>1. pc[d] = "idle" => class[d] = "none"
    BY DEF OncePart
  <2>2. WriteOnce(d)
    BY <1>2, <2>1 DEF OncePart
  <2> QED
    BY <1>1, <1>2, <2>2 DEF WriteOnce
<1>3. \A d \in Callers : err'[d] # "negative" /\ (pc'[d] = "idle" => class'[d] = "none")
  BY DEF OncePart
<1>4. ASSUME NEW d \in Callers, d \in past', class'[d] # "handleRead" PROVE Outdated(d)'
  <2>1. pc[d] = "idle" => class[d] = "none" /\ ~Outdated(d)
    BY DEF OncePart, Outdated
  <2>2. Outdated(d) /\ pc[d] # "idle"
    BY <1>4, <2>1 DEF OncePart
  <2> QED
    BY <2>2, <1>4 DEF Outdated
<1>5. \A i \in DOMAIN chain' : chain'[i].for <= sess'
  BY DEF OncePart
<1> QED
  BY <1>2, <1>3, <1>4, <1>5 DEF OncePart

\* Only a read, or what the broker refused, is tried again.
LEMMA RetriedIsHarmless ==
    ASSUME TypePart, NEW c \in Callers, NEW e, AttemptFails(c, e)
    PROVE  /\ \/ pc'[c] = "done"
              \/ pc'[c] = "backoff" /\ class[c] = "handleRead"
              \/ pc'[c] = "backoff" /\ class[c] = "publish" /\ e = "negative"
           /\ err'[c] = "none" /\ answer'[c] = "none"
           /\ \A d \in Callers \ {c} : pc'[d] = pc[d] /\ err'[d] = err[d] /\ answer'[d] = answer[d]
<1>0. CallTypes
  BY TypePartSplit
<1>1. /\ pc' = [pc EXCEPT ![c] =
            IF ShouldRetryOperation(class[c], e) /\ attempt[c] < MaxAttempts
            THEN "backoff" ELSE "done"]
      /\ err' = [err EXCEPT ![c] = "none"]
      /\ answer' = [answer EXCEPT ![c] = "none"]
  BY DEF AttemptFails
<1>2. ShouldRetryOperation(class[c], e) => \/ class[c] = "handleRead"
                                           \/ class[c] = "publish" /\ e = "negative"
  BY DEF ShouldRetryOperation
<1> QED
  BY <1>0, <1>1, <1>2 DEF CallTypes

\* The writer at the head of the chain: its frame is gone, and if the broker executed
\* it, nothing of it is left that could be executed again.
LEMMA WriteKeepsOncePart ==
    ASSUME TypePart, ChainPart, OncePart, chain # <<>>, NEW v \in Verdicts(Head(chain)),
           Deliver(Head(chain), v), chain' = Tail(chain), UNCHANGED <<sess, past, class>>,
           \A d \in Callers : d # Head(chain).caller =>
             \/ pc'[d] = pc[d] /\ err'[d] = err[d] /\ answer'[d] = answer[d]
             \/ pc'[d] = "rejected" /\ err'[d] = "connection" /\ answer'[d] = "none",
           LET c == Head(chain).caller IN
             IF Pending(Head(chain))
             THEN /\ pc'[c] # "idle" /\ err'[c] # "negative"
                  /\ \/ class[c] = "handleRead"
                     \/ pc'[c] = "reply" /\ answer'[c] = v
                     \/ pc'[c] = "done" /\ answer'[c] = "none"
             ELSE pc'[c] = pc[c] /\ err'[c] = err[c] /\ answer'[c] = answer[c]
    PROVE  OncePart'
<1> DEFINE f == Head(chain)
<1>0. CallTypes /\ SessionTypes
  BY TypePartSplit
<1>c. PICK c \in Callers : f.caller = c
  BY <1>0, ChainRest DEF SessionTypes
<1>1. /\ f = chain[1] /\ 1 \in DOMAIN chain /\ f \in Frames
      /\ \A i \in DOMAIN chain' :
           i + 1 \in DOMAIN chain /\ i + 1 # 1 /\ chain'[i] = chain[i + 1]
      /\ \A i, j \in DOMAIN chain' : i + 1 = j + 1 => i = j
  <2>1. chain' \in Seq(Frames)
    BY <1>0, ChainRest DEF SessionTypes
  <2>2. DOMAIN chain' \subseteq Nat
    BY <2>1, LenProperties
  <2>3. \A i, j \in DOMAIN chain' : i + 1 = j + 1 => i = j
    BY <2>2
  <2> QED
    BY <1>0, <2>3, ChainRest DEF SessionTypes
<1>2. effects' = IF v # "ok" \/ class[c] = "handleRead" THEN effects
                 ELSE [effects EXCEPT ![c] = @ + 1]
  BY <1>c DEF Deliver
<1>3. ASSUME NEW d \in Callers, OnChain(d)' PROVE OnChain(d)
  BY <1>c, <1>1, <1>3 DEF OnChain
<1>4. ASSUME NEW d \in Callers, d # c, class[d] \notin {"restore", "handleRead"}
      PROVE  WriteOnce(d)'
  <2>1. effects'[d] = effects[d]
    BY <1>0, <1>c, <1>1, <1>2, <1>4 DEF SessionTypes
  <2>2. WriteOnce(d)
    BY <1>4 DEF OncePart
  <2>3. \A i, j \in DOMAIN chain' : chain'[i].caller = d /\ chain'[j].caller = d => i = j
    BY <1>c, <1>1, <2>2 DEF WriteOnce
  <2> QED
    BY <1>c, <1>3, <1>4, <2>1, <2>2, <2>3 DEF WriteOnce
<1>5. ASSUME class[c] \notin {"restore", "handleRead"} PROVE WriteOnce(c)'
  <2>1. WriteOnce(c) /\ OnChain(c)
    BY <1>c, <1>1, <1>5 DEF OncePart, OnChain
  <2>2. effects[c] = 0 /\ pc[c] \in {"chain", "rejected", "done"}
    BY <1>0, <1>c, <1>1, <2>1 DEF WriteOnce, SessionTypes
  <2>3. ~OnChain(c)'
    BY <1>c, <1>1, <2>1 DEF WriteOnce, OnChain
  <2>4. effects'[c] = IF v = "ok" THEN 1 ELSE 0
    BY <1>0, <1>c, <1>1, <1>2, <1>5, <2>2 DEF SessionTypes
  <2>5. CASE Pending(f)
    BY <1>c, <1>5, <2>3, <2>4, <2>5 DEF WriteOnce, OnChain
  <2>6. CASE ~Pending(f)
    <3>1. pc[c] # "chain"
      <4> SUFFICES ASSUME pc[c] = "chain" PROVE FALSE
        OBVIOUS
      <4>1. PICK i \in DOMAIN chain : chain[i].caller = c /\ chain[i].attempt = attempt[c]
        BY <1>c, <1>1 DEF ChainPart
      <4>2. i = 1
        BY <1>c, <1>1, <2>1, <4>1 DEF WriteOnce
      <4> QED
        BY <1>c, <1>1, <2>6, <4>1, <4>2 DEF Pending
    <3>2. answer[c] = "none"
      BY <1>c, <1>1, <2>2 DEF ChainPart
    <3>3. pc'[c] \in {"rejected", "done"} /\ answer'[c] = "none"
      BY <1>c, <2>2, <2>6, <3>1, <3>2
    <3> QED
      BY <2>3, <2>4, <3>3 DEF WriteOnce, OnChain
  <2> QED
    BY <2>5, <2>6
<1>6. ASSUME NEW d \in Callers
      PROVE  err'[d] # "negative" /\ (pc'[d] = "idle" => class'[d] = "none")
  <2>1. CASE d # c
    BY <1>c, <2>1 DEF OncePart
  <2>2. CASE d = c
    BY <1>c, <1>1, <2>2 DEF OncePart
  <2> QED
    BY <2>1, <2>2
<1>7. ASSUME NEW d \in Callers, d \in past', class'[d] # "handleRead" PROVE Outdated(d)'
  <2>1. Outdated(d)
    BY <1>7 DEF OncePart
  <2>2. \A i \in DOMAIN chain' : chain'[i].caller = d => chain'[i].for < sess'
    BY <1>1, <2>1 DEF Outdated
  <2>3. CASE d # c
    BY <1>c, <2>1, <2>2, <2>3 DEF Outdated
  <2>4. CASE d = c
    <3>1. f.for < sess
      BY <1>c, <1>1, <2>1, <2>4 DEF Outdated
    <3>2. v = "lost"
      BY <1>0, <1>1, <3>1 DEF Verdicts, Carrier, SessionTypes, Frames
    <3> QED
      BY <1>c, <1>7, <2>1, <2>2, <2>4, <3>2 DEF Outdated
  <2> QED
    BY <2>3, <2>4
<1>8. \A i \in DOMAIN chain' : chain'[i].for <= sess'
  BY <1>1 DEF OncePart
<1> QED
  BY <1>4, <1>5, <1>6, <1>7, <1>8 DEF OncePart

\* Every step keeps a write from being executed twice.
LEMMA OnceStep ==
    ASSUME TypePart, ChainPart, OncePart, PNext
    PROVE  OncePart'
<1>0. CallTypes /\ SessionTypes
  BY TypePartSplit
<1>1. ASSUME NEW c \in Callers, NEW k \in Classes(c), MakeCall(c, k) PROVE OncePart'
  <2>1. /\ pc[c] = "idle" /\ class' = [class EXCEPT ![c] = k]
        /\ UNCHANGED <<sess, past, chain, effects, answer>>
    BY <1>1 DEF session, MakeCall, HandleCall, ClientCall, RestoreCall
  <2>2. PICK x \in {"woken", "ready", "rejected"} : pc' = [pc EXCEPT ![c] = x]
    BY <1>1 DEF MakeCall, HandleCall, ClientCall, RestoreCall, WaitForReady
  <2>3. PICK e \in {"connection", "full", err[c]} : err' = [err EXCEPT ![c] = e]
    BY <1>0, <1>1 DEF MakeCall, HandleCall, ClientCall, RestoreCall, WaitForReady, CallTypes
  <2>4. \A d \in Callers \ {c} :
           pc'[d] = pc[d] /\ class'[d] = class[d] /\ err'[d] = err[d] /\ answer'[d] = answer[d]
    BY <1>0, <2>1, <2>2, <2>3 DEF CallTypes
  <2>5. pc'[c] # "idle" /\ err'[c] # "negative" /\ answer'[c] = "none"
    BY <1>0, <2>1, <2>2, <2>3 DEF CallTypes, OncePart, ChainPart
  <2> QED
    BY <2>1, <2>4, <2>5, MoveKeepsOncePart
<1>2. ASSUME NEW c \in Callers, Retry(c) PROVE OncePart'
  <2>1. pc[c] = "backoff" /\ UNCHANGED <<sess, past, class, chain, effects, answer>>
    BY <1>2 DEF session, Retry
  <2>2. PICK x \in {"woken", "ready", "rejected"} : pc' = [pc EXCEPT ![c] = x]
    BY <1>2 DEF Retry, WaitForReady
  <2>3. PICK e \in {"connection", "full", err[c]} : err' = [err EXCEPT ![c] = e]
    BY <1>0, <1>2 DEF Retry, WaitForReady, CallTypes
  <2>4. \A d \in Callers \ {c} :
           pc'[d] = pc[d] /\ class'[d] = class[d] /\ err'[d] = err[d] /\ answer'[d] = answer[d]
    BY <1>0, <2>1, <2>2, <2>3 DEF CallTypes
  <2>5. pc'[c] # "idle" /\ err'[c] # "negative" /\ answer'[c] = "none"
    BY <1>0, <2>1, <2>2, <2>3 DEF CallTypes, OncePart, ChainPart
  <2> QED
    BY <2>1, <2>4, <2>5, MoveKeepsOncePart
<1>3. ASSUME NEW c \in Callers, NEW x \in {"gate", "rejected", "done"}, UNCHANGED <<sess, past, class, chain, effects, answer>>,
             pc[c] \in {"ready", "woken", "backoff"}, pc' = [pc EXCEPT ![c] = x],
             \E e \in {"connection", "abort", err[c]} : err' = [err EXCEPT ![c] = e]
      PROVE  OncePart'
  <2>1. \A d \in Callers \ {c} :
           pc'[d] = pc[d] /\ class'[d] = class[d] /\ err'[d] = err[d] /\ answer'[d] = answer[d]
    BY <1>0, <1>3 DEF CallTypes
  <2>2. pc'[c] # "idle" /\ err'[c] # "negative" /\ answer'[c] = "none"
    BY <1>0, <1>3 DEF CallTypes, OncePart, ChainPart
  <2> QED
    BY <1>3, <2>1, <2>2, MoveKeepsOncePart
<1>5. ASSUME NEW c \in Callers, BackoffAborted(c) PROVE OncePart'
  <2>1. err' = [err EXCEPT ![c] = err[c]]
    BY <1>0, <1>5 DEF BackoffAborted, CallTypes
  <2> QED
    BY <1>3, <1>5, <2>1 DEF BackoffAborted, session
<1>6. ASSUME NEW c \in Callers, NEW e, ReadyGivesUp(c, e) PROVE OncePart'
  BY <1>3, <1>6 DEF ReadyGivesUp, session
<1>7. ASSUME NEW c \in Callers, NEW e, AttemptFails(c, e), UNCHANGED <<sess, past, class, chain, effects>>,
             e # "negative" \/ (pc[c] = "reply" /\ answer[c] = "negative")
      PROVE  OncePart'
  BY <1>7, RetriedIsHarmless, MoveKeepsOncePart
<1>8. ASSUME NEW c \in Callers, Woken(c) PROVE OncePart'
  <2>1. CASE /\ pc[c] = "woken" /\ pc' = [pc EXCEPT ![c] = "gate"]
             /\ UNCHANGED <<sess, past, err, class, chain, effects, answer>>
    <3>1. err' = [err EXCEPT ![c] = err[c]]
      BY <1>0, <2>1 DEF CallTypes
    <3> QED
      BY <1>3, <2>1, <3>1
  <2> QED
    BY <1>7, <1>8, <2>1 DEF Woken, session
<1>9. ASSUME NEW c \in Callers, GateRejects(c) PROVE OncePart'
  BY <1>7, <1>9 DEF GateRejects, session
<1>10. ASSUME NEW c \in Callers, Rejected(c) PROVE OncePart'
  BY <1>7, <1>10 DEF Rejected, OncePart, session
<1>11. ASSUME NEW c \in Callers, NEW e \in {"timeout", "abort"}, GiveUp(c, e) PROVE OncePart'
  BY <1>7, <1>11 DEF GiveUp, session
<1>12. ASSUME NEW c \in Callers, Reply(c) PROVE OncePart'
  <2>1. pc[c] = "reply" /\ UNCHANGED <<sess, past, class, chain, effects>>
    BY <1>12 DEF session, Reply
  <2>2. CASE CallSucceeds(c)
    <3>1. /\ pc' = [pc EXCEPT ![c] = "done"] /\ answer' = [answer EXCEPT ![c] = "none"]
          /\ UNCHANGED err
      BY <2>2 DEF CallSucceeds
    <3>2. \A d \in Callers \ {c} :
             pc'[d] = pc[d] /\ class'[d] = class[d] /\ err'[d] = err[d] /\ answer'[d] = answer[d]
      BY <1>0, <2>1, <3>1 DEF CallTypes
    <3>3. pc'[c] = "done" /\ err'[c] # "negative" /\ answer'[c] = "none"
      BY <1>0, <3>1 DEF CallTypes, OncePart
    <3> QED
      BY <2>1, <3>2, <3>3, MoveKeepsOncePart
  <2>3. CASE AttemptFails(c, "negative") /\ answer[c] # "ok"
    <3>1. answer[c] = "negative"
      BY <1>12, <2>3 DEF Reply
    <3> QED
      BY <1>7, <2>1, <2>3, <3>1
  <2> QED
    BY <1>12, <2>2, <2>3 DEF Reply
<1>13. ASSUME NEW c \in Callers, Issue(c) PROVE OncePart'
  <2>1. CASE /\ chain' = Append(chain, Frame(c)) /\ pc' = [pc EXCEPT ![c] = "chain"]
             /\ UNCHANGED <<sess, past, err, class, effects, answer>> /\ pc[c] = "gate"
    <3>0. chain \in Seq(Frames) /\ Frame(c) \in Frames
      BY <1>0, PathAssumption DEF SessionTypes, CallTypes, Frame, Frames
    <3>1. /\ Len(chain) \in Nat /\ DOMAIN chain = 1..Len(chain)
          /\ DOMAIN chain' = 1..(Len(chain) + 1)
          /\ \A i \in DOMAIN chain : i \in DOMAIN chain' /\ chain'[i] = chain[i]
          /\ chain'[Len(chain) + 1].caller = c
      BY <2>1, <3>0, AppendProperties, LenProperties DEF Frame
    <3>2. \A i \in DOMAIN chain' : i \in DOMAIN chain \/ i = Len(chain) + 1
      BY <3>1
    <3>3. ASSUME NEW d \in Callers, d # c, class[d] \notin {"restore", "handleRead"}
          PROVE  WriteOnce(d)'
      <4>1. WriteOnce(d)
        BY <3>3 DEF OncePart
      <4>2. OnChain(d)' => OnChain(d)
        BY <3>1, <3>2, <3>3 DEF OnChain
      <4>3. \A i, j \in DOMAIN chain' : chain'[i].caller = d /\ chain'[j].caller = d => i = j
        BY <3>1, <3>2, <3>3, <4>1 DEF WriteOnce
      <4>4. pc'[d] = pc[d] /\ answer'[d] = answer[d] /\ effects'[d] = effects[d]
        BY <1>0, <2>1, <3>3 DEF CallTypes
      <4> QED
        BY <4>1, <4>2, <4>3, <4>4 DEF WriteOnce
    <3>4. ASSUME class[c] \notin {"restore", "handleRead"} PROVE WriteOnce(c)'
      <4>1. WriteOnce(c)
        BY <3>4 DEF OncePart
      <4>2. effects[c] # 1 /\ ~OnChain(c)
        BY <2>1, <4>1 DEF WriteOnce
      <4>3. \A i, j \in DOMAIN chain' : chain'[i].caller = c /\ chain'[j].caller = c => i = j
        BY <3>1, <3>2, <4>2 DEF OnChain
      <4>4. pc'[c] = "chain" /\ effects'[c] = effects[c]
        BY <1>0, <2>1 DEF CallTypes
      <4> QED
        BY <4>1, <4>2, <4>3, <4>4 DEF WriteOnce
    <3>5. \A d \in Callers : err'[d] # "negative" /\ (pc'[d] = "idle" => class'[d] = "none")
      BY <1>0, <2>1 DEF OncePart, CallTypes
    <3>6. ASSUME NEW d \in Callers, d \in past', class'[d] # "handleRead" PROVE Outdated(d)'
      <4>1. Outdated(d) /\ d # c
        BY <2>1, <3>6 DEF OncePart, Outdated
      <4>2. \A i \in DOMAIN chain' : chain'[i].caller = d => chain'[i].for < sess'
        BY <2>1, <3>1, <3>2, <4>1 DEF Outdated
      <4>3. pc'[d] = pc[d] /\ answer'[d] = answer[d]
        BY <1>0, <2>1, <4>1 DEF CallTypes
      <4> QED
        BY <4>1, <4>2, <4>3 DEF Outdated
    <3>7. \A i \in DOMAIN chain' : chain'[i].for <= sess'
      <4>1. chain'[Len(chain) + 1].for = sess /\ sess \in Nat
        BY <1>0, <2>1, <3>0, AppendProperties, PathAssumption DEF Frame, SessionTypes
      <4> QED
        BY <2>1, <3>1, <3>2, <4>1 DEF OncePart
    <3> QED
      BY <2>1, <3>3, <3>4, <3>5, <3>6, <3>7 DEF OncePart
  <2> QED
    BY <1>7, <1>13, <2>1 DEF Issue, session
<1>14. ASSUME NEW v, WriteSucceeds(v) PROVE OncePart'
  <2> DEFINE f == Head(chain)
             c == f.caller
  <2>1. /\ chain # <<>> /\ v \in Verdicts(f) /\ Deliver(f, v) /\ chain' = Tail(chain)
        /\ UNCHANGED <<sess, past, class>>
    BY <1>14 DEF session, WriteSucceeds
  <2>2. c \in Callers
    BY <1>0, <2>1, ChainRest DEF SessionTypes
  <2>3. CASE ~Pending(f)
    <3>1. UNCHANGED <<pc, err, answer>>
      BY <1>14, <2>3 DEF WriteSucceeds
    <3> QED
      BY <2>1, <2>3, <3>1, WriteKeepsOncePart
  <2>4. CASE Pending(f)
    <3>1. /\ UNCHANGED err
          /\ \/ pc' = [pc EXCEPT ![c] = "done"] /\ answer' = [answer EXCEPT ![c] = "none"]
             \/ pc' = [pc EXCEPT ![c] = "reply"] /\ answer' = [answer EXCEPT ![c] = v]
      BY <1>14, <2>4 DEF WriteSucceeds, CallSucceeds
    <3>2. \A d \in Callers : d # c => pc'[d] = pc[d] /\ err'[d] = err[d] /\ answer'[d] = answer[d]
      BY <1>0, <2>2, <3>1 DEF CallTypes
    <3>3. /\ pc'[c] # "idle" /\ err'[c] # "negative"
          /\ \/ pc'[c] = "reply" /\ answer'[c] = v
             \/ pc'[c] = "done" /\ answer'[c] = "none"
      BY <1>0, <2>2, <3>1 DEF CallTypes, OncePart
    <3> QED
      BY <2>1, <2>4, <3>2, <3>3, WriteKeepsOncePart
  <2> QED
    BY <2>3, <2>4
<1>15. ASSUME NEW v, NEW e \in {"transport", "timeout"}, WriteFails(v, e) PROVE OncePart'
  <2> DEFINE f == Head(chain)
             c == f.caller
  <2>1. /\ chain # <<>> /\ v \in Verdicts(f) /\ Deliver(f, v) /\ chain' = Tail(chain)
        /\ UNCHANGED <<sess, past, class>>
    BY <1>15 DEF session, WriteFails
  <2>2. c \in Callers
    BY <1>0, <2>1, ChainRest DEF SessionTypes
  <2>3. CASE ~Pending(f)
    <3>1. UNCHANGED <<pc, err, answer>>
      BY <1>15, <2>3 DEF WriteFails
    <3> QED
      BY <2>1, <2>3, <3>1, WriteKeepsOncePart
  <2>4. CASE Pending(f) /\ (e = "timeout" \/ ~IsLoss(f))
    <3>1. AttemptFails(c, e)
      BY <1>15, <2>4 DEF WriteFails
    <3>2. /\ \A d \in Callers : d # c => pc'[d] = pc[d] /\ err'[d] = err[d] /\ answer'[d] = answer[d]
          /\ err'[c] = "none" /\ answer'[c] = "none" /\ pc'[c] \in {"done", "backoff"}
          /\ class[c] = "handleRead" \/ pc'[c] = "done"
      BY <2>2, <3>1, RetriedIsHarmless
    <3> QED
      BY <2>1, <2>4, <3>2, WriteKeepsOncePart
  <2>5. CASE Pending(f) /\ ~(e = "timeout" \/ ~IsLoss(f))
    <3>1. \A d \in Callers :
             /\ d # c => pc'[d] = IF d \in Registered \ {c} THEN "rejected" ELSE pc[d]
             /\ answer'[d] = IF d \in Registered \ {c} THEN "none" ELSE answer[d]
             /\ err'[d] = IF d \in Registered \ {c} THEN "connection" ELSE err[d]
      BY <1>15, <2>5 DEF WriteFails
    <3>2. pc'[c] = IF ShouldRetryOperation(class[c], e) /\ attempt[c] < MaxAttempts
                   THEN "backoff" ELSE "done"
      BY <1>15, <2>2, <2>5 DEF WriteFails
    <3>3. pc'[c] \in {"done", "backoff"} /\ (class[c] = "handleRead" \/ pc'[c] = "done")
      BY <3>2 DEF ShouldRetryOperation
    <3>4. err'[c] # "negative" /\ answer'[c] = "none"
      BY <2>2, <2>5, <3>1 DEF OncePart, ChainPart, Pending
    <3> QED
      BY <2>1, <2>5, <3>1, <3>3, <3>4, WriteKeepsOncePart
  <2> QED
    BY <2>3, <2>4, <2>5
<1>16. CASE Lose \/ CloseConnection
  <2>1. UNCHANGED <<sess, past, class, chain, effects>>
    BY <1>16 DEF session, Lose, CloseConnection
  <2>2. ASSUME NEW d \in Callers
        PROVE  /\ answer'[d] = "none"
               /\ \/ pc'[d] = pc[d] /\ err'[d] = err[d]
                  \/ pc'[d] = "rejected" /\ err'[d] = "connection"
    BY <1>16 DEF Lose, CloseConnection
  <2> QED
    BY <2>1, <2>2, MoveKeepsOncePart
<1>17. CASE Restored
  <2>1. /\ UNCHANGED <<sess, past, class, chain, effects, answer, err>>
        /\ \A d \in Callers : pc'[d] = IF pc[d] = "ready" THEN "woken" ELSE pc[d]
    BY <1>17 DEF Restored, session
  <2>2. \A d \in Callers : pc[d] = "ready" => answer[d] = "none" /\ err[d] # "negative"
    BY DEF ChainPart, OncePart
  <2> QED
    BY <2>1, <2>2, MoveKeepsOncePart
<1>18. CASE GateAbort \/ HandleMade
  <2>1. UNCHANGED <<sess, past, pc, class, chain, effects, answer, err>>
    BY <1>18, HandleMadeEffect DEF GateAbort, pathVars, session
  <2> QED
    BY <2>1, MoveKeepsOncePart
<1>19. CASE NewSession
  <2>1. /\ conn = "down" /\ sess' = sess + 1 /\ sess \in Nat
        /\ past' = {c \in Callers : pc[c] \in {"chain", "reply", "done"}}
        /\ UNCHANGED <<pc, class, chain, effects, err>> /\ \A d \in Callers : answer'[d] = "none"
    BY <1>0, <1>19, PathAssumption DEF NewSession, SessionTypes
  <2>2. \A d \in Callers : class'[d] \notin {"restore", "handleRead"} => WriteOnce(d)'
    BY <2>1 DEF OncePart, WriteOnce, OnChain
  <2>3. \A i \in DOMAIN chain' : chain'[i].for < sess' /\ chain'[i].for <= sess'
    <3>1. \A i \in DOMAIN chain : chain[i] \in Frames
      BY <1>0, ElementOfSeq, LenProperties DEF SessionTypes
    <3> QED
      BY <2>1, <3>1 DEF OncePart, Frames
  <2>4. \A d \in Callers : d \in past' => Outdated(d)'
    BY <2>1, <2>3 DEF Outdated
  <2> QED
    BY <2>1, <2>2, <2>3, <2>4 DEF OncePart
<1> QED
  BY <1>1, <1>2, <1>5, <1>6, <1>8, <1>9, <1>10, <1>11, <1>12, <1>13, <1>14, <1>15, <1>16, <1>17, <1>18, <1>19
     DEF PNext, WriteEnds, Progress, HandleMade

--------------------------------------------------------------------------------
(* The handle stays in its session *)

\* Where a write through the handle never waits.
Barred == IF untold THEN {"backoff"} ELSE {"ready", "backoff"}

\* A step that makes no call, writes nothing and keeps the session: whoever may still
\* write into it could do so before.
LEMMA MoveKeepsHandlePart ==
    ASSUME HandlePart, UNCHANGED <<session, kind, begun, grant, chain, wire, class>>,
           open' => open /\ (untold \/ conn' = "up"),
           \A d \in Callers : class[d] \in HandleWrites =>
             pc'[d] \notin Barred /\ (untold \/ (Live(d)' => Live(d)))
    PROVE  HandlePart'
<1>0. UNCHANGED <<sess, granted, untold>>
  BY DEF session, grant
<1>1. /\ kind' = "none" => ~open'
      /\ granted' # "none" => kind' = "none" /\ begun' = sess'
  BY <1>0 DEF HandlePart
<1>2. \A d \in Callers :
         /\ class'[d] \in HandleClasses => kind' # "none"
         /\ class'[d] \in HandleWrites => pc'[d] # "backoff"
  BY DEF HandlePart, Barred
<1>3. kind' = "kv" =>
         \A c, d \in Callers :
           class'[c] \in {"commit", "rollback"} =>
             /\ ~open'
             /\ class'[d] \in {"commit", "rollback"} => c = d
  BY DEF HandlePart
<1>4. ASSUME ~untold' PROVE InItsSession'
  <2>1. ~untold /\ InItsSession
    BY <1>0, <1>4 DEF HandlePart
  <2>2. open' => conn' = "up" /\ begun' = sess'
    BY <1>0, <2>1 DEF InItsSession
  <2>3. \A d \in Callers : class'[d] \in HandleWrites =>
           pc'[d] # "ready" /\ (Live(d)' => begun' = sess')
    BY <1>0, <2>1 DEF InItsSession, Barred
  <2>4. \A k \in DOMAIN chain' : class'[chain'[k].caller] \in HandleWrites => chain'[k].for = begun'
    BY <2>1 DEF InItsSession
  <2>5. \A c \in wire' : class'[c] \in HandleWrites => begun' = sess'
    BY <1>0, <2>1 DEF InItsSession
  <2> QED
    BY <2>2, <2>3, <2>4, <2>5 DEF InItsSession
<1> QED
  BY <1>1, <1>2, <1>3, <1>4 DEF HandlePart

\* With the gate untouched a caller is live only if its own step made it so.
LEMMA LiveUntouched ==
    ASSUME UNCHANGED vars, NEW d, pc'[d] = pc[d] \/ pc'[d] \notin {"woken", "gate"}
    PROVE  Live(d)' => Live(d)
BY DEF Live, Queued, vars

\* A slot that is released goes to a waiter of the queue.
LEMMA LiveReleased ==
    ASSUME GatePart, NEW c \in Callers, ReleaseSlot(c), NEW d \in Callers,
           IF d = c THEN pc'[d] \notin {"woken", "gate"} ELSE pc'[d] = pc[d]
    PROVE  Live(d)' => Live(d)
<1>1. /\ \A x \in Callers : x # c =>
           \/ status'[x] = status[x]
           \/ status[x] = "waiting" /\ Queued(x) /\ status'[x] = "held"
      /\ \A x \in Callers : Queued(x)' => Queued(x)
  BY ReleaseSlotEffect DEF GatePart
<1> QED
  BY <1>1 DEF Live

\* The end of the session makes nobody live.
LEMMA LiveAtLoss ==
    ASSUME GatePart, NEW C \in SUBSET Callers, NEW n, SessionEnds(C, n), NEW d \in Callers,
           pc'[d] = pc[d] \/ pc'[d] \notin {"woken", "gate"}
    PROVE  Live(d)' => Live(d)
<1>1. /\ status'[d] = "held" => status[d] = "held"
      /\ ~Queued(d)'
  BY SessionEndsEffect DEF GatePart
<1> QED
  BY <1>1 DEF Live

\* acquire() makes nobody live but its caller, who was.
LEMMA LiveAcquired ==
    ASSUME TypePart, NEW c \in Callers, pc[c] = "woken", AcquireGranted(c) \/ AcquireQueued(c),
           pc' = [pc EXCEPT ![c] = "gate"], NEW d \in Callers
    PROVE  Live(d)' => Live(d)
<1>1. /\ status \in [Callers -> Statuses] /\ queue \in Seq(Callers) /\ CallTypes
  BY TypePartSplit DEF TypeOK
<1>2. \/ status' = [status EXCEPT ![c] = "held"] /\ queue' = queue
      \/ status' = [status EXCEPT ![c] = "full"] /\ queue' = queue
      \/ status' = [status EXCEPT ![c] = "waiting"] /\ queue' = Append(queue, c)
  BY DEF AcquireGranted, AcquireQueued
<1>3. d # c => (Queued(d)' => Queued(d))
  <2>1. CASE queue' = queue
    BY <2>1 DEF Queued
  <2>2. CASE queue' = Append(queue, c)
    <3>1. /\ Len(queue) \in Nat /\ DOMAIN queue = 1..Len(queue)
          /\ DOMAIN queue' = 1..(Len(queue) + 1)
          /\ \A i \in 1..Len(queue) : queue'[i] = queue[i]
          /\ queue'[Len(queue) + 1] = c
      BY <1>1, <2>2, AppendProperties, LenProperties
    <3>2. \A i \in DOMAIN queue' : i \in DOMAIN queue \/ i = Len(queue) + 1
      BY <3>1
    <3> QED
      BY <3>1, <3>2 DEF Queued
  <2> QED
    BY <1>2, <2>1, <2>2
<1>4. d # c => status'[d] = status[d] /\ pc'[d] = pc[d]
  BY <1>1, <1>2 DEF CallTypes
<1>5. Live(c)
  BY DEF Live
<1> QED
  BY <1>3, <1>4, <1>5 DEF Live

\* An abort makes nobody live.
LEMMA LiveAborted ==
    ASSUME TypePart, GatePart, GateAbort, NEW d \in Callers
    PROVE  Live(d)' => Live(d)
<1> USE GateFacts
<1>0. GateInv /\ status \in [Callers -> Statuses] /\ queue \in Seq(Callers)
  BY DEF GatePart, TypePart, PTypeOK, TypeOK
<1>1. UNCHANGED pc
  BY DEF GateAbort, pathVars
<1>2. PICK i \in DOMAIN queue : NativeAbortBegins(i) \/ NativeAbortDelivered(i)
  BY DEF GateAbort
<1>3. CASE NativeAbortBegins(i)
  BY <1>1, <1>3 DEF NativeAbortBegins, Live, Queued
<1>4. CASE NativeAbortDelivered(i)
  <2>1. /\ status' = [status EXCEPT ![queue[i]] = "aborted"]
        /\ queue' = WithoutIndex(queue, i)
    BY <1>4 DEF NativeAbortDelivered, OnAbort
  <2>2. /\ queue' \in Seq(Callers) /\ Len(queue') = Len(queue) - 1
        /\ \A j \in 1..(Len(queue) - 1) : queue'[j] = queue[IF j < i THEN j ELSE j + 1]
    BY <1>0, <2>1, WithoutIndexProperties
  <2>3. DOMAIN queue' = 1..(Len(queue) - 1)
    BY <2>2, LenProperties
  <2>4. ASSUME NEW j \in DOMAIN queue' PROVE \E k \in DOMAIN queue : queue'[j] = queue[k]
    <3>1. (IF j < i THEN j ELSE j + 1) \in DOMAIN queue
      BY <1>0, <2>3
    <3> QED
      BY <2>2, <2>3, <3>1
  <2>5. Queued(d)' => Queued(d)
    BY <2>4 DEF Queued
  <2>6. status'[d] = "held" => status[d] = "held"
    BY <1>0, <2>1
  <2> QED
    BY <1>1, <2>5, <2>6 DEF Live
<1> QED
  BY <1>2, <1>3, <1>4

\* A call through the handle is made in its session, and ends a transaction only once.
LEMMA HandleCallKeepsHandlePart ==
    ASSUME TypePart, OncePart, HandlePart, NEW c \in Callers, NEW k, HandleCall(c, k)
    PROVE  HandlePart'
<1>0. CallTypes /\ SessionTypes
  BY TypePartSplit
<1>1. /\ k \in HandleClasses /\ pc[c] = "idle" /\ open /\ (open' => open)
      /\ class' = [class EXCEPT ![c] = k]
      /\ UNCHANGED <<status, queue, conn, sess, kind, begun, granted, untold, chain, wire>>
      /\ kind = "kv" /\ k \in {"commit", "rollback"} => ~open'
  BY DEF HandleCall, ViaHandle, EnsureOpen, KvCloses, vars, session, grant
<1>2. kind # "none" /\ granted = "none"
  BY <1>1 DEF HandlePart
<1>3. PICK x \in {"woken", "ready", "rejected"} : pc' = [pc EXCEPT ![c] = x]
  BY DEF HandleCall, WaitForReady
<1>4. \A d \in Callers : d # c => class'[d] = class[d] /\ pc'[d] = pc[d] /\ Live(d)' = Live(d)
  BY <1>0, <1>1, <1>3 DEF CallTypes, Live, Queued
<1>5. class'[c] = k /\ pc'[c] = x
  BY <1>0, <1>1, <1>3 DEF CallTypes
<1>6. \A d \in Callers :
         /\ class'[d] \in HandleClasses => kind' # "none"
         /\ class'[d] \in HandleWrites => pc'[d] # "backoff"
  BY <1>1, <1>2, <1>4, <1>5 DEF HandlePart
<1>7. kind' = "kv" =>
         \A y, d \in Callers :
           class'[y] \in {"commit", "rollback"} =>
             /\ ~open'
             /\ class'[d] \in {"commit", "rollback"} => y = d
  BY <1>1, <1>4, <1>5 DEF HandlePart
<1>8. ASSUME ~untold' PROVE InItsSession'
  <2>1. InItsSession /\ conn = "up" /\ begun = sess
    BY <1>1, <1>8 DEF HandlePart, InItsSession
  <2>2. pc'[c] = "woken"
    BY <1>5, <2>1 DEF HandleCall, WaitForReady, CallTypes, TypePart, PTypeOK
  <2>3. \A d \in Callers : class'[d] \in HandleWrites =>
           pc'[d] # "ready" /\ (Live(d)' => begun' = sess')
    BY <1>1, <1>4, <2>1, <2>2 DEF InItsSession
  <2>4. ASSUME NEW i \in DOMAIN chain', class'[chain'[i].caller] \in HandleWrites
        PROVE  chain'[i].for = begun'
    <3>1. chain[i] \in Frames
      BY <1>0, <1>1, <2>4, ElementOfSeq, LenProperties DEF SessionTypes
    <3>2. chain[i].caller = c => class[c] \in HandleWrites
      BY <1>1, <2>4 DEF OncePart, WriteOnce, OnChain
    <3>3. class[chain[i].caller] \in HandleWrites
      BY <1>1, <1>4, <2>4, <3>1, <3>2 DEF Frames
    <3> QED
      BY <1>1, <2>1, <3>3 DEF InItsSession
  <2> QED
    BY <1>1, <2>1, <2>3, <2>4 DEF InItsSession
<1> QED
  BY <1>1, <1>2, <1>6, <1>7, <1>8 DEF HandlePart

\* A call of the client itself is no call through the handle.
LEMMA OtherCallKeepsHandlePart ==
    ASSUME TypePart, HandlePart, NEW c \in Callers, NEW k, ClientCall(c, k) \/ RestoreCall(c, k)
    PROVE  HandlePart'
<1>0. CallTypes /\ SessionTypes
  BY TypePartSplit
<1>1. /\ k \notin HandleClasses /\ class' = [class EXCEPT ![c] = k]
      /\ UNCHANGED <<status, queue, conn, sess, open, kind, begun, granted, untold, chain, wire>>
  BY DEF ClientCall, RestoreCall, HandleClasses, vars, handle, session, grant
<1>2. PICK p : pc' = [pc EXCEPT ![c] = p]
  BY DEF ClientCall, RestoreCall, WaitForReady
<1>3. \A d \in Callers : d # c => class'[d] = class[d] /\ pc'[d] = pc[d] /\ Live(d)' = Live(d)
  BY <1>0, <1>1, <1>2 DEF CallTypes, Live, Queued
<1>4. class'[c] \notin HandleClasses /\ class'[c] \notin HandleWrites
      /\ class'[c] \notin {"commit", "rollback"}
  BY <1>0, <1>1 DEF CallTypes, HandleWrites, HandleClasses
<1>5. \A d \in Callers :
         /\ class'[d] \in HandleClasses => kind' # "none"
         /\ class'[d] \in HandleWrites => pc'[d] # "backoff"
  BY <1>1, <1>3, <1>4 DEF HandlePart
<1>6. kind' = "kv" =>
         \A x, d \in Callers :
           class'[x] \in {"commit", "rollback"} =>
             /\ ~open'
             /\ class'[d] \in {"commit", "rollback"} => x = d
  BY <1>1, <1>3, <1>4 DEF HandlePart
<1>7. ASSUME ~untold' PROVE InItsSession'
  <2>1. InItsSession
    BY <1>1, <1>7 DEF HandlePart
  <2>2. \A d \in Callers : class'[d] \in HandleWrites =>
           pc'[d] # "ready" /\ (Live(d)' => begun' = sess')
    BY <1>1, <1>3, <1>4, <2>1 DEF InItsSession
  <2>3. ASSUME NEW i \in DOMAIN chain', class'[chain'[i].caller] \in HandleWrites
        PROVE  chain'[i].for = begun'
    <3>1. chain[i] \in Frames
      BY <1>0, <1>1, <2>3, ElementOfSeq, LenProperties DEF SessionTypes
    <3>2. class[chain[i].caller] \in HandleWrites
      BY <1>1, <1>3, <1>4, <2>3, <3>1 DEF Frames
    <3> QED
      BY <1>1, <2>1, <3>2 DEF InItsSession
  <2>4. \A d \in wire' : class'[d] \in HandleWrites => begun' = sess'
    BY <1>0, <1>1, <1>3, <1>4, <2>1 DEF InItsSession, SessionTypes
  <2>5. open' => conn' = "up" /\ begun' = sess'
    BY <1>1, <2>1 DEF InItsSession
  <2> QED
    BY <2>2, <2>3, <2>4, <2>5 DEF InItsSession
<1>8. /\ kind' = "none" => ~open'
      /\ granted' # "none" => kind' = "none" /\ begun' = sess'
  BY <1>1 DEF HandlePart
<1> QED
  BY <1>5, <1>6, <1>7, <1>8 DEF HandlePart

\* What the broker gets of a handle's writes, it gets in the handle's session.
LEMMA WriteKeepsHandlePart ==
    ASSUME TypePart, HandlePart, chain # <<>>, NEW v \in Verdicts(Head(chain)),
           Deliver(Head(chain), v), chain' = Tail(chain),
           UNCHANGED <<session, kind, begun, grant, class>>,
           open' => open /\ (untold \/ conn' = "up"),
           \A d \in Callers : class[d] \in HandleWrites =>
             pc'[d] \notin Barred /\ (Live(d)' => Live(d))
    PROVE  HandlePart'
<1>0. SessionTypes /\ UNCHANGED <<sess, granted, untold>>
  BY TypePartSplit DEF session, grant
<1>1. /\ Head(chain) = chain[1] /\ 1 \in DOMAIN chain
      /\ \A i \in DOMAIN chain' : i + 1 \in DOMAIN chain /\ chain'[i] = chain[i + 1]
  BY <1>0, ChainRest DEF SessionTypes
<1>2. \A d \in Callers :
         /\ class'[d] \in HandleClasses => kind' # "none"
         /\ class'[d] \in HandleWrites => pc'[d] # "backoff"
  BY DEF HandlePart, Barred
<1>3. kind' = "kv" =>
         \A c, d \in Callers :
           class'[c] \in {"commit", "rollback"} =>
             /\ ~open'
             /\ class'[d] \in {"commit", "rollback"} => c = d
  BY DEF HandlePart
<1>4. ASSUME ~untold' PROVE InItsSession'
  <2>1. ~untold /\ InItsSession
    BY <1>0, <1>4 DEF HandlePart
  <2>2. open' => conn' = "up" /\ begun' = sess'
    BY <1>0, <2>1 DEF InItsSession
  <2>3. \A d \in Callers : class'[d] \in HandleWrites =>
           pc'[d] # "ready" /\ (Live(d)' => begun' = sess')
    BY <1>0, <2>1 DEF InItsSession, Barred
  <2>4. \A k \in DOMAIN chain' : class'[chain'[k].caller] \in HandleWrites => chain'[k].for = begun'
    BY <1>1, <2>1 DEF InItsSession
  <2>5. ASSUME NEW c \in wire', class'[c] \in HandleWrites PROVE begun' = sess'
    <3>1. CASE v = "lost"
      BY <1>0, <2>1, <2>5, <3>1 DEF InItsSession, Deliver
    <3>2. CASE v # "lost"
      <4>1. c = Head(chain).caller
        BY <2>5, <3>2 DEF Deliver
      <4>2. Head(chain).for = sess
        BY <3>2 DEF Verdicts, Carrier
      <4> QED
        BY <1>0, <1>1, <2>1, <2>5, <4>1, <4>2 DEF InItsSession
    <3> QED
      BY <3>1, <3>2
  <2> QED
    BY <2>2, <2>3, <2>4, <2>5 DEF InItsSession
<1>5. /\ kind' = "none" => ~open'
      /\ granted' # "none" => kind' = "none" /\ begun' = sess'
  BY <1>0 DEF HandlePart
<1> QED
  BY <1>2, <1>3, <1>4, <1>5 DEF HandlePart

\* Every step keeps the handle and its writes in their session.
LEMMA HandleStep ==
    ASSUME TypePart, GatePart, OncePart, HandlePart, PNext
    PROVE  HandlePart'
<1>0. CallTypes /\ SessionTypes
  BY TypePartSplit
<1>w. \A c \in Callers : class[c] \in HandleWrites =>
         pc[c] \notin Barred /\ class[c] # "handleRead" /\ class[c] # "publish"
  BY DEF HandlePart, InItsSession, Barred, HandleWrites, HandleClasses
<1>b. \A x : x \notin {"ready", "backoff"} => x \notin Barred
  BY DEF Barred
<1>1. ASSUME NEW c \in Callers, NEW k \in Classes(c), MakeCall(c, k) PROVE HandlePart'
  BY <1>1, HandleCallKeepsHandlePart, OtherCallKeepsHandlePart DEF MakeCall
<1>2. ASSUME NEW c \in Callers, NEW e, AttemptFails(c, e), UNCHANGED vars \/ ReleaseSlot(c),
             UNCHANGED <<conn, session, handle, chain, wire, class>>
      PROVE  HandlePart'
  <2>1. /\ pc'[c] = "done" \/ (pc'[c] = "backoff" /\ class[c] \notin HandleWrites)
        /\ \A d \in Callers \ {c} : pc'[d] = pc[d]
    BY <1>2, <1>w, <1>b, RetriedIsHarmless
  <2>2. \A d \in Callers : class[d] \in HandleWrites =>
           pc'[d] \notin Barred /\ (Live(d)' => Live(d))
    BY <1>2, <1>w, <1>b, <2>1, LiveUntouched, LiveReleased
  <2>3. UNCHANGED <<session, kind, begun, grant, chain, wire, class>> /\ (open' => open /\ (untold \/ conn' = "up"))
    BY <1>2 DEF handle, HandlePart, InItsSession
  <2> QED
    BY <2>2, <2>3, MoveKeepsHandlePart
<1>3. ASSUME NEW c \in Callers, NEW x, UNCHANGED vars, pc' = [pc EXCEPT ![c] = x],
             x \notin {"woken", "gate", "ready", "backoff"},
             UNCHANGED <<conn, session, handle, chain, wire, class>>
      PROVE  HandlePart'
  <2>1. pc'[c] = x /\ \A d \in Callers \ {c} : pc'[d] = pc[d]
    BY <1>0, <1>3 DEF CallTypes
  <2>2. \A d \in Callers : class[d] \in HandleWrites =>
           pc'[d] \notin Barred /\ (Live(d)' => Live(d))
    BY <1>3, <1>w, <1>b, <2>1, LiveUntouched
  <2>3. UNCHANGED <<session, kind, begun, grant, chain, wire, class>> /\ (open' => open /\ (untold \/ conn' = "up"))
    BY <1>3 DEF handle, HandlePart, InItsSession
  <2> QED
    BY <2>2, <2>3, MoveKeepsHandlePart
<1>4. ASSUME NEW c \in Callers, BackoffAborted(c) \/ \E e \in {"connection", "abort"} : ReadyGivesUp(c, e)
      PROVE  HandlePart'
  BY <1>3, <1>4 DEF BackoffAborted, ReadyGivesUp
<1>5. ASSUME NEW c \in Callers, Retry(c) PROVE HandlePart'
  <2>1. pc[c] = "backoff" /\ UNCHANGED <<vars, conn, session, class, handle, chain, wire>>
    BY <1>5 DEF Retry
  <2>2. \A d \in Callers \ {c} : pc'[d] = pc[d]
    BY <1>0, <1>5 DEF Retry, WaitForReady, CallTypes
  <2>3. \A d \in Callers : class[d] \in HandleWrites =>
           pc'[d] \notin Barred /\ (Live(d)' => Live(d))
    BY <1>w, <2>1, <2>2, LiveUntouched DEF Barred
  <2>4. UNCHANGED <<session, kind, begun, grant, chain, wire, class>> /\ (open' => open /\ (untold \/ conn' = "up"))
    BY <2>1 DEF handle, HandlePart, InItsSession
  <2> QED
    BY <2>3, <2>4, MoveKeepsHandlePart
<1>6. ASSUME NEW c \in Callers, Woken(c) PROVE HandlePart'
  <2>1. pc[c] = "woken" /\ UNCHANGED <<conn, session, handle, chain, wire, class>>
    BY <1>6 DEF Woken
  <2>2. CASE AttemptFails(c, "connection") /\ UNCHANGED vars
    BY <1>2, <2>1, <2>2
  <2>3. CASE (AcquireGranted(c) \/ AcquireQueued(c)) /\ pc' = [pc EXCEPT ![c] = "gate"]
    <3>1. \A d \in Callers : Live(d)' => Live(d)
      BY <2>1, <2>3, LiveAcquired
    <3>2. \A d \in Callers : class[d] \in HandleWrites => pc'[d] \notin Barred
      BY <1>0, <1>w, <1>b, <2>3 DEF CallTypes
    <3>3. UNCHANGED <<session, kind, begun, grant, chain, wire, class>> /\ (open' => open /\ (untold \/ conn' = "up"))
      BY <2>1 DEF handle, HandlePart, InItsSession
    <3> QED
      BY <3>1, <3>2, <3>3, MoveKeepsHandlePart
  <2> QED
    BY <1>6, <2>2, <2>3 DEF Woken
<1>7. ASSUME NEW c \in Callers, Rejected(c) \/ \E e \in {"timeout", "abort"} : GiveUp(c, e)
      PROVE  HandlePart'
  BY <1>2, <1>7 DEF Rejected, GiveUp
<1>8. ASSUME NEW c \in Callers, GateRejects(c) PROVE HandlePart'
  <2>1. /\ status' = [status EXCEPT ![c] = "idle"] /\ queue' = queue
        /\ UNCHANGED <<conn, session, handle, chain, wire, class>>
    BY <1>8 DEF GateRejects
  <2>2. PICK e : AttemptFails(c, e)
    BY <1>8 DEF GateRejects
  <2>3. /\ pc'[c] = "done" \/ (pc'[c] = "backoff" /\ class[c] \notin HandleWrites)
        /\ \A d \in Callers \ {c} : pc'[d] = pc[d]
    BY <1>w, <1>b, <2>2, RetriedIsHarmless
  <2>4. \A d \in Callers : status'[d] = "held" => status[d] = "held"
    BY <2>1 DEF TypePart, PTypeOK, TypeOK
  <2>5. \A d \in Callers : class[d] \in HandleWrites =>
           pc'[d] \notin Barred /\ (Live(d)' => Live(d))
    BY <1>w, <1>b, <2>1, <2>3, <2>4 DEF Live, Queued
  <2>6. UNCHANGED <<session, kind, begun, grant, chain, wire, class>> /\ (open' => open /\ (untold \/ conn' = "up"))
    BY <2>1 DEF handle, HandlePart, InItsSession
  <2> QED
    BY <2>5, <2>6, MoveKeepsHandlePart
<1>9. ASSUME NEW c \in Callers, Reply(c) PROVE HandlePart'
  <2>1. ReleaseSlot(c) /\ UNCHANGED <<conn, session, class, chain, wire>>
    BY <1>9 DEF Reply
  <2>2. CASE AttemptFails(c, "negative") /\ UNCHANGED handle
    BY <1>2, <2>1, <2>2
  <2>3. CASE CallSucceeds(c)
    <3>1. pc' = [pc EXCEPT ![c] = "done"] /\ (open' => open) /\ UNCHANGED <<kind, begun, grant>>
      BY <2>3 DEF CallSucceeds
    <3>2. pc'[c] = "done" /\ \A d \in Callers \ {c} : pc'[d] = pc[d]
      BY <1>0, <3>1 DEF CallTypes
    <3>3. \A d \in Callers : class[d] \in HandleWrites =>
             pc'[d] \notin Barred /\ (Live(d)' => Live(d))
      BY <1>w, <1>b, <2>1, <3>2, LiveReleased
    <3>4. open' => open /\ (untold \/ conn' = "up")
      BY <2>1, <3>1 DEF HandlePart, InItsSession
    <3> QED
      BY <2>1, <3>1, <3>3, <3>4, MoveKeepsHandlePart
  <2> QED
    BY <1>9, <2>2, <2>3 DEF Reply
<1>10. ASSUME NEW c \in Callers, Issue(c) PROVE HandlePart'
  <2>1. pc[c] = "gate" /\ status[c] = "held" /\ UNCHANGED <<conn, session, class, handle, wire>>
    BY <1>10 DEF Issue
  <2>2. CASE \E e : AttemptFails(c, e) /\ ReleaseSlot(c) /\ UNCHANGED chain
    BY <1>2, <2>1, <2>2
  <2>3. CASE chain' = Append(chain, Frame(c)) /\ pc' = [pc EXCEPT ![c] = "chain"] /\ UNCHANGED vars
    <3>1. chain \in Seq(Frames) /\ Frame(c) \in Frames
      BY <1>0, PathAssumption DEF SessionTypes, CallTypes, Frame, Frames
    <3>2. /\ Len(chain) \in Nat /\ DOMAIN chain = 1..Len(chain)
          /\ DOMAIN chain' = 1..(Len(chain) + 1)
          /\ \A i \in DOMAIN chain : chain'[i] = chain[i]
          /\ chain'[Len(chain) + 1] = Frame(c)
      BY <2>3, <3>1, AppendProperties, LenProperties
    <3>3. \A i \in DOMAIN chain' : i \in DOMAIN chain \/ i = Len(chain) + 1
      BY <3>2
    <3>4. pc'[c] = "chain" /\ \A d \in Callers \ {c} : pc'[d] = pc[d]
      BY <1>0, <2>3 DEF CallTypes
    <3>5. \A d \in Callers : class[d] \in HandleWrites =>
             pc'[d] \notin Barred /\ (Live(d)' => Live(d))
      BY <1>w, <1>b, <2>3, <3>4, LiveUntouched
    <3>6. UNCHANGED <<conn, sess, class, kind, open, begun, granted, untold, wire>>
      BY <2>1 DEF handle, session, grant
    <3>7. ASSUME ~untold' PROVE InItsSession'
      <4>1. ~untold /\ InItsSession
        BY <3>6, <3>7 DEF HandlePart
      <4>2. class[c] \in HandleWrites => begun = sess
        BY <2>1, <4>1 DEF InItsSession, Live
      <4>3. \A i \in DOMAIN chain' : class'[chain'[i].caller] \in HandleWrites => chain'[i].for = begun'
        BY <3>2, <3>3, <3>6, <4>1, <4>2 DEF InItsSession, Frame
      <4>4. \A d \in Callers : class'[d] \in HandleWrites =>
               pc'[d] # "ready" /\ (Live(d)' => begun' = sess')
        BY <3>5, <3>6, <4>1 DEF InItsSession, Barred
      <4> QED
        BY <3>6, <4>1, <4>3, <4>4 DEF InItsSession
    <3>8. \A d \in Callers : class'[d] \in HandleWrites => pc'[d] # "backoff"
      BY <3>5, <3>6 DEF Barred
    <3> QED
      BY <3>6, <3>7, <3>8 DEF HandlePart
  <2> QED
    BY <1>10, <2>2, <2>3 DEF Issue
<1>11. ASSUME NEW v, WriteSucceeds(v) PROVE HandlePart'
  <2> DEFINE f == Head(chain)
             c == f.caller
  <2>1. /\ chain # <<>> /\ v \in Verdicts(f) /\ Deliver(f, v) /\ chain' = Tail(chain)
        /\ UNCHANGED <<conn, session, class>>
    BY <1>11 DEF WriteSucceeds
  <2>2. c \in Callers
    BY <1>0, <2>1, ChainRest DEF SessionTypes
  <2>3. UNCHANGED <<kind, begun, grant>> /\ (open' => open)
    BY <1>11 DEF WriteSucceeds, CallSucceeds, handle
  <2>4. open' => open /\ (untold \/ conn' = "up")
    BY <2>1, <2>3 DEF HandlePart, InItsSession
  <2>5. \/ UNCHANGED <<vars, pc>>
        \/ UNCHANGED vars /\ pc' = [pc EXCEPT ![c] = "reply"]
        \/ ReleaseSlot(c) /\ pc' = [pc EXCEPT ![c] = "done"]
    BY <1>11 DEF WriteSucceeds, CallSucceeds
  <2>6. \A d \in Callers : class[d] \in HandleWrites =>
           pc'[d] \notin Barred /\ (Live(d)' => Live(d))
    <3>1. CASE UNCHANGED <<vars, pc>>
      BY <1>w, <1>b, <3>1, LiveUntouched
    <3>2. CASE UNCHANGED vars /\ pc' = [pc EXCEPT ![c] = "reply"]
      <4>1. pc'[c] = "reply" /\ \A d \in Callers \ {c} : pc'[d] = pc[d]
        BY <1>0, <2>2, <3>2 DEF CallTypes
      <4> QED
        BY <1>w, <1>b, <3>2, <4>1, LiveUntouched
    <3>3. CASE ReleaseSlot(c) /\ pc' = [pc EXCEPT ![c] = "done"]
      <4>1. pc'[c] = "done" /\ \A d \in Callers \ {c} : pc'[d] = pc[d]
        BY <1>0, <2>2, <3>3 DEF CallTypes
      <4> QED
        BY <1>w, <1>b, <2>2, <3>3, <4>1, LiveReleased
    <3> QED
      BY <2>5, <3>1, <3>2, <3>3
  <2> QED
    BY <2>1, <2>3, <2>4, <2>6, WriteKeepsHandlePart
<1>12. ASSUME NEW v, NEW e \in {"transport", "timeout"}, WriteFails(v, e) PROVE HandlePart'
  <2> DEFINE f == Head(chain)
             c == f.caller
  <2>1. /\ chain # <<>> /\ v \in Verdicts(f) /\ Deliver(f, v) /\ chain' = Tail(chain)
        /\ UNCHANGED <<session, class>>
    BY <1>12 DEF WriteFails
  <2>2. c \in Callers
    BY <1>0, <2>1, ChainRest DEF SessionTypes
  <2>3. CASE ~Pending(f)
    <3>1. UNCHANGED <<vars, conn, pc, handle>>
      BY <1>12, <2>3 DEF WriteFails
    <3>2. \A d \in Callers : class[d] \in HandleWrites =>
             pc'[d] \notin Barred /\ (Live(d)' => Live(d))
      BY <1>w, <1>b, <3>1, LiveUntouched
    <3>3. UNCHANGED <<kind, begun, grant>> /\ (open' => open /\ (untold \/ conn' = "up"))
      BY <3>1 DEF handle, HandlePart, InItsSession
    <3> QED
      BY <2>1, <3>2, <3>3, WriteKeepsHandlePart
  <2>4. CASE Pending(f) /\ (e = "timeout" \/ ~IsLoss(f))
    <3>1. AttemptFails(c, e) /\ ReleaseSlot(c) /\ UNCHANGED <<conn, handle>>
      BY <1>12, <2>4 DEF WriteFails
    <3>2. /\ pc'[c] = "done" \/ (pc'[c] = "backoff" /\ class[c] \notin HandleWrites)
          /\ \A d \in Callers \ {c} : pc'[d] = pc[d]
      BY <1>w, <1>b, <2>2, <3>1, RetriedIsHarmless
    <3>3. \A d \in Callers : class[d] \in HandleWrites =>
             pc'[d] \notin Barred /\ (Live(d)' => Live(d))
      BY <1>w, <1>b, <2>2, <3>1, <3>2, LiveReleased
    <3>4. UNCHANGED <<kind, begun, grant>> /\ (open' => open /\ (untold \/ conn' = "up"))
      BY <3>1 DEF handle, HandlePart, InItsSession
    <3> QED
      BY <2>1, <3>3, <3>4, WriteKeepsHandlePart
  <2>5. CASE Pending(f) /\ ~(e = "timeout" \/ ~IsLoss(f))
    <3>1. SessionEnds({c}, "down")
      BY <1>12, <2>5 DEF WriteFails
    <3>2. \A d \in Callers : d # c => pc'[d] = IF d \in Registered \ {c} THEN "rejected" ELSE pc[d]
      BY <1>12, <2>5 DEF WriteFails
    <3>3. pc'[c] = IF ShouldRetryOperation(class[c], e) /\ attempt[c] < MaxAttempts
                   THEN "backoff" ELSE "done"
      BY <1>12, <2>2, <2>5 DEF WriteFails
    <3>4. pc'[c] \in {"done", "backoff"} /\ (class[c] = "handleRead" \/ pc'[c] = "done")
      BY <3>3 DEF ShouldRetryOperation
    <3>5. ASSUME NEW d \in Callers
          PROVE  Live(d)' => Live(d)
      <4>1. pc'[d] = pc[d] \/ pc'[d] \notin {"woken", "gate"}
        BY <3>2, <3>4
      <4> QED
        BY <2>2, <3>1, <4>1, LiveAtLoss
    <3>6. \A d \in Callers : class[d] \in HandleWrites => pc'[d] \notin Barred
      BY <1>w, <1>b, <3>2, <3>4
    <3>7. UNCHANGED <<kind, begun, grant>> /\ open' = FALSE
      BY <3>1 DEF SessionEnds, HandleDisconnected
    <3> QED
      BY <2>1, <3>5, <3>6, <3>7, WriteKeepsHandlePart
  <2> QED
    BY <2>3, <2>4, <2>5
<1>13. CASE Lose \/ CloseConnection
  <2>1. PICK n : SessionEnds({}, n)
    BY <1>13 DEF Lose, CloseConnection
  <2>2. \A d \in Callers : pc'[d] \in {pc[d], "rejected"}
    BY <1>13 DEF Lose, CloseConnection
  <2>3. \A d \in Callers : Live(d)' => Live(d)
    BY <2>1, <2>2, LiveAtLoss
  <2>4. UNCHANGED <<session, kind, begun, grant, chain, wire, class>> /\ open' = FALSE
    BY <1>13 DEF Lose, CloseConnection, SessionEnds, HandleDisconnected
  <2> QED
    BY <1>w, <1>b, <2>2, <2>3, <2>4, MoveKeepsHandlePart
<1>14. CASE NewSession
  <2>1. /\ conn = "down" /\ Settled /\ NewGate /\ wire' = {}
        /\ UNCHANGED <<pc, class, kind, open, begun, granted, untold, chain>>
    BY <1>14 DEF NewSession, handle, grant
  <2>2. GateInv /\ closed /\ \A d \in Callers : status[d] = "waiting" => d \in aborted \/ Queued(d)
    BY <2>1 DEF GatePart
  <2>3. \A d \in Callers : status'[d] # "held" /\ ~Queued(d)'
    BY <2>1, <2>2, NewGateEffect
  <2>4. \A d \in Callers : ~Live(d)'
    BY <2>1, <2>3 DEF Live, Settled
  <2>5. granted' = "none"
    BY <2>1 DEF Settled
  <2>6. ASSUME ~untold' PROVE InItsSession'
    <3>1. InItsSession
      BY <2>1, <2>6 DEF HandlePart
    <3> QED
      BY <2>1, <2>4, <3>1 DEF InItsSession
  <2> QED
    BY <2>1, <2>5, <2>6 DEF HandlePart
<1>15. CASE Restored
  <2>1. /\ UNCHANGED vars /\ conn = "restoring"
        /\ UNCHANGED <<session, kind, open, begun, grant, chain, wire, class>>
        /\ \A d \in Callers : pc'[d] = IF pc[d] = "ready" THEN "woken" ELSE pc[d]
    BY <1>15 DEF Restored, handle
  <2>2. \A d \in Callers : class[d] \in HandleWrites =>
           pc'[d] \notin Barred /\ (untold \/ (Live(d)' => Live(d)))
    BY <1>w, <2>1, LiveUntouched DEF Barred
  <2>3. ~open \/ untold
    BY <2>1 DEF HandlePart, InItsSession
  <2> QED
    BY <2>1, <2>2, <2>3, MoveKeepsHandlePart
<1>16. CASE GateAbort
  <2>1. UNCHANGED <<conn, session, pc, kind, open, begun, grant, chain, wire, class>>
    BY <1>16 DEF GateAbort, pathVars, handle
  <2>2. \A d \in Callers : Live(d)' => Live(d)
    BY <1>16, LiveAborted
  <2>3. open' => open /\ (untold \/ conn' = "up")
    BY <2>1 DEF HandlePart, InItsSession
  <2> QED
    BY <1>w, <1>b, <2>1, <2>2, <2>3, MoveKeepsHandlePart
<1>17. CASE HandleMade
  <2>1. UNCHANGED <<conn, sess, pc, class, chain, wire>>
    BY <1>17, HandleMadeEffect
  <2>2. /\ kind = "none"
        /\ \/ \E k \in {"kv", "stream", "item"} :
                 granted = k /\ granted' = "none" /\ kind' = k /\ untold' = (conn # "up") /\ begun' = begun
           \/ /\ begun' = sess /\ granted' # "none" /\ UNCHANGED <<kind, open, untold>>
    BY <1>17 DEF HandleMade, KvBegin, StreamBegin, ReserveItem, MakeHandle, Granted, HandlePart
  <2>3. \A c \in Callers : class[c] \notin HandleClasses /\ class[c] \notin HandleWrites
                           /\ class[c] \notin {"commit", "rollback"}
    BY <2>2 DEF HandlePart, HandleWrites, HandleClasses
  <2>4. \A i \in DOMAIN chain : chain[i].caller \in Callers
    <3>1. \A i \in DOMAIN chain : chain[i] \in Frames
      BY <1>0, ElementOfSeq, LenProperties DEF SessionTypes
    <3> QED
      BY <3>1 DEF Frames
  <2>5. wire \subseteq Callers
    BY <1>0 DEF SessionTypes
  <2>6. ~untold' => (open' => conn' = "up" /\ begun' = sess')
    BY <2>1, <2>2 DEF HandlePart
  <2>7. ~untold' => InItsSession'
    BY <2>1, <2>3, <2>4, <2>5, <2>6 DEF InItsSession
  <2>8. /\ kind' = "none" => ~open'
        /\ granted' # "none" => kind' = "none" /\ begun' = sess'
    BY <2>1, <2>2 DEF HandlePart
  <2> QED
    BY <2>1, <2>3, <2>7, <2>8 DEF HandlePart
<1> QED
  BY <1>1, <1>4, <1>5, <1>6, <1>7, <1>8, <1>9, <1>10, <1>11, <1>12, <1>13, <1>14, <1>15, <1>16, <1>17
     DEF PNext, WriteEnds, Progress, HandleMade

--------------------------------------------------------------------------------
(* The theorems *)

\* The client starts with a session, an empty gate and nothing on the chain.
LEMMA PathInit == PInit => PathInv
<1> SUFFICES ASSUME PInit PROVE PathInv
  OBVIOUS
<1>1. GateInv
  BY GateInit DEF PInit
<1>2. DOMAIN chain = {} /\ chain \in Seq(Frames)
  BY EmptySeq DEF PInit
<1>3. TypePart
  <2>1. CallTypes
    BY PathAssumption DEF PInit, CallTypes
  <2>2. SessionTypes
    <3>1. 1 \in 1..MaxSessions /\ 0 \in 0..MaxSessions
      BY PathAssumption
    <3>2. effects \in [Callers -> Nat] /\ wire \subseteq Callers /\ past \subseteq Callers
      BY DEF PInit
    <3>3. open \in BOOLEAN /\ untold \in BOOLEAN
      BY DEF PInit
    <3> QED
      BY <1>2, <3>1, <3>2, <3>3 DEF PInit, SessionTypes
  <2> QED
    BY <1>1, <2>1, <2>2, TypePartSplit DEF GateInv
<1>4. GatePart
  BY <1>1 DEF PInit, Init, GatePart
<1>5. ReadyPart
  BY FS_EmptySet, BoundsAssumption DEF PInit, ReadyPart
<1>6. ChainPart
  BY DEF PInit, ChainPart
<1>7. OncePart
  BY <1>2 DEF PInit, OncePart, WriteOnce, OnChain
<1>8. HandlePart
  BY <1>2 DEF PInit, HandlePart, InItsSession, HandleClasses, HandleWrites
<1> QED
  BY <1>3, <1>4, <1>5, <1>6, <1>7, <1>8 DEF PathInv

\* Every step preserves the invariant.
LEMMA PathNext == PathInv /\ [PNext]_pvars => PathInv'
<1>1. ASSUME PathInv, PNext PROVE PathInv'
  BY <1>1, TypeStep, GateStep, ReadyStep, ChainStep, OnceStep, HandleStep DEF PathInv
<1>2. ASSUME PathInv, UNCHANGED pvars PROVE PathInv'
  <2>1. UNCHANGED vars /\ UNCHANGED <<conn, sess, past, pc, class, attempt, err, kind, open, begun,
                                      granted, untold, waitSlots, chain, answer, wire, effects>>
    BY <1>2 DEF pvars, pathVars, handle, session, grant
  <2>2. GateInv' /\ \A c : Queued(c)' = Queued(c)
    BY <1>2, <2>1, GateUntouched DEF PathInv, GatePart
  <2>3. TypePart'
    BY <1>2, <2>1, <2>2 DEF PathInv, TypePart, PTypeOK, GateInv
  <2>4. GatePart'
    BY <1>2, <2>1, <2>2 DEF PathInv, GatePart, vars
  <2>5. ReadyPart' /\ ChainPart'
    BY <1>2, <2>1 DEF PathInv, ReadyPart, ChainPart
  <2>6. OncePart'
    BY <1>2, <2>1 DEF PathInv, OncePart, WriteOnce, OnChain, Outdated
  <2>7. HandlePart'
    BY <1>2, <2>1, <2>2 DEF PathInv, HandlePart, InItsSession, Live, vars
  <2> QED
    BY <2>3, <2>4, <2>5, <2>6, <2>7 DEF PathInv
<1> QED
  BY <1>1, <1>2

\* The inductive invariant holds in every reachable state of the request path.
THEOREM PathCorrect == PathSpec => []PathInv
BY PathInit, PathNext, PTL DEF PathSpec

\* The variables of the request path keep their types.
THEOREM PathTypeCorrect == PathSpec => []PTypeOK
<1>1. PathInv => PTypeOK
  BY DEF PathInv, TypePart
<1> QED
  BY PathCorrect, <1>1, PTL

\* Whatever timeouts, losses, retries and late writes do, the broker executes a write
\* at most once per call: shouldRetryOperation() repeats only what was refused.
THEOREM PathWritesAtMostOnce == PathSpec => []WritesAtMostOnce
<1>1. PathInv => WritesAtMostOnce
  BY DEF PathInv, OncePart, WriteOnce, WritesAtMostOnce
<1> QED
  BY PathCorrect, <1>1, PTL

\* Every way out of an attempt gives back its slot of the gate and of the readiness
\* counter, and the counter keeps to its limit.
THEOREM PathSlotsBelongToAttempts == PathSpec => []SlotsBelongToAttempts
<1>1. PathInv => SlotsBelongToAttempts
  BY DEF PathInv, GatePart, ReadyPart, UnderWay, Held, SlotsBelongToAttempts
<1> QED
  BY PathCorrect, <1>1, PTL

\* What was issued before a session has no effect in it: sendSerialized() writes a frame
\* that is left on the chain to the transport of its admission, and nothing is issued
\* again that the broker may have executed.
THEOREM PathNoLateEffects == PathSpec => NoLateEffects
<1> DEFINE Spared == \A c \in past : effects'[c] = effects[c]
<1>1. ASSUME PathInv, [PNext]_pvars PROVE Spared
  <2> SUFFICES ASSUME NEW c \in past PROVE effects'[c] = effects[c]
    OBVIOUS
  <2>1. SessionTypes /\ OncePart /\ c \in Callers
    BY <1>1, TypePartSplit DEF PathInv, SessionTypes
  <2>2. ASSUME chain # <<>>, NEW v \in Verdicts(Head(chain)), Deliver(Head(chain), v)
        PROVE  effects'[c] = effects[c]
    <3>1. Head(chain) = chain[1] /\ Head(chain) \in Frames /\ 1 \in DOMAIN chain
      BY <2>1, <2>2, ChainRest DEF SessionTypes
    <3>2. CASE Head(chain).caller # c
      BY <2>1, <2>2, <3>1, <3>2 DEF Deliver, Frames, SessionTypes
    <3>3. CASE Head(chain).caller = c /\ class[c] # "handleRead"
      <4>1. chain[1].for < sess
        BY <2>1, <3>1, <3>3 DEF OncePart, Outdated
      <4>2. v = "lost"
        BY <2>1, <2>2, <3>1, <4>1 DEF Verdicts, Carrier, SessionTypes, Frames
      <4> QED
        BY <2>2, <4>2 DEF Deliver
    <3>4. CASE Head(chain).caller = c /\ class[c] = "handleRead"
      BY <2>2, <3>4 DEF Deliver
    <3> QED
      BY <3>2, <3>3, <3>4
  <2>3. WriteEnds => effects'[c] = effects[c]
    BY <2>2 DEF WriteEnds, WriteSucceeds, WriteFails
  <2>4. ASSUME NEW d \in Callers, NEW k, MakeCall(d, k) PROVE UNCHANGED effects
    BY <2>4 DEF MakeCall, HandleCall, ClientCall, RestoreCall
  <2>5. ASSUME NEW d \in Callers, Progress(d) PROVE UNCHANGED effects
    BY <2>5 DEF Progress, Woken, GateRejects, Issue, Rejected, Retry, GiveUp, ReadyGivesUp
  <2>6. ASSUME NEW d \in Callers,
               Reply(d) \/ BackoffAborted(d) \/ GiveUp(d, "abort") \/ ReadyGivesUp(d, "abort")
        PROVE  UNCHANGED effects
    BY <2>6 DEF Reply, BackoffAborted, GiveUp, ReadyGivesUp
  <2>7. Lose \/ CloseConnection \/ NewSession \/ Restored \/ GateAbort => UNCHANGED effects
    BY DEF Lose, CloseConnection, NewSession, Restored, GateAbort, pathVars
  <2>8. HandleMade => UNCHANGED effects
    BY HandleMadeEffect
  <2>9. UNCHANGED pvars => UNCHANGED effects
    BY DEF pvars, pathVars
  <2> QED
    BY <1>1, <2>3, <2>4, <2>5, <2>6, <2>7, <2>8, <2>9 DEF PNext, HandleMade
<1>2. PathSpec => [][Spared]_pvars
  BY <1>1, PathCorrect, PTL DEF PathSpec
<1> QED
  BY <1>2 DEF NoLateEffects

\* What a handle writes stays in the session it was begun in, unless the handle was made
\* after the loss of that session; and a transaction is ended by one call at most.
THEOREM PathEndsOnceInItsSession == PathSpec => []EndsOnceInItsSession
<1>1. ASSUME PathInv PROVE EndsOnceInItsSession
  <2>1. \A c \in wire : class[c] \in HandleClasses \ {"handleRead"} => begun = sess \/ untold
    BY <1>1 DEF PathInv, HandlePart, InItsSession, HandleWrites
  <2>2. ASSUME kind = "kv"
        PROVE  Cardinality({c \in Callers : class[c] \in {"commit", "rollback"} /\ effects[c] > 0}) <= 1
    <3> DEFINE E == {c \in Callers : class[c] \in {"commit", "rollback"} /\ effects[c] > 0}
    <3>1. \A c, d \in E : c = d
      BY <1>1, <2>2 DEF PathInv, HandlePart
    <3> HIDE DEF E
    <3>2. CASE E = {}
      BY <3>2, FS_EmptySet DEF E
    <3>3. CASE E # {}
      <4>1. PICK c \in E : TRUE
        BY <3>3
      <4>2. E = {c}
        BY <3>1, <4>1
      <4>3. Cardinality(E) = 1
        BY <4>2, FS_Singleton
      <4> QED
        BY <4>3 DEF E
    <3> QED
      BY <3>2, <3>3
  <2> QED
    BY <2>1, <2>2 DEF EndsOnceInItsSession
<1>2. PathInv => EndsOnceInItsSession
  BY <1>1
<1> QED
  BY PathCorrect, <1>2, PTL

\* Also across sessions, nobody waits at the gate of the current one while it has a
\* free slot.
THEOREM PathWorkConserving == PathSpec => []WorkConserving
<1>1. PathInv => WorkConserving
  BY DEF PathInv, GatePart, GateInv
<1> QED
  BY PathCorrect, <1>1, PTL

\* Nobody waits for what will not happen: a waiter for readiness has a connection that
\* may become ready, a waiter at the gate a holder that is under way, a writer its frame.
THEOREM PathWaitersHaveACause == PathSpec => []WaitersHaveACause
<1>1. ASSUME PathInv PROVE WaitersHaveACause
  <2> SUFFICES ASSUME NEW c \in Callers
               PROVE  /\ pc[c] = "ready" => conn \in {"down", "restoring"}
                      /\ pc[c] = "gate" /\ status[c] = "waiting" =>
                            \/ c \in aborted
                            \/ /\ \E i \in DOMAIN queue : queue[i] = c
                               /\ \E h \in Held : pc[h] \in {"gate", "chain", "reply", "rejected"}
                      /\ pc[c] = "chain" =>
                            \E i \in DOMAIN chain : chain[i].caller = c /\ chain[i].attempt = attempt[c]
    BY DEF WaitersHaveACause
  <2>1. pc[c] = "ready" => conn \in {"down", "restoring"}
    BY <1>1 DEF PathInv, ReadyPart
  <2>2. pc[c] = "chain" =>
           \E i \in DOMAIN chain : chain[i].caller = c /\ chain[i].attempt = attempt[c]
    BY <1>1 DEF PathInv, ChainPart
  <2>3. ASSUME status[c] = "waiting", c \notin aborted
        PROVE  /\ \E i \in DOMAIN queue : queue[i] = c
               /\ \E h \in Held : pc[h] \in {"gate", "chain", "reply", "rejected"}
    <3>1. GateInv /\ \E i \in DOMAIN queue : queue[i] = c
      BY <1>1, <2>3 DEF PathInv, GatePart, Queued
    <3>2. queue # <<>>
      BY <3>1, EmptySeq
    <3>3. activeCount = MaxConcurrency /\ activeCount = Cardinality(Held)
      BY <3>1, <3>2 DEF GateInv, ClosedDrains, WorkConserving, SlotAccounting
    <3>4. PICK h \in Held : TRUE
      BY <3>3, FS_EmptySet, BoundsAssumption
    <3>5. h \in Callers /\ status[h] = "held"
      BY <3>4 DEF Held
    <3>6. pc[h] \in {"gate", "chain", "reply", "rejected"}
      BY <1>1, <3>5 DEF PathInv, GatePart, UnderWay
    <3> QED
      BY <3>1, <3>4, <3>6
  <2> QED
    BY <2>1, <2>2, <2>3
<1>2. PathInv => WaitersHaveACause
  BY <1>1
<1> QED
  BY PathCorrect, <1>2, PTL
================================================================================
