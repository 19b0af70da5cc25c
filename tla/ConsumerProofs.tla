----------------------------- MODULE ConsumerProofs -----------------------------
(***************************************************************************)
(* Proofs about HandlerDispatcher and Consumer, for every set of tasks,    *)
(* every number of slots and of queue places, every number of items and of *)
(* lost sessions.                                                          *)
(***************************************************************************)
EXTENDS Consumer, FiniteSetTheorems, SequenceTheorems, TLAPS

\* x occurs in the sequence s.
Occurs(x, s) == \E i \in DOMAIN s : s[i] = x

\* No two places of s hold the same thing.
NoRepeats(s) == \A i, j \in DOMAIN s : s[i] = s[j] => i = j

\* QueueOnlyWhenBusy, task by task.
QueuePart ==
    /\ \A t \in Tasks : Occurs(t, queue) <=> status[t] = "queued"
    /\ NoRepeats(queue)
    /\ queue # <<>> => activeCount = Concurrency /\ ~ closed

\* The dispatcher's inductive invariant: that drain() leaves nothing running
\* rests on the queue being empty once the dispatcher is closed, and the queue
\* is only right together with the count of slots.
DispatchInv ==
    /\ TypeOK
    /\ SlotsAreHandlers
    /\ QueuePart
    /\ DrainedIsQuiet
    /\ ReportedOnce

--------------------------------------------------------------------------------
(* What the actions do to the set of running handlers *)

\* Any set of tasks is finite and has a natural number of members.
LEMMA TasksSubset ==
    ASSUME NEW S \in SUBSET Tasks
    PROVE  IsFiniteSet(S) /\ Cardinality(S) \in Nat
BY DispatcherAssumption, FS_Subset, FS_CardinalityType

\* A task that is started adds one to the running handlers.
LEMMA RunnerAdded ==
    ASSUME TypeOK, NEW t \in Tasks, status[t] # "running",
           status' = [status EXCEPT ![t] = "running"]
    PROVE  Cardinality(Running') = Cardinality(Running) + 1
<1>1. Running' = Running \cup {t}
  BY DEF TypeOK, Running
<1>2. Running \in SUBSET Tasks /\ t \notin Running
  BY DEF Running
<1> QED
  BY <1>1, <1>2, TasksSubset, FS_AddElement

\* A task that ends takes one from the running handlers.
LEMMA RunnerRemoved ==
    ASSUME TypeOK, NEW t \in Tasks, status[t] = "running",
           status' = [status EXCEPT ![t] = "ended"]
    PROVE  Cardinality(Running') = Cardinality(Running) - 1
<1>1. Running' = Running \ {t}
  BY DEF TypeOK, Running
<1>2. Running \in SUBSET Tasks /\ t \in Running
  BY DEF Running
<1> QED
  BY <1>1, <1>2, TasksSubset, FS_RemoveElement

\* A slot that the next task takes over leaves their number as it is.
LEMMA RunnerReplaced ==
    ASSUME TypeOK, NEW t \in Tasks, NEW u \in Tasks,
           status[t] = "running", status[u] # "running",
           status' = [status EXCEPT ![t] = "ended", ![u] = "running"]
    PROVE  Cardinality(Running') = Cardinality(Running)
<1>1. Running' = (Running \ {t}) \cup {u}
  BY DEF TypeOK, Running
<1>2. Running \in SUBSET Tasks /\ t \in Running /\ u \notin Running
  BY DEF Running
<1>3. /\ IsFiniteSet(Running \ {t})
      /\ Cardinality(Running \ {t}) = Cardinality(Running) - 1
  BY <1>2, TasksSubset, FS_RemoveElement
<1>4. Cardinality((Running \ {t}) \cup {u}) = Cardinality(Running \ {t}) + 1
  BY <1>2, <1>3, FS_AddElement
<1> QED
  BY <1>1, <1>2, <1>3, <1>4, TasksSubset

\* A step that starts and ends no task leaves the running handlers alone.
LEMMA RunnersUnchanged ==
    ASSUME \A t \in Tasks : status'[t] = "running" <=> status[t] = "running"
    PROVE  Running' = Running
BY DEF Running

--------------------------------------------------------------------------------
(* What the actions do to a sequence *)

\* What Append() makes of a sequence, element by element.
LEMMA AppendElements ==
    ASSUME NEW S, NEW q \in Seq(S), NEW e \in S
    PROVE  /\ Append(q, e) \in Seq(S)
           /\ Len(Append(q, e)) = Len(q) + 1
           /\ Len(q) \in Nat
           /\ DOMAIN q = 1..Len(q) /\ DOMAIN Append(q, e) = 1..(Len(q) + 1)
           /\ \A i \in 1..Len(q) : Append(q, e)[i] = q[i]
           /\ Append(q, e)[Len(q) + 1] = e
<1>1. Len(q) \in Nat /\ DOMAIN q = 1..Len(q)
  BY LenProperties
<1>2. /\ Append(q, e) \in Seq(S) /\ Len(Append(q, e)) = Len(q) + 1
      /\ \A i \in 1..Len(q) : Append(q, e)[i] = q[i]
      /\ Append(q, e)[Len(q) + 1] = e
  BY AppendProperties
<1>3. DOMAIN Append(q, e) = 1..(Len(q) + 1)
  BY <1>2, LenProperties
<1> QED
  BY <1>1, <1>2, <1>3

\* What Head() and Tail() make of a sequence that is not empty.
LEMMA TailElements ==
    ASSUME NEW S, NEW q \in Seq(S), q # <<>>
    PROVE  /\ Head(q) = q[1] /\ q[1] \in S
           /\ Tail(q) \in Seq(S)
           /\ Len(q) \in Nat \ {0}
           /\ Len(Tail(q)) = Len(q) - 1
           /\ DOMAIN q = 1..Len(q) /\ DOMAIN Tail(q) = 1..(Len(q) - 1)
           /\ \A i \in 1..(Len(q) - 1) : Tail(q)[i] = q[i + 1]
<1>1. Len(q) \in Nat /\ DOMAIN q = 1..Len(q) /\ Len(q) # 0
  BY LenProperties, EmptySeq
<1>2. Head(q) = q[1] /\ q[1] \in S /\ Tail(q) \in Seq(S) /\ Len(Tail(q)) = Len(q) - 1
      /\ \A i \in 1..(Len(q) - 1) : Tail(q)[i] = q[i + 1]
  BY <1>1, HeadTailProperties, ElementOfSeq
<1>3. DOMAIN Tail(q) = 1..(Len(q) - 1)
  BY <1>2, LenProperties
<1> QED
  BY <1>1, <1>2, <1>3

\* What appending does to the members: the new one is there as well.
LEMMA OccursAppend ==
    ASSUME NEW S, NEW q \in Seq(S), NEW e \in S
    PROVE  /\ \A x : Occurs(x, Append(q, e)) <=> Occurs(x, q) \/ x = e
           /\ NoRepeats(q) /\ ~ Occurs(e, q) => NoRepeats(Append(q, e))
<1> DEFINE a == Append(q, e)
<1>1. /\ Len(q) \in Nat /\ DOMAIN q = 1..Len(q) /\ DOMAIN a = 1..(Len(q) + 1)
      /\ \A i \in 1..Len(q) : a[i] = q[i]
      /\ a[Len(q) + 1] = e
  BY AppendElements
<1> HIDE DEF a
<1>2. \A x : Occurs(x, a) <=> Occurs(x, q) \/ x = e
  <2>1. ASSUME NEW x, Occurs(x, a) PROVE Occurs(x, q) \/ x = e
    <3>1. PICK i \in 1..(Len(q) + 1) : a[i] = x
      BY <1>1, <2>1 DEF Occurs
    <3>2. i \in 1..Len(q) \/ i = Len(q) + 1
      BY <1>1
    <3> QED
      BY <1>1, <3>1, <3>2 DEF Occurs
  <2>2. ASSUME NEW x, Occurs(x, q) PROVE Occurs(x, a)
    <3>1. PICK i \in 1..Len(q) : q[i] = x
      BY <1>1, <2>2 DEF Occurs
    <3>2. i \in 1..(Len(q) + 1) /\ a[i] = x
      BY <1>1, <3>1
    <3> QED
      BY <1>1, <3>2 DEF Occurs
  <2>3. Occurs(e, a)
    <3>1. Len(q) + 1 \in DOMAIN a
      BY <1>1
    <3> QED
      BY <1>1, <3>1 DEF Occurs
  <2> QED
    BY <2>1, <2>2, <2>3
<1>3. ASSUME NoRepeats(q), ~ Occurs(e, q) PROVE NoRepeats(a)
  <2>1. \A i \in 1..Len(q) : q[i] # e
    BY <1>1, <1>3 DEF Occurs
  <2>2. \A i, j \in 1..Len(q) : q[i] = q[j] => i = j
    BY <1>1, <1>3 DEF NoRepeats
  <2>3. \A i \in 1..(Len(q) + 1) : i \in 1..Len(q) \/ i = Len(q) + 1
    BY <1>1
  <2> QED
    BY <1>1, <2>1, <2>2, <2>3 DEF NoRepeats
<1> QED
  BY <1>2, <1>3 DEF a

\* What taking the head off does to the members: just that one is gone.
LEMMA OccursTail ==
    ASSUME NEW S, NEW q \in Seq(S), q # <<>>
    PROVE  /\ Occurs(Head(q), q) /\ Head(q) \in S
           /\ \A x : Occurs(x, q) <=> Occurs(x, Tail(q)) \/ x = Head(q)
           /\ NoRepeats(q) => NoRepeats(Tail(q)) /\ ~ Occurs(Head(q), Tail(q))
<1> DEFINE r == Tail(q)
           h == Head(q)
<1>1. /\ h = q[1] /\ h \in S /\ Len(q) \in Nat \ {0}
      /\ DOMAIN q = 1..Len(q) /\ DOMAIN r = 1..(Len(q) - 1)
      /\ \A i \in 1..(Len(q) - 1) : r[i] = q[i + 1]
  BY TailElements
<1> HIDE DEF r, h
<1>2. Occurs(h, q)
  <2>1. 1 \in DOMAIN q
    BY <1>1
  <2> QED
    BY <1>1, <2>1 DEF Occurs
<1>3. ASSUME NEW x, Occurs(x, q) PROVE Occurs(x, r) \/ x = h
  <2>1. PICK i \in 1..Len(q) : q[i] = x
    BY <1>1, <1>3 DEF Occurs
  <2>2. CASE i = 1
    BY <1>1, <2>1, <2>2
  <2>3. CASE i # 1
    <3>1. i - 1 \in 1..(Len(q) - 1) /\ (i - 1) + 1 = i
      BY <1>1, <2>3
    <3>2. r[i - 1] = x
      BY <1>1, <2>1, <3>1
    <3> QED
      BY <1>1, <3>1, <3>2 DEF Occurs
  <2> QED
    BY <2>2, <2>3
<1>4. ASSUME NEW x, Occurs(x, r) PROVE Occurs(x, q)
  <2>1. PICK i \in 1..(Len(q) - 1) : r[i] = x
    BY <1>1, <1>4 DEF Occurs
  <2>2. i + 1 \in 1..Len(q) /\ q[i + 1] = x
    BY <1>1, <2>1
  <2> QED
    BY <1>1, <2>2 DEF Occurs
<1>5. ASSUME NoRepeats(q) PROVE NoRepeats(r) /\ ~ Occurs(h, r)
  <2>1. \A i, j \in 1..Len(q) : q[i] = q[j] => i = j
    BY <1>1, <1>5 DEF NoRepeats
  <2>2. \A i \in 1..(Len(q) - 1) : i + 1 \in 1..Len(q) /\ i + 1 # 1 /\ 1 \in 1..Len(q)
    BY <1>1
  <2>3. \A i, j \in 1..(Len(q) - 1) : i + 1 = j + 1 => i = j
    BY <1>1
  <2>4. NoRepeats(r)
    BY <1>1, <2>1, <2>2, <2>3 DEF NoRepeats
  <2>5. ~ Occurs(h, r)
    BY <1>1, <2>1, <2>2 DEF Occurs
  <2> QED
    BY <2>4, <2>5
<1> QED
  BY <1>1, <1>2, <1>3, <1>4, <1>5 DEF r, h

\* Nothing occurs in the empty sequence.
LEMMA OccursEmpty == NoRepeats(<<>>) /\ \A x : ~ Occurs(x, <<>>)
BY DEF NoRepeats, Occurs

\* The parts of the invariant say what QueueOnlyWhenBusy says.
LEMMA QueueMembers == TypeOK /\ QueuePart => QueueOnlyWhenBusy
<1> SUFFICES ASSUME TypeOK, QueuePart PROVE QueueOnlyWhenBusy
  OBVIOUS
<1>1. \A x : Occurs(x, queue) <=> x \in {queue[i] : i \in DOMAIN queue}
  BY DEF Occurs
<1>2. \A x : Occurs(x, queue) => x \in Tasks
  <2>1. DOMAIN queue = 1..Len(queue) /\ \A i \in 1..Len(queue) : queue[i] \in Tasks
    BY LenProperties, ElementOfSeq DEF TypeOK
  <2> QED
    BY <2>1 DEF Occurs
<1> QED
  BY <1>1, <1>2 DEF QueueOnlyWhenBusy, QueuePart, NoRepeats

--------------------------------------------------------------------------------
(* The dispatcher *)

\* A new dispatcher satisfies the invariant.
LEMMA DispatchInit == Init => DispatchInv
<1> SUFFICES ASSUME Init PROVE DispatchInv
  OBVIOUS
<1>1. Running = {}
  BY DEF Init, Running
<1>2. SlotsAreHandlers
  BY <1>1, FS_EmptySet, DispatcherAssumption DEF SlotsAreHandlers, Init
<1>3. TypeOK
  <2>1. queue \in Seq(Tasks) /\ Len(queue) = 0 /\ 0 <= QueueCapacity
    BY EmptySeq, DispatcherAssumption DEF Init
  <2>2. activeCount \in 0..Concurrency
    BY DispatcherAssumption DEF Init
  <2> QED
    BY <2>1, <2>2 DEF TypeOK, Init
<1>4. QueuePart
  BY OccursEmpty DEF QueuePart, Init
<1> QED
  BY <1>2, <1>3, <1>4 DEF DispatchInv, DrainedIsQuiet, ReportedOnce, Init

\* dispatch() with a free slot.
LEMMA DispatchRunsStep ==
    ASSUME DispatchInv, NEW t \in Tasks, DispatchRuns(t)
    PROVE  DispatchInv'
<1>1. Cardinality(Running') = Cardinality(Running) + 1
  BY RunnerAdded DEF DispatchRuns, DispatchInv
<1>2. TypeOK'
  BY DispatcherAssumption DEF TypeOK, DispatchInv, DispatchRuns
<1>3. SlotsAreHandlers'
  BY <1>1, DispatcherAssumption DEF SlotsAreHandlers, DispatchInv, DispatchRuns, TypeOK
<1>4. QueuePart'
  <2>1. \A u \in Tasks : status'[u] = "queued" <=> status[u] = "queued"
    BY DEF DispatchRuns, DispatchInv, TypeOK
  <2>2. queue = <<>>
    BY DispatcherAssumption DEF DispatchRuns, DispatchInv, TypeOK, QueuePart
  <2> QED
    BY <2>1, <2>2 DEF QueuePart, DispatchInv, DispatchRuns
<1>5. DrainedIsQuiet' /\ ReportedOnce'
  BY DEF DispatchInv, DispatchRuns, DrainedIsQuiet, ReportedOnce
<1> QED
  BY <1>2, <1>3, <1>4, <1>5 DEF DispatchInv

\* dispatch() with every slot taken and room in the queue.
LEMMA DispatchQueuesStep ==
    ASSUME DispatchInv, NEW t \in Tasks, DispatchQueues(t)
    PROVE  DispatchInv'
<1>0. queue \in Seq(Tasks) /\ Len(queue) \in Nat
  BY LenProperties DEF DispatchInv, TypeOK
<1>1. Running' = Running
  BY RunnersUnchanged DEF DispatchQueues, DispatchInv, TypeOK
<1>2. TypeOK'
  <2>1. queue' \in Seq(Tasks) /\ Len(queue') = Len(queue) + 1
    BY <1>0, AppendElements DEF DispatchQueues
  <2>2. Len(queue') <= QueueCapacity
    BY <1>0, <2>1, DispatcherAssumption DEF DispatchQueues, QueueHasRoom
  <2> QED
    BY <2>1, <2>2 DEF TypeOK, DispatchInv, DispatchQueues
<1>3. QueuePart'
  <2>1. /\ \A x : Occurs(x, queue') <=> Occurs(x, queue) \/ x = t
        /\ NoRepeats(queue) /\ ~ Occurs(t, queue) => NoRepeats(queue')
    BY <1>0, OccursAppend DEF DispatchQueues
  <2>2. \A u \in Tasks : status'[u] = "queued" <=> status[u] = "queued" \/ u = t
    BY DEF DispatchQueues, DispatchInv, TypeOK
  <2>3. activeCount' = Concurrency /\ ~ closed'
    BY DispatcherAssumption DEF DispatchQueues, DispatchInv, TypeOK
  <2>4. ~ Occurs(t, queue)
    BY DEF DispatchQueues, DispatchInv, QueuePart
  <2> QED
    BY <2>1, <2>2, <2>3, <2>4 DEF QueuePart, DispatchInv
<1>4. SlotsAreHandlers' /\ DrainedIsQuiet' /\ ReportedOnce'
  BY <1>1 DEF DispatchInv, DispatchQueues, DrainedIsQuiet, ReportedOnce, SlotsAreHandlers
<1> QED
  BY <1>2, <1>3, <1>4 DEF DispatchInv

\* dispatch() that returns false.
LEMMA DispatchRefusesStep ==
    ASSUME DispatchInv, NEW t \in Tasks, DispatchRefuses(t)
    PROVE  DispatchInv'
<1>1. Running' = Running
  BY RunnersUnchanged DEF DispatchRefuses, DispatchInv, TypeOK
<1>2. TypeOK'
  BY DEF TypeOK, DispatchInv, DispatchRefuses
<1>3. \A u \in Tasks : status'[u] = "queued" <=> status[u] = "queued"
  BY DEF DispatchRefuses, DispatchInv, TypeOK
<1>4. QueuePart'
  BY <1>3 DEF QueuePart, DispatchInv, DispatchRefuses
<1>5. SlotsAreHandlers' /\ DrainedIsQuiet' /\ ReportedOnce'
  BY <1>1 DEF DispatchInv, DispatchRefuses, DrainedIsQuiet, ReportedOnce, SlotsAreHandlers
<1> QED
  BY <1>2, <1>4, <1>5 DEF DispatchInv

\* The timer of a handler that runs too long.
LEMMA TimeoutStep ==
    ASSUME DispatchInv, NEW t \in Tasks, Timeout(t)
    PROVE  DispatchInv'
<1>1. Running' = Running
  BY DEF Timeout, Running
<1>2. TypeOK'
  BY DEF TypeOK, DispatchInv, Timeout
<1>3. ReportedOnce'
  BY DEF ReportedOnce, DispatchInv, Timeout, TypeOK
<1>4. SlotsAreHandlers' /\ DrainedIsQuiet' /\ QueuePart'
  BY <1>1 DEF DispatchInv, Timeout, DrainedIsQuiet, SlotsAreHandlers, QueuePart
<1> QED
  BY <1>2, <1>3, <1>4 DEF DispatchInv

\* A handler returns or throws: its slot is free, or the next task's.
LEMMA TaskEndsStep ==
    ASSUME DispatchInv, NEW t \in Tasks, NEW failed \in BOOLEAN, TaskEnds(t, failed)
    PROVE  DispatchInv'
<1>0. /\ queue \in Seq(Tasks) /\ TypeOK /\ status[t] = "running"
      /\ t \in Running /\ drain # "done" /\ Flush(t)
      /\ UNCHANGED <<closed, drain, awaited>>
  BY DEF DispatchInv, TypeOK, TaskEnds, Running, DrainedIsQuiet
<1>1. reports' \in [Tasks -> Nat] /\ ReportedOnce'
  BY DEF DispatchInv, TypeOK, TaskEnds, ReportOnce, ReportedOnce
<1>2. DrainedIsQuiet'
  BY <1>0 DEF DrainedIsQuiet
<1>3. activeCount \in Nat \ {0}
  <2>1. Running \in SUBSET Tasks /\ IsFiniteSet(Running)
    BY TasksSubset DEF Running
  <2>2. Cardinality(Running) # 0
    BY <1>0, <2>1, FS_EmptySet
  <2> QED
    BY <2>2, DispatcherAssumption DEF DispatchInv, SlotsAreHandlers, TypeOK
<1>4. CASE queue = <<>> \/ closed
  <2>1. /\ activeCount' = activeCount - 1 /\ queue' = queue
        /\ status' = [status EXCEPT ![t] = "ended"]
    BY <1>0, <1>4 DEF Flush
  <2>2. queue = <<>>
    BY <1>4 DEF DispatchInv, QueuePart
  <2>3. TypeOK'
    BY <1>0, <1>1, <1>3, <2>1, DispatcherAssumption DEF TypeOK
  <2>4. Cardinality(Running') = Cardinality(Running) - 1
    BY <1>0, <2>1, RunnerRemoved
  <2>5. SlotsAreHandlers'
    BY <1>3, <2>1, <2>4, DispatcherAssumption DEF SlotsAreHandlers, DispatchInv
  <2>6. \A u \in Tasks : status'[u] = "queued" <=> status[u] = "queued"
    BY <1>0, <2>1 DEF TypeOK
  <2>7. QueuePart'
    BY <2>1, <2>2, <2>6 DEF QueuePart, DispatchInv
  <2> QED
    BY <1>1, <1>2, <2>3, <2>5, <2>7 DEF DispatchInv
<1>5. CASE ~(queue = <<>> \/ closed)
  <2>1. /\ activeCount' = activeCount /\ queue' = Tail(queue)
        /\ status' = [status EXCEPT ![t] = "ended", ![Head(queue)] = "running"]
    BY <1>0, <1>5 DEF Flush
  <2>2. PICK h \in Tasks : h = Head(queue)
    BY <1>0, <1>5, OccursTail
  <2>3. /\ Occurs(h, queue)
        /\ \A x : Occurs(x, queue) <=> Occurs(x, Tail(queue)) \/ x = h
        /\ NoRepeats(queue) => NoRepeats(Tail(queue)) /\ ~ Occurs(h, Tail(queue))
    BY <1>0, <1>5, <2>2, OccursTail
  <2>4. status[h] = "queued"
    BY <2>3 DEF DispatchInv, QueuePart
  <2>5. status' = [status EXCEPT ![t] = "ended", ![h] = "running"]
    BY <2>1, <2>2
  <2>6. Cardinality(Running') = Cardinality(Running)
    BY <1>0, <2>4, <2>5, RunnerReplaced
  <2>7. SlotsAreHandlers'
    BY <2>1, <2>6 DEF SlotsAreHandlers, DispatchInv
  <2>8. TypeOK'
    <3>1. /\ queue' \in Seq(Tasks) /\ Len(queue') = Len(queue) - 1 /\ Len(queue) \in Nat
      BY <1>0, <1>5, <2>1, TailElements
    <3>2. Len(queue') <= QueueCapacity
      BY <1>0, <3>1, DispatcherAssumption DEF TypeOK
    <3> QED
      BY <1>0, <1>1, <2>1, <2>5, <3>1, <3>2 DEF TypeOK
  <2>9. \A u \in Tasks : status'[u] = "queued" <=> status[u] = "queued" /\ u # h
    BY <1>0, <2>4, <2>5 DEF TypeOK
  <2>10. QueuePart'
    BY <1>0, <1>5, <2>1, <2>3, <2>9 DEF QueuePart, DispatchInv
  <2> QED
    BY <1>1, <1>2, <2>7, <2>8, <2>10 DEF DispatchInv
<1> QED
  BY <1>4, <1>5

\* close() drops what is queued and touches no handler that runs.
LEMMA CloseStep ==
    ASSUME DispatchInv, Close
    PROVE  DispatchInv'
<1>1. Running' = Running
  BY RunnersUnchanged DEF Close, DispatchInv, TypeOK
<1>2. TypeOK'
  BY EmptySeq, DispatcherAssumption DEF TypeOK, DispatchInv, Close
<1>3. \A u \in Tasks : status'[u] # "queued"
  BY DEF Close
<1>4. QueuePart'
  BY <1>3, OccursEmpty DEF QueuePart, Close
<1>5. SlotsAreHandlers' /\ DrainedIsQuiet' /\ ReportedOnce'
  BY <1>1 DEF DispatchInv, Close, DrainedIsQuiet, ReportedOnce, SlotsAreHandlers
<1> QED
  BY <1>2, <1>4, <1>5 DEF DispatchInv

\* A round of drain() changes only what drain() keeps itself.
LEMMA DrainRoundStep ==
    ASSUME DispatchInv, DrainRound
    PROVE  DispatchInv'
<1>1. Running' = Running /\ Running \subseteq Tasks
  BY DEF DrainRound, Running
<1>2. drain' \in {"waiting", "done"} /\ awaited' \subseteq Tasks
      /\ (drain' = "done" => Running = {} /\ closed)
  BY <1>1 DEF DrainRound
<1>3. TypeOK'
  BY <1>2 DEF TypeOK, DispatchInv, DrainRound
<1>4. QueuePart' /\ SlotsAreHandlers' /\ ReportedOnce'
  BY <1>1 DEF DispatchInv, DrainRound, ReportedOnce, SlotsAreHandlers, QueuePart
<1>5. DrainedIsQuiet'
  BY <1>1, <1>2 DEF DrainedIsQuiet, DrainRound
<1> QED
  BY <1>3, <1>4, <1>5 DEF DispatchInv

\* Every step of the dispatcher keeps the invariant.
LEMMA DispatchNext == DispatchInv /\ [Next]_vars => DispatchInv'
<1> SUFFICES ASSUME DispatchInv, [Next]_vars PROVE DispatchInv'
  OBVIOUS
<1>1. CASE \E t \in Tasks : DispatchRuns(t) \/ DispatchQueues(t) \/ DispatchRefuses(t)
  BY <1>1, DispatchRunsStep, DispatchQueuesStep, DispatchRefusesStep
<1>2. CASE \E t \in Tasks : Timeout(t)
  BY <1>2, TimeoutStep
<1>3. CASE \E t \in Tasks, failed \in BOOLEAN : TaskEnds(t, failed)
  BY <1>3, TaskEndsStep
<1>4. CASE Close
  BY <1>4, CloseStep
<1>5. CASE DrainRound
  BY <1>5, DrainRoundStep
<1>6. CASE UNCHANGED vars
  <2>1. Running' = Running
    BY <1>6 DEF vars, Running
  <2> QED
    BY <1>6, <2>1 DEF vars, DispatchInv, TypeOK, SlotsAreHandlers, QueuePart,
                      DrainedIsQuiet, ReportedOnce
<1> QED
  BY <1>1, <1>2, <1>3, <1>4, <1>5, <1>6 DEF Next

\* The dispatcher keeps the invariant for ever.
THEOREM DispatchCorrect == Spec => []DispatchInv
BY DispatchInit, DispatchNext, PTL DEF Spec

\* The slots in use are the handlers that run: maxConcurrency is a hard bound.
THEOREM DispatchSlots == Spec => []SlotsAreHandlers
<1>1. DispatchInv => SlotsAreHandlers
  BY DEF DispatchInv
<1> QED
  BY <1>1, DispatchCorrect, PTL

\* No accepted task waits beside a free slot or in a closed dispatcher.
THEOREM DispatchQueue == Spec => []QueueOnlyWhenBusy
<1>1. DispatchInv => QueueOnlyWhenBusy
  BY QueueMembers DEF DispatchInv
<1> QED
  BY <1>1, DispatchCorrect, PTL

\* A handler is reported at most once, by its timeout or by its failure.
THEOREM DispatchReports == Spec => []ReportedOnce
<1>1. DispatchInv => ReportedOnce
  BY DEF DispatchInv
<1> QED
  BY <1>1, DispatchCorrect, PTL

\* After drain() no handler runs, and none starts.
THEOREM DispatchDrained == Spec => []DrainedIsQuiet
<1>1. DispatchInv => DrainedIsQuiet
  BY DEF DispatchInv
<1> QED
  BY <1>1, DispatchCorrect, PTL

\* flush() starts tasks in the order in which dispatch() accepted them: only the
\* head of the queue is started, and no new task together with it.
THEOREM DispatchInOrder == Spec => StartsInOrder
<1> DEFINE Fair(t) == (status[t] = "queued" /\ status'[t] = "running")
              => queue[1] = t /\ \A u \in Tasks : status[u] = "new" => status'[u] # "running"
<1>1. ASSUME DispatchInv, [Next]_vars, NEW t \in Tasks,
             status[t] = "queued", status'[t] = "running"
      PROVE  queue[1] = t /\ \A u \in Tasks : status[u] = "new" => status'[u] # "running"
  <2>0. status \in [Tasks -> {"new", "queued", "running", "ended", "refused", "dropped"}]
        /\ queue \in Seq(Tasks)
    BY <1>1 DEF DispatchInv, TypeOK
  <2>1. ~ UNCHANGED vars /\ ~ DrainRound /\ ~ Close /\ \A u \in Tasks : ~ Timeout(u)
    BY <1>1 DEF vars, DrainRound, Close, Timeout
  <2>2. \A u \in Tasks : ~ DispatchRuns(u) /\ ~ DispatchQueues(u) /\ ~ DispatchRefuses(u)
    BY <1>1, <2>0 DEF DispatchRuns, DispatchQueues, DispatchRefuses
  <2>3. PICK v \in Tasks, failed \in BOOLEAN : TaskEnds(v, failed)
    BY <1>1, <2>1, <2>2 DEF Next
  <2>4. status[v] = "running" /\ Flush(v)
    BY <2>3 DEF TaskEnds
  <2>5. ~(queue = <<>> \/ closed)
    BY <1>1, <2>0, <2>4 DEF Flush
  <2>6. PICK h \in Tasks : h = Head(queue) /\ h = queue[1] /\ Occurs(h, queue)
    BY <2>0, <2>5, TailElements, OccursTail
  <2>7. status' = [status EXCEPT ![v] = "ended", ![h] = "running"]
    BY <2>4, <2>5, <2>6 DEF Flush
  <2>8. status[h] = "queued"
    BY <1>1, <2>6 DEF DispatchInv, QueuePart
  <2> QED
    BY <1>1, <2>0, <2>4, <2>6, <2>7, <2>8
<1>2. DispatchInv /\ [Next]_vars => [\A t \in Tasks : Fair(t)]_vars
  BY <1>1
<1> QED
  BY <1>2, DispatchCorrect, PTL DEF Spec, StartsInOrder

--------------------------------------------------------------------------------
(* The consumers: what their steps are to the dispatcher *)

\* A step of a consumer is a step of the dispatcher or leaves it alone.
LEMMA ConsumerStepIsDispatcherStep == [CNext]_cVars => [Next]_vars
<1> SUFFICES ASSUME [CNext]_cVars PROVE [Next]_vars
  OBVIOUS
<1>1. ASSUME NEW t \in Tasks, Notified(t) PROVE Next \/ UNCHANGED vars
  <2>1. CASE sub # "active"
    BY <1>1, <2>1 DEF Notified, dispVars, vars
  <2>2. CASE sub = "active"
    <3>1. DispatchRuns(t) \/ DispatchQueues(t) \/ DispatchRefuses(t)
      BY <1>1, <2>2 DEF Notified
    <3> QED
      BY <3>1 DEF Next
  <2> QED
    BY <2>1, <2>2
<1>2. ASSUME NEW t \in Tasks, HandlerRuns(t) PROVE Next
  <2>1. TaskEnds(t, FALSE)
    BY <1>2 DEF HandlerRuns
  <2> QED
    BY <2>1 DEF Next
<1>3. ASSUME NEW t \in Tasks, OtherTask(t) PROVE Next
  <2>1. \/ DispatchRuns(t) \/ DispatchQueues(t) \/ DispatchRefuses(t) \/ Timeout(t)
        \/ \E failed \in BOOLEAN : TaskEnds(t, failed)
    BY <1>3 DEF OtherTask
  <2> QED
    BY <2>1 DEF Next
<1>4. CASE CloseClient
  BY <1>4 DEF CloseClient, Next
<1>5. CASE CloseDrains
  BY <1>5 DEF CloseDrains, Next
<1>6. CASE Start \/ LoopStep \/ Serve(TRUE) \/ Break \/ Abort
  <2>1. UNCHANGED dispVars
    BY <1>6 DEF Start, LoopStep, Serve, Break, Abort, Subscribed, SubscribeFails, SendFetch,
                FetchFails, QueueContinues, StreamContinues, IteratorContinues, Resume, Leave
  <2> QED
    BY <2>1 DEF dispVars, vars
<1>7. CASE AppendItem \/ Disconnect \/ Reconnect \/ Restored \/ Rejected
  BY <1>7 DEF AppendItem, Disconnect, Reconnect, Restored, Rejected, dispVars, vars
<1>8. CASE UNCHANGED cVars
  BY <1>8 DEF cVars, dispVars, vars
<1> QED
  BY <1>1, <1>2, <1>3, <1>4, <1>5, <1>6, <1>7, <1>8 DEF CNext

\* The dispatcher under a consumer behaves as the dispatcher specification says,
\* whatever the consumer, the broker and the application do.
THEOREM ConsumerUsesDispatcher == CSpec => Spec
<1>1. CInit => Init
  BY DEF CInit
<1> QED
  BY <1>1, ConsumerStepIsDispatcherStep, PTL DEF CSpec, Spec

\* drain() leaves no handler of a consumer running, and none starts afterwards.
THEOREM ConsumerDrained == CSpec => []DrainedIsQuiet
BY ConsumerUsesDispatcher, DispatchDrained, PTL

--------------------------------------------------------------------------------
(* The consumers: the inductive invariant *)

\* The items among the members of s are in ascending order.
Rises(s) == \A i, j \in DOMAIN s : i < j /\ s[i] \in Items /\ s[j] \in Items => s[i] < s[j]

\* Where the notification of an item can be: on the wire, with the dispatcher,
\* in an iterator's buffer, with the application.
OnWire(t) == Occurs(t, wire)
Queued(t) == status[t] = "queued"
Started(t) == status[t] = "running"
Buffered(t) == Occurs(t, values)
Given(t) == kind = "iterator" /\ Occurs(t, got)

\* The stations are passed in order: what is further along is older.
OrderPart ==
    /\ Rises(wire) /\ Rises(queue) /\ Rises(values)
    /\ kind = "iterator" => Rises(got)
    /\ \A t \in Items : OnWire(t) \/ Queued(t) \/ Started(t) \/ Buffered(t) \/ Given(t) => t <= log
    /\ \A t, u \in Items :
          /\ Queued(t) /\ OnWire(u) => t < u
          /\ Started(t) /\ (OnWire(u) \/ Queued(u)) => t < u
          /\ Buffered(t) /\ (OnWire(u) \/ Queued(u) \/ Started(u)) => t < u
          /\ Given(t) /\ (OnWire(u) \/ Queued(u) \/ Started(u) \/ Buffered(u)) => t < u

\* A stream consumer was given what its cursor has passed, in order, but for what
\* empty pages have skipped; the page at hand is the one at the cursor.
StreamPart ==
    kind \in Stream =>
        /\ \A i, j \in DOMAIN got : i < j => got[i] < got[j]
        /\ \A n \in Nat : Occurs(n, got) <=> n \in 1..offset /\ n \notin skipped
        /\ \A n \in skipped : n \in 1..offset
        /\ pc = "served" =>
              \/ page.item = offset + 1 /\ page.last = offset
              \/ page.item = 0 /\ page.last \in {NoOffset, offset}

\* A consumer that goes on has seen at most one page without progress.
StallPart == pc \notin {"closing", "ended"} => stalled <= 1

ConsumerInv == CTypeOK /\ DispatchInv /\ OrderPart /\ StreamPart /\ StallPart

--------------------------------------------------------------------------------
(* The types *)

\* Every step of a consumer keeps the types.
LEMMA CTypeNext ==
    ASSUME CTypeOK, StallPart, TypeOK', [CNext]_cVars
    PROVE  CTypeOK' /\ StallPart'
<1>0. MaxItems \in Nat /\ Items = 1..MaxItems /\ Items \subseteq Tasks /\ MaxLosses \in Nat
  BY ConsumerAssumption DEF Items
<1> USE DEF StallPart
<1>1. CASE Start
  BY <1>1 DEF Start, CTypeOK, dispVars, netVars, loopVars, cursor
<1>2. CASE Subscribed \/ SubscribeFails \/ SendFetch \/ FetchFails
  BY <1>2 DEF Subscribed, SubscribeFails, SendFetch, FetchFails, LeavesLoop, CTypeOK, netVars, cursor
<1>3. ASSUME NEW stall \in BOOLEAN, Serve(stall) PROVE CTypeOK' /\ StallPart'
  <2>1. page' \in [item : 0..MaxItems, more : BOOLEAN, last : Nat \cup {NoOffset}]
    <3> DEFINE next == (IF kind = "queue" THEN Len(got) ELSE offset) + 1
    <3>1. next \in Nat \ {0} /\ log \in 0..MaxItems /\ offset \in Nat
      BY <1>0, LenProperties DEF CTypeOK
    <3>2. PICK last \in IF next <= log /\ ~stall THEN {next - 1} ELSE EmptyPageOffsets(stall) :
            page' = [item |-> IF next <= log /\ ~stall THEN next ELSE 0,
                     more |-> stall \/ (kind \in Stream /\ next < log),
                     last |-> last]
      BY <1>3 DEF Serve
    <3> HIDE DEF next
    <3>3. (IF next <= log /\ ~stall THEN next ELSE 0) \in 0..MaxItems
      BY <1>0, <3>1
    <3>4. (stall \/ (kind \in Stream /\ next < log)) \in BOOLEAN
      OBVIOUS
    <3>5. last \in Nat \cup {NoOffset}
      BY <3>1 DEF EmptyPageOffsets
    <3> QED
      BY <3>2, <3>3, <3>4, <3>5
  <2> QED
    BY <1>3, <2>1 DEF Serve, CTypeOK, netVars, cursor
<1>4. CASE QueueContinues
  <2>1. got' \in Seq(Items)
    <3>1. CASE page.item # 0
      <4>1. page.item \in Items /\ got \in Seq(Items)
        BY <1>0, <3>1 DEF CTypeOK
      <4> QED
        BY <1>4, <3>1, <4>1, AppendElements DEF QueueContinues
    <3>2. CASE page.item = 0
      BY <1>4, <3>2 DEF QueueContinues, CTypeOK
    <3> QED
      BY <3>1, <3>2
  <2>2. pc' \in {"yielded", "asked", "parked"} /\ woken' \in BOOLEAN
    BY <1>4 DEF QueueContinues, ParksUnlessWoken, CTypeOK
  <2> QED
    BY <1>4, <2>1, <2>2 DEF QueueContinues, CTypeOK, netVars, cursor
<1>5. CASE StreamContinues
  <2>1. got' \in Seq(Items)
    <3>1. CASE page.item # 0
      <4>1. page.item \in Items /\ got \in Seq(Items)
        BY <1>0, <3>1 DEF CTypeOK
      <4>2. got' = got \/ got' = Append(got, page.item)
        BY <1>5, <3>1 DEF StreamContinues
      <4> QED
        BY <4>1, <4>2, AppendElements
    <3>2. CASE page.item = 0
      BY <1>5, <3>2 DEF StreamContinues, CTypeOK
    <3> QED
      BY <3>1, <3>2
  <2>2. offset' \in Nat /\ skipped' \subseteq Nat
    <3>1. offset \in Nat /\ skipped \subseteq Nat /\ page.last \in Nat \cup {NoOffset}
      BY DEF CTypeOK
    <3>2. /\ offset' \in {offset, StreamNextOffset(page.last)}
          /\ skipped' = skipped \/ skipped' = skipped \cup {page.last + 1}
      BY <1>5 DEF StreamContinues
    <3>3. page.last + 1 \in Nat /\ StreamNextOffset(page.last) \in Nat
      BY <3>1 DEF StreamNextOffset, NoOffset
    <3> QED
      BY <3>1, <3>2, <3>3
  <2>3. /\ pc' \in {"yielded", "closing"} /\ stalled' \in 0..2 /\ woken' = woken
        /\ reason' \in {reason, "error"} /\ (pc' = "yielded" => stalled' <= 1)
    BY <1>5 DEF StreamContinues, LeavesLoop, CTypeOK
  <2> QED
    BY <1>5, <2>1, <2>2, <2>3 DEF StreamContinues, CTypeOK, netVars, cursor
<1>6. CASE IteratorContinues \/ Resume
  <2>1. got' \in Seq(Items) /\ values' \in Seq(Items)
    <3>1. got \in Seq(Items) /\ values \in Seq(Items)
      BY DEF CTypeOK
    <3>2. \/ got' = got /\ values' = values
          \/ values # <<>> /\ got' = Append(got, Head(values)) /\ values' = Tail(values)
      BY <1>6 DEF IteratorContinues, Resume
    <3>3. CASE values # <<>> /\ got' = Append(got, Head(values)) /\ values' = Tail(values)
      <4>1. Head(values) \in Items /\ values' \in Seq(Items)
        BY <3>1, <3>3, TailElements
      <4> QED
        BY <3>1, <3>3, <4>1, AppendElements
    <3> QED
      BY <3>1, <3>2, <3>3
  <2>2. /\ pc' \in {"yielded", "asked", "parked", "closing"} /\ woken' \in BOOLEAN
        /\ reason' \in {reason, "error", "done"}
    BY <1>6 DEF IteratorContinues, Resume, LeavesLoop, ParksUnlessWoken, CTypeOK
  <2>3. pc \notin {"closing", "ended"} /\ stalled' = stalled
    BY <1>6 DEF IteratorContinues, Resume, cursor
  <2>4. UNCHANGED <<kind, netVars, sub, page, cursor>>
    BY <1>6 DEF IteratorContinues, Resume
  <2> QED
    BY <2>1, <2>2, <2>3, <2>4 DEF CTypeOK, netVars, cursor
<1>7. CASE Break \/ Abort \/ Leave
  BY <1>7 DEF Break, Abort, Leave, LeavesLoop, CTypeOK, netVars, cursor
<1>8. CASE AppendItem
  <2>1. log' \in 0..MaxItems /\ log + 1 \in Items
    BY <1>0, <1>8 DEF AppendItem, CTypeOK
  <2>2. wire' \in Seq(Items)
    BY <1>8, <2>1, AppendElements DEF AppendItem, CTypeOK
  <2> QED
    BY <1>8, <2>1, <2>2 DEF AppendItem, CTypeOK, loopVars, cursor
<1>9. ASSUME NEW t \in Tasks, Notified(t) PROVE CTypeOK' /\ StallPart'
  <2>1. wire' \in Seq(Items)
    BY <1>9, TailElements DEF Notified, CTypeOK, cursor
  <2>2. /\ sub' \in {sub, "failed"} /\ breg' \in BOOLEAN /\ woken' \in BOOLEAN
        /\ pc' = pc \/ (pc = "parked" /\ pc' = "asked")
    BY <1>9 DEF Notified, OverflowFails, Wakes, CTypeOK
  <2> QED
    BY <1>9, <2>1, <2>2 DEF Notified, CTypeOK, cursor
<1>10. ASSUME NEW t \in Tasks, HandlerRuns(t) PROVE CTypeOK' /\ StallPart'
  <2>1. values' \in Seq(Items)
    <3>1. t \in Items /\ values \in Seq(Items) /\ values' \in {values, Append(values, t)}
      BY <1>10 DEF HandlerRuns, CTypeOK
    <3> QED
      BY <3>1, AppendElements
  <2>2. woken' \in BOOLEAN /\ (pc' = pc \/ (pc = "parked" /\ pc' = "asked"))
    BY <1>10 DEF HandlerRuns, Wakes, CTypeOK
  <2> QED
    BY <1>10, <2>1, <2>2 DEF HandlerRuns, CTypeOK, netVars, cursor
<1>11. ASSUME NEW t \in Tasks, OtherTask(t) PROVE CTypeOK' /\ StallPart'
  BY <1>11 DEF OtherTask, CTypeOK, netVars, loopVars, cursor
<1>12. ASSUME SessionLost
       PROVE  /\ breg' = FALSE /\ wire' \in Seq(Items) /\ woken' \in BOOLEAN
              /\ reason' \in {reason, "error"}
              /\ pc' \in {pc, "asked", "closing"}
              /\ (pc' # pc => pc \in {"sent", "parked"})
  BY <1>12, EmptySeq DEF SessionLost, LeavesLoop, Wakes, CTypeOK
<1>13. CASE Disconnect
  <2>1. losses' \in 0..MaxLosses /\ conn' = "down"
    BY <1>0, <1>13 DEF Disconnect, CTypeOK
  <2> QED
    BY <1>12, <1>13, <2>1 DEF Disconnect, CTypeOK, cursor
<1>14. CASE Reconnect
  BY <1>14 DEF Reconnect, CTypeOK, loopVars, cursor
<1>15. CASE Restored
  <2>1. woken' \in BOOLEAN /\ breg' \in BOOLEAN /\ (pc' = pc \/ (pc = "parked" /\ pc' = "asked"))
    BY <1>15 DEF Restored, ReconnectWakes, Wakes, CTypeOK
  <2> QED
    BY <1>15, <2>1 DEF Restored, CTypeOK, cursor
<1>16. CASE CloseClient \/ Rejected
  BY <1>12, <1>16 DEF CloseClient, Rejected, CTypeOK, cursor
<1>17. CASE CloseDrains
  BY <1>17 DEF CloseDrains, CTypeOK, netVars, loopVars, cursor
<1>18. CASE UNCHANGED cVars
  BY <1>18 DEF cVars, CTypeOK, netVars, loopVars, cursor
<1> QED
  BY <1>1, <1>2, <1>3, <1>4, <1>5, <1>6, <1>7, <1>8, <1>9, <1>10, <1>11, <1>13, <1>14, <1>15,
     <1>16, <1>17, <1>18 DEF CNext, LoopStep

--------------------------------------------------------------------------------
(* The order of the notifications *)

\* Appending what is newer than the rest keeps the order.
LEMMA RisesAppend ==
    ASSUME NEW S, NEW q \in Seq(S), NEW e \in S, Rises(q),
           e \in Items => \A x \in Items : Occurs(x, q) => x < e
    PROVE  Rises(Append(q, e))
<1> DEFINE a == Append(q, e)
<1>1. /\ Len(q) \in Nat /\ DOMAIN q = 1..Len(q) /\ DOMAIN a = 1..(Len(q) + 1)
      /\ \A i \in 1..Len(q) : a[i] = q[i]
      /\ a[Len(q) + 1] = e
  BY AppendElements
<1> HIDE DEF a
<1>2. ASSUME NEW i \in DOMAIN a, NEW j \in DOMAIN a, i < j, a[i] \in Items, a[j] \in Items
      PROVE  a[i] < a[j]
  <2>1. i \in 1..Len(q) /\ a[i] = q[i] /\ Occurs(a[i], q)
    BY <1>1, <1>2 DEF Occurs
  <2>2. CASE j \in 1..Len(q)
    <3>1. a[j] = q[j]
      BY <1>1, <2>2
    <3> QED
      BY <1>1, <1>2, <2>1, <2>2, <3>1 DEF Rises
  <2>3. CASE j = Len(q) + 1
    <3>1. a[j] = e
      BY <1>1, <2>3
    <3> QED
      BY <1>2, <2>1, <3>1
  <2> QED
    BY <1>1, <2>2, <2>3
<1> QED
  BY <1>2 DEF Rises, a

\* The rest of an ordered sequence is ordered, and newer than the head.
LEMMA RisesTail ==
    ASSUME NEW S, NEW q \in Seq(S), q # <<>>, Rises(q)
    PROVE  /\ Rises(Tail(q))
           /\ \A x \in Items : Occurs(x, Tail(q)) /\ Head(q) \in Items => Head(q) < x
<1> DEFINE r == Tail(q)
           h == Head(q)
<1>1. /\ h = q[1] /\ Len(q) \in Nat \ {0}
      /\ DOMAIN q = 1..Len(q) /\ DOMAIN r = 1..(Len(q) - 1)
      /\ \A i \in 1..(Len(q) - 1) : r[i] = q[i + 1]
  BY TailElements
<1> HIDE DEF r, h
<1>2. \A i \in 1..(Len(q) - 1) : i + 1 \in 1..Len(q) /\ 1 < i + 1 /\ 1 \in 1..Len(q)
  BY <1>1
<1>3. \A i, j \in 1..(Len(q) - 1) : i < j => i + 1 < j + 1
  BY <1>1
<1>4. \A i, j \in 1..Len(q) : i < j /\ q[i] \in Items /\ q[j] \in Items => q[i] < q[j]
  BY <1>1 DEF Rises
<1>5. Rises(r)
  BY <1>1, <1>2, <1>3, <1>4 DEF Rises
<1>6. ASSUME NEW x \in Items, Occurs(x, r), h \in Items PROVE h < x
  <2>1. PICK i \in 1..(Len(q) - 1) : q[i + 1] = x
    BY <1>1, <1>6 DEF Occurs
  <2> QED
    BY <1>1, <1>2, <1>4, <1>6, <2>1
<1> QED
  BY <1>5, <1>6 DEF r, h

\* The empty sequence is ordered.
LEMMA RisesEmpty == Rises(<<>>)
BY DEF Rises

\* Items are numbers.
LEMMA ItemsAreNumbers == Items \subseteq Nat /\ Items \subseteq Tasks
BY ConsumerAssumption DEF Items

\* A step in which notifications only disappear keeps the order.
LEMMA OrderStays ==
    ASSUME OrderPart, kind' = kind, log' = log,
           Rises(wire'), Rises(queue'), values' = values,
           kind = "iterator" => got' = got,
           \A t \in Items : /\ Occurs(t, wire') => Occurs(t, wire)
                            /\ status'[t] = "queued" => status[t] = "queued"
                            /\ status'[t] = "running" => status[t] = "running"
    PROVE  OrderPart'
BY DEF OrderPart, OnWire, Queued, Started, Buffered, Given

\* Work of others in the dispatcher, and the end of a handler: a task that takes
\* over a slot is newer than the started ones and older than those still queued.
LEMMA FlushOrder ==
    ASSUME DispatchInv, OrderPart, NEW t \in Tasks, NEW fails \in BOOLEAN, TaskEnds(t, fails)
    PROVE  /\ Rises(queue')
           /\ \A x \in Items : status'[x] = "queued" => status[x] = "queued"
           /\ \A x \in Items : status'[x] = "running" =>
                 \/ status[x] = "running" /\ x # t
                 \/ /\ status[x] = "queued"
                    /\ \A u \in Items : status'[u] = "queued" => x < u
<1>0. /\ queue \in Seq(Tasks) /\ Rises(queue) /\ Flush(t) /\ status[t] = "running"
      /\ Items \subseteq Tasks
      /\ status \in [Tasks -> {"new", "queued", "running", "ended", "refused", "dropped"}]
  BY ItemsAreNumbers DEF DispatchInv, TypeOK, OrderPart, TaskEnds
<1>1. CASE queue = <<>> \/ closed
  <2>1. queue' = queue /\ status' = [status EXCEPT ![t] = "ended"]
    BY <1>0, <1>1 DEF Flush
  <2> QED
    BY <1>0, <2>1
<1>2. CASE ~(queue = <<>> \/ closed)
  <2>1. PICK h \in Tasks : h = Head(queue)
    BY <1>0, <1>2, OccursTail
  <2>2. /\ Occurs(h, queue)
        /\ \A x : Occurs(x, queue) <=> Occurs(x, Tail(queue)) \/ x = h
        /\ NoRepeats(queue) => ~ Occurs(h, Tail(queue))
        /\ Rises(Tail(queue))
        /\ \A x \in Items : Occurs(x, Tail(queue)) /\ h \in Items => h < x
    BY <1>0, <1>2, <2>1, OccursTail, RisesTail
  <2>3. queue' = Tail(queue) /\ status' = [status EXCEPT ![t] = "ended", ![h] = "running"]
    BY <1>0, <1>2, <2>1 DEF Flush
  <2>4. status[h] = "queued" /\ \A x \in Tasks : status[x] = "queued" <=> Occurs(x, queue)
    BY <2>2 DEF DispatchInv, QueuePart
  <2>5. \A x \in Items : status'[x] = "queued" => Occurs(x, Tail(queue)) /\ status[x] = "queued"
    BY <1>0, <2>2, <2>3, <2>4
  <2>6. \A x \in Items : status'[x] = "running" => (status[x] = "running" /\ x # t) \/ x = h
    BY <1>0, <2>3, <2>4
  <2> QED
    BY <2>2, <2>3, <2>4, <2>5, <2>6
<1> QED
  BY <1>1, <1>2

\* A notification that is read from the wire is newer than all that were read
\* before, and older than those to come.
LEMMA NotifiedOrder ==
    ASSUME ConsumerInv, NEW t \in Tasks, Notified(t)
    PROVE  OrderPart'
<1>0. /\ wire \in Seq(Items) /\ queue \in Seq(Tasks) /\ wire # <<>>
      /\ Head(wire) = t /\ wire' = Tail(wire)
      /\ UNCHANGED <<kind, log, values, got>>
      /\ status \in [Tasks -> {"new", "queued", "running", "ended", "refused", "dropped"}]
  BY DEF ConsumerInv, CTypeOK, TypeOK, Notified
<1>1. /\ t \in Items /\ Occurs(t, wire)
      /\ \A x : Occurs(x, wire') => Occurs(x, wire)
      /\ Rises(wire') /\ \A x \in Items : Occurs(x, wire') => t < x
  BY <1>0, OccursTail, RisesTail DEF ConsumerInv, OrderPart
<1>2. Items \subseteq Nat /\ Items \subseteq Tasks
  BY ItemsAreNumbers
<1>3. Rises(queue) /\ OrderPart /\ \A x \in Tasks : status[x] = "queued" <=> Occurs(x, queue)
  BY DEF ConsumerInv, OrderPart, DispatchInv, QueuePart
<1>4. CASE UNCHANGED <<status, queue>>
  BY <1>0, <1>1, <1>3, <1>4, OrderStays
<1>5. CASE DispatchRuns(t)
  <2>1. queue = <<>>
    BY <1>5, DispatcherAssumption DEF ConsumerInv, DispatchInv, TypeOK, QueuePart, DispatchRuns
  <2>2. \A x \in Items : status[x] # "queued"
    BY <1>2, <1>3, <2>1, OccursEmpty
  <2>3. /\ queue' = queue
        /\ \A x \in Items : /\ status'[x] = "queued" => status[x] = "queued"
                            /\ status'[x] = "running" => status[x] = "running" \/ x = t
    BY <1>0, <1>2, <1>5 DEF DispatchRuns
  <2> QED
    BY <1>0, <1>1, <1>2, <1>3, <2>2, <2>3
       DEF OrderPart, OnWire, Queued, Started, Buffered, Given
<1>6. CASE DispatchQueues(t)
  <2>1. \A x \in Items : Occurs(x, queue) => x < t
    BY <1>1, <1>2, <1>3 DEF OrderPart, Queued, OnWire
  <2>2. Rises(queue')
    BY <1>0, <1>3, <1>6, <2>1, RisesAppend DEF DispatchQueues
  <2>3. \A x \in Items : /\ status'[x] = "queued" => status[x] = "queued" \/ x = t
                         /\ status'[x] = "running" => status[x] = "running"
    BY <1>0, <1>2, <1>6 DEF DispatchQueues
  <2> QED
    BY <1>0, <1>1, <1>2, <1>3, <2>2, <2>3
       DEF OrderPart, OnWire, Queued, Started, Buffered, Given
<1>7. CASE DispatchRefuses(t)
  <2>1. /\ queue' = queue
        /\ \A x \in Items : /\ status'[x] = "queued" => status[x] = "queued"
                            /\ status'[x] = "running" => status[x] = "running"
    BY <1>0, <1>2, <1>7 DEF DispatchRefuses
  <2> QED
    BY <1>0, <1>1, <1>3, <2>1, OrderStays
<1> QED
  BY <1>4, <1>5, <1>6, <1>7 DEF Notified, dispVars

\* The oldest of the started handlers runs: what it buffers is newer than the
\* buffer and older than everything that is still on its way.
LEMMA HandlerRunsOrder ==
    ASSUME ConsumerInv, NEW t \in Tasks, HandlerRuns(t)
    PROVE  OrderPart'
<1>0. /\ values \in Seq(Items) /\ t \in Items /\ TaskEnds(t, FALSE) /\ status[t] = "running"
      /\ \A u \in Items : status[u] = "running" => t <= u
      /\ values' \in {values, Append(values, t)}
      /\ UNCHANGED <<kind, log, wire, got>> /\ OrderPart /\ DispatchInv
  BY DEF ConsumerInv, CTypeOK, HandlerRuns, TaskEnds, netVars
<1>1. /\ Rises(queue')
      /\ \A x \in Items : status'[x] = "queued" => status[x] = "queued"
      /\ \A x \in Items : status'[x] = "running" =>
            \/ status[x] = "running" /\ x # t
            \/ /\ status[x] = "queued"
               /\ \A u \in Items : status'[u] = "queued" => x < u
  BY <1>0, FlushOrder
<1>2. Items \subseteq Nat
  BY ItemsAreNumbers
<1>3. \A x \in Items : Occurs(x, values') => Occurs(x, values) \/ x = t
  BY <1>0, OccursAppend
<1>4. Rises(values')
  <2>1. \A x \in Items : Occurs(x, values) => x < t
    BY <1>0 DEF OrderPart, Buffered, Started
  <2> QED
    BY <1>0, <2>1, RisesAppend DEF OrderPart
<1> QED
  BY <1>0, <1>1, <1>2, <1>3, <1>4 DEF OrderPart, OnWire, Queued, Started, Buffered, Given

\* The dispatcher's other tasks do not disturb the order of the items.
LEMMA OtherTaskOrder ==
    ASSUME ConsumerInv, NEW t \in Tasks, OtherTask(t)
    PROVE  OrderPart'
<1>0. /\ UNCHANGED <<kind, log, wire, values, got>> /\ t \notin Items
      /\ OrderPart /\ DispatchInv /\ queue \in Seq(Tasks)
      /\ Items \subseteq Nat /\ Items \subseteq Tasks
      /\ status \in [Tasks -> {"new", "queued", "running", "ended", "refused", "dropped"}]
  BY ItemsAreNumbers DEF ConsumerInv, CTypeOK, TypeOK, OtherTask, netVars, loopVars, cursor
<1>1. CASE DispatchRuns(t) \/ DispatchRefuses(t) \/ Timeout(t)
  <2>1. queue' = queue /\ \A x \in Items : status'[x] = status[x]
    BY <1>0, <1>1 DEF DispatchRuns, DispatchRefuses, Timeout
  <2> QED
    BY <1>0, <2>1, OrderStays DEF OrderPart
<1>2. CASE DispatchQueues(t)
  <2>1. \A x \in Items : status'[x] = status[x]
    BY <1>0, <1>2 DEF DispatchQueues
  <2>2. Rises(queue')
    BY <1>0, <1>2, RisesAppend DEF DispatchQueues, OrderPart
  <2> QED
    BY <1>0, <2>1, <2>2, OrderStays DEF OrderPart
<1>3. ASSUME NEW fails \in BOOLEAN, TaskEnds(t, fails) PROVE OrderPart'
  <2>1. /\ Rises(queue')
        /\ \A x \in Items : status'[x] = "queued" => status[x] = "queued"
        /\ \A x \in Items : status'[x] = "running" =>
              \/ status[x] = "running" /\ x # t
              \/ /\ status[x] = "queued"
                 /\ \A u \in Items : status'[u] = "queued" => x < u
    BY <1>0, <1>3, FlushOrder
  <2> QED
    BY <1>0, <2>1 DEF OrderPart, OnWire, Queued, Started, Buffered, Given
<1> QED
  BY <1>1, <1>2, <1>3 DEF OtherTask

\* The iterator gives out the oldest value of its buffer.
LEMMA GiveOrder ==
    ASSUME ConsumerInv, kind = "iterator", values # <<>>,
           got' = Append(got, Head(values)), values' = Tail(values),
           UNCHANGED <<kind, log, wire, queue, status>>
    PROVE  OrderPart'
<1>0. values \in Seq(Items) /\ got \in Seq(Items) /\ OrderPart /\ Items \subseteq Nat
  BY ItemsAreNumbers DEF ConsumerInv, CTypeOK
<1>1. PICK h \in Items : h = Head(values)
  BY <1>0, OccursTail
<1>2. /\ Occurs(h, values)
      /\ \A x : Occurs(x, values') => Occurs(x, values)
      /\ Rises(values') /\ \A x \in Items : Occurs(x, values') => h < x
  BY <1>0, <1>1, OccursTail, RisesTail DEF OrderPart
<1>3. \A x \in Items : Occurs(x, got) => x < h
  BY <1>0, <1>2 DEF OrderPart, Given, Buffered
<1>4. Rises(got') /\ \A x : Occurs(x, got') => Occurs(x, got) \/ x = h
  BY <1>0, <1>1, <1>3, OccursAppend, RisesAppend DEF OrderPart
<1> QED
  BY <1>0, <1>2, <1>4 DEF OrderPart, OnWire, Queued, Started, Buffered, Given

\* A new item is newer than everything that is on its way.
LEMMA AppendItemOrder ==
    ASSUME ConsumerInv, AppendItem
    PROVE  OrderPart'
<1>0. /\ wire \in Seq(Items) /\ OrderPart /\ Items \subseteq Nat
      /\ log' = log + 1 /\ log \in Nat /\ log + 1 \in Items
      /\ wire' \in {wire, Append(wire, log + 1)}
      /\ UNCHANGED <<kind, values, got, queue, status>>
  BY ItemsAreNumbers, ConsumerAssumption
     DEF ConsumerInv, CTypeOK, AppendItem, dispVars, loopVars, cursor, Items
<1>1. PICK n \in Items : n = log + 1
  BY <1>0
<1>2. \A x \in Items : Occurs(x, wire) => x < n
  BY <1>0, <1>1 DEF OrderPart, OnWire
<1>3. Rises(wire')
  BY <1>0, <1>1, <1>2, RisesAppend DEF OrderPart
<1>4. \A x \in Items : Occurs(x, wire') => Occurs(x, wire) \/ x = n
  BY <1>0, <1>1, OccursAppend
<1>5. \A x \in Items : x <= log => x < n /\ x <= log'
  BY <1>0, <1>1
<1>6. n <= log'
  BY <1>0, <1>1
<1> QED
  BY <1>0, <1>3, <1>4, <1>5, <1>6 DEF OrderPart, OnWire, Queued, Started, Buffered, Given

\* Every step keeps the notifications in order.
LEMMA OrderNext ==
    ASSUME ConsumerInv, [CNext]_cVars
    PROVE  OrderPart'
<1>0. OrderPart /\ Rises(wire) /\ Rises(queue)
  BY DEF ConsumerInv, OrderPart
<1>1. CASE Start \/ Subscribed \/ SubscribeFails \/ SendFetch \/ FetchFails \/ Break \/ Abort
           \/ Leave \/ Reconnect \/ Restored \/ UNCHANGED cVars \/ \E stall \in BOOLEAN : Serve(stall)
  <2>1. UNCHANGED <<kind, log, wire, queue, status, values, got>>
    BY <1>1 DEF Start, Subscribed, SubscribeFails, SendFetch, FetchFails, Break, Abort, Leave,
                Reconnect, Restored, Serve, cVars, dispVars, netVars, loopVars, cursor
  <2> QED
    BY <1>0, <2>1, OrderStays
<1>2. CASE QueueContinues \/ StreamContinues
  <2>1. UNCHANGED <<kind, log, wire, queue, status, values>> /\ kind # "iterator"
    BY <1>2 DEF QueueContinues, StreamContinues, dispVars, netVars, Stream
  <2> QED
    BY <1>0, <2>1, OrderStays
<1>3. CASE IteratorContinues \/ Resume
  <2>1. UNCHANGED <<kind, log, wire, queue, status>>
    BY <1>3 DEF IteratorContinues, Resume, dispVars, netVars
  <2>2. \/ UNCHANGED <<values, got>>
        \/ /\ kind = "iterator" /\ values # <<>>
           /\ got' = Append(got, Head(values)) /\ values' = Tail(values)
    BY <1>3 DEF IteratorContinues, Resume
  <2> QED
    BY <1>0, <2>1, <2>2, OrderStays, GiveOrder
<1>4. CASE AppendItem
  BY <1>4, AppendItemOrder
<1>5. CASE Disconnect \/ Rejected \/ CloseDrains
  <2>1. /\ UNCHANGED <<kind, log, queue, status, values, got>>
        /\ wire' \in {wire, <<>>}
    BY <1>5 DEF Disconnect, Rejected, SessionLost, CloseDrains, DrainRound, dispVars, netVars, loopVars, cursor
  <2> QED
    BY <1>0, <2>1, OrderStays, RisesEmpty, OccursEmpty
<1>6. CASE CloseClient
  <2>1. /\ UNCHANGED <<kind, log, values, got>> /\ queue' = <<>> /\ wire' = <<>>
        /\ \A x \in Items : status'[x] # "queued" /\ (status'[x] = "running" => status[x] = "running")
    BY <1>6, ItemsAreNumbers DEF CloseClient, SessionLost, Close
  <2> QED
    BY <1>0, <2>1, OrderStays, RisesEmpty, OccursEmpty
<1>7. ASSUME NEW t \in Tasks, Notified(t) \/ HandlerRuns(t) \/ OtherTask(t) PROVE OrderPart'
  BY <1>7, NotifiedOrder, HandlerRunsOrder, OtherTaskOrder
<1> QED
  BY <1>1, <1>2, <1>3, <1>4, <1>5, <1>6, <1>7 DEF CNext, LoopStep

--------------------------------------------------------------------------------
(* The cursor of a stream *)

\* Every step keeps the cursor in step with what was yielded.
LEMMA StreamNext ==
    ASSUME CTypeOK, StreamPart, [CNext]_cVars
    PROVE  StreamPart'
<1>0. /\ got \in Seq(Items) /\ offset \in Nat /\ log \in Nat /\ Items = 1..MaxItems
      /\ skipped \subseteq Nat /\ MaxItems \in Nat
      /\ page \in [item : 0..MaxItems, more : BOOLEAN, last : Nat \cup {NoOffset}]
  BY ConsumerAssumption DEF CTypeOK, Items
<1>1. CASE kind' = kind /\ UNCHANGED <<got, offset, skipped, page>> /\ (pc' = "served" => pc = "served")
  BY <1>1 DEF StreamPart
<1>2. ASSUME NEW stall \in BOOLEAN, Serve(stall) PROVE StreamPart'
  <2>1. ASSUME kind \in Stream
        PROVE  \/ page'.item = offset + 1 /\ page'.last = offset
               \/ page'.item = 0 /\ page'.last \in {NoOffset, offset}
    BY <1>0, <1>2, <2>1 DEF Serve, Stream, EmptyPageOffsets
  <2> QED
    BY <1>2, <2>1 DEF Serve, StreamPart, cursor
<1>3. CASE StreamContinues
  <2>0. /\ \A i, j \in DOMAIN got : i < j => got[i] < got[j]
        /\ \A n \in Nat : Occurs(n, got) <=> n \in 1..offset /\ n \notin skipped
        /\ \A n \in skipped : n \in 1..offset
        /\ \/ page.item = offset + 1 /\ page.last = offset
           \/ page.item = 0 /\ page.last \in {NoOffset, offset}
        /\ kind' = kind /\ pc' # "served"
    BY <1>3 DEF StreamContinues, StreamPart, LeavesLoop
  <2>1. CASE UNCHANGED <<got, offset, skipped>>
    BY <2>0, <2>1 DEF StreamPart
  <2>2. CASE /\ page.item = offset + 1 /\ got' = Append(got, page.item)
             /\ offset' = offset + 1 /\ skipped' = skipped
    <3>1. page.item \in Items
      BY <1>0, <2>2
    <3>2. /\ DOMAIN got = 1..Len(got) /\ DOMAIN got' = 1..(Len(got) + 1) /\ Len(got) \in Nat
          /\ \A i \in 1..Len(got) : got'[i] = got[i]
          /\ got'[Len(got) + 1] = page.item
      BY <1>0, <2>2, <3>1, AppendElements
    <3>3. \A x : Occurs(x, got') <=> Occurs(x, got) \/ x = page.item
      BY <1>0, <2>2, <3>1, OccursAppend
    <3>4. \A n \in Nat : Occurs(n, got') <=> n \in 1..(offset + 1) /\ n \notin skipped
      BY <1>0, <2>0, <2>2, <3>3
    <3>5. ASSUME NEW i \in DOMAIN got', NEW j \in DOMAIN got', i < j PROVE got'[i] < got'[j]
      <4>1. i \in 1..Len(got) /\ got'[i] = got[i]
        BY <3>2, <3>5
      <4>2. got[i] \in Nat /\ Occurs(got[i], got)
        BY <1>0, <3>2, <4>1, ElementOfSeq DEF Occurs
      <4>3. CASE j \in 1..Len(got)
        BY <2>0, <3>2, <3>5, <4>1, <4>3
      <4>4. CASE j = Len(got) + 1
        <5>1. got[i] \in 1..offset
          BY <2>0, <4>2
        <5> QED
          BY <1>0, <2>2, <3>2, <4>1, <4>4, <5>1
      <4> QED
        BY <3>2, <4>3, <4>4
    <3> QED
      BY <1>0, <2>0, <2>2, <3>4, <3>5 DEF StreamPart
  <2>3. CASE /\ got' = got /\ offset' = offset + 1 /\ skipped' = skipped \cup {offset + 1}
    BY <1>0, <2>0, <2>3 DEF StreamPart
  <2>4. \/ UNCHANGED <<got, offset, skipped>>
        \/ /\ page.item = offset + 1 /\ got' = Append(got, page.item)
           /\ offset' = offset + 1 /\ skipped' = skipped
        \/ got' = got /\ offset' = offset + 1 /\ skipped' = skipped \cup {offset + 1}
    <3>1. offset # NoOffset /\ offset + 1 # 0
      BY <1>0 DEF NoOffset
    <3> QED
      BY <1>3, <2>0, <3>1 DEF StreamContinues, StreamNextOffset, LeavesLoop
  <2> QED
    BY <2>1, <2>2, <2>3, <2>4
<1>4. CASE QueueContinues \/ IteratorContinues
  BY <1>4 DEF QueueContinues, IteratorContinues, StreamPart, Stream
<1>5. CASE Resume
  <2>1. kind' = kind /\ UNCHANGED <<offset, skipped, page>> /\ pc' # "served"
        /\ (kind \in Stream => got' = got)
    BY <1>5 DEF Resume, LeavesLoop, ParksUnlessWoken, Stream, cursor
  <2> QED
    BY <2>1 DEF StreamPart
<1>6. CASE Start \/ Subscribed \/ SubscribeFails \/ SendFetch \/ FetchFails \/ Break \/ Abort
           \/ Leave \/ AppendItem \/ Reconnect \/ CloseDrains \/ UNCHANGED cVars
  BY <1>1, <1>6 DEF Start, Subscribed, SubscribeFails, SendFetch, FetchFails, Break, Abort, Leave,
     AppendItem, Reconnect, CloseDrains, LeavesLoop, cVars, netVars, loopVars, cursor
<1>7. CASE Disconnect \/ Rejected \/ CloseClient \/ Restored
  BY <1>1, <1>7 DEF Disconnect, Rejected, CloseClient, Restored, cursor, SessionLost, ReconnectWakes, Wakes,
     LeavesLoop
<1>8. ASSUME NEW t \in Tasks, Notified(t) \/ HandlerRuns(t) \/ OtherTask(t) PROVE StreamPart'
  BY <1>1, <1>8 DEF Notified, OverflowFails, HandlerRuns, OtherTask, Wakes, loopVars, cursor
<1> QED
  BY <1>2, <1>3, <1>4, <1>5, <1>6, <1>7, <1>8 DEF CNext, LoopStep

--------------------------------------------------------------------------------
(* The consumers: the theorems *)

\* A consumer that has not started satisfies the invariant.
LEMMA ConsumerInit == CInit => ConsumerInv
<1> SUFFICES ASSUME CInit PROVE ConsumerInv
  OBVIOUS
<1>1. DispatchInv
  BY DispatchInit DEF CInit
<1>2. CTypeOK
  <2>1. 0 \in 0..MaxItems /\ 0 \in 0..MaxLosses /\ 0 \in 0..2
    BY ConsumerAssumption
  <2>2. <<>> \in Seq(Items)
    BY EmptySeq
  <2> QED
    BY <1>1, <2>1, <2>2 DEF CInit, CTypeOK, DispatchInv, NoOffset
<1>3. OrderPart
  <2>1. \A x \in Items : status[x] = "new"
    BY ItemsAreNumbers DEF CInit, Init
  <2> QED
    BY <2>1, RisesEmpty, OccursEmpty
       DEF CInit, Init, OrderPart, OnWire, Queued, Started, Buffered, Given
<1>4. StreamPart
  <2>1. DOMAIN got = {} /\ \A x : ~ Occurs(x, got)
    BY EmptySeq, OccursEmpty DEF CInit
  <2> QED
    BY <2>1 DEF CInit, StreamPart
<1>5. StallPart
  BY DEF CInit, StallPart
<1> QED
  BY <1>1, <1>2, <1>3, <1>4, <1>5 DEF ConsumerInv

\* Every step keeps the invariant.
LEMMA ConsumerNext == ConsumerInv /\ [CNext]_cVars => ConsumerInv'
<1> SUFFICES ASSUME ConsumerInv, [CNext]_cVars PROVE ConsumerInv'
  OBVIOUS
<1>1. DispatchInv'
  BY DispatchNext, ConsumerStepIsDispatcherStep DEF ConsumerInv
<1>2. TypeOK'
  BY <1>1 DEF DispatchInv
<1>3. CTypeOK' /\ StallPart'
  BY <1>2, CTypeNext DEF ConsumerInv
<1>4. OrderPart'
  BY OrderNext
<1>5. StreamPart'
  BY StreamNext DEF ConsumerInv
<1> QED
  BY <1>1, <1>3, <1>4, <1>5 DEF ConsumerInv

\* Consumers keep the invariant for ever.
THEOREM ConsumerCorrect == CSpec => []ConsumerInv
BY ConsumerInit, ConsumerNext, PTL DEF CSpec

\* The variables of a consumer have their types.
THEOREM ConsumerTypeCorrect == CSpec => []CTypeOK
<1>1. ConsumerInv => CTypeOK
  BY DEF ConsumerInv
<1> QED
  BY <1>1, ConsumerCorrect, PTL

\* A stream consumer yields every record its offset has passed once and in order,
\* across retried reads, stalled pages and reconnects, but for those an empty page
\* without a cursor has moved it past; a notification iterator yields notifications
\* in order, however many handlers may run at once and whatever else runs there.
THEOREM ConsumerInOrder == CSpec => []RecordsOnceInOrder
<1>1. ConsumerInv => RecordsOnceInOrder
  <2> SUFFICES ASSUME ConsumerInv PROVE RecordsOnceInOrder
    OBVIOUS
  <2>1. /\ got \in Seq(Items) /\ DOMAIN got = 1..Len(got)
        /\ \A i \in 1..Len(got) : got[i] \in Items
        /\ Items \subseteq Nat /\ offset \in Nat
    BY LenProperties, ElementOfSeq, ItemsAreNumbers DEF ConsumerInv, CTypeOK
  <2>2. ASSUME kind \in Stream PROVE Received = 1..offset \ skipped
    <3>1. \A n : n \in Received <=> Occurs(n, got)
      BY DEF Received, Occurs
    <3>2. \A n : Occurs(n, got) => n \in Nat
      BY <2>1 DEF Occurs
    <3>3. \A n \in Nat : Occurs(n, got) <=> n \in 1..offset /\ n \notin skipped
      BY <2>2 DEF ConsumerInv, StreamPart
    <3>4. 1..offset \subseteq Nat
      BY <2>1
    <3> QED
      BY <3>1, <3>2, <3>3, <3>4
  <2>3. ASSUME kind \in Stream, NEW i \in DOMAIN got, NEW j \in DOMAIN got, i < j
        PROVE  got[i] < got[j]
    BY <2>3 DEF ConsumerInv, StreamPart
  <2>4. ASSUME kind = "iterator", NEW i \in DOMAIN got, NEW j \in DOMAIN got, i < j
        PROVE  got[i] < got[j]
    BY <2>1, <2>4 DEF ConsumerInv, OrderPart, Rises
  <2>5. kind \in Stream \cup {"queue", "iterator"}
    BY DEF ConsumerInv, CTypeOK, Kinds, Stream
  <2> QED
    BY <2>2, <2>3, <2>4, <2>5 DEF RecordsOnceInOrder
<1> QED
  BY <1>1, ConsumerCorrect, PTL

================================================================================
