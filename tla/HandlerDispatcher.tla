-------------------------- MODULE HandlerDispatcher --------------------------
(***************************************************************************)
(* createAsyncHandlerDispatcher() of                                       *)
(* src/client/internal/async-handler-dispatcher.ts: notification handlers  *)
(* and RPC work run in at most Concurrency slots, wait in a bounded queue, *)
(* and are drained by connection.close().                                  *)
(*                                                                         *)
(* A task is one dispatch() call.  The microtasks between the end of a     *)
(* handler and the start of the next one are one step: no timer fires in   *)
(* between.  drain() looks at activeTasks again after each allSettled().   *)
(***************************************************************************)
EXTENDS Naturals, Sequences, FiniteSets

CONSTANTS
    Tasks,          \* dispatch() calls
    Concurrency,    \* maxConcurrency, at least 1
    QueueCapacity   \* queueCapacity, possibly 0

ASSUME DispatcherAssumption ==
    /\ IsFiniteSet(Tasks)
    /\ Concurrency \in Nat \ {0}
    /\ QueueCapacity \in Nat

VARIABLES
    activeCount, queue, closed,
    status,      \* "new", "queued", "running", "ended", "refused" or "dropped"
    reports,     \* how often onError() was called for a task
    drain,       \* "off", "waiting" or "done"
    awaited      \* the tasks drain() waits for

vars == <<activeCount, queue, closed, status, reports, drain, awaited>>

Running == {t \in Tasks : status[t] = "running"}

Init ==
    /\ activeCount = 0
    /\ queue = <<>>
    /\ closed = FALSE
    /\ status = [t \in Tasks |-> "new"]
    /\ reports = [t \in Tasks |-> 0]
    /\ drain = "off"
    /\ awaited = {}

-----------------------------------------------------------------------------
\* dispatch() while a slot is free: run() at once, ahead of nobody, because
\* the queue is empty whenever a slot is free.
DispatchRuns(t) ==
    /\ status[t] = "new"
    /\ ~ closed
    /\ activeCount < Concurrency
    /\ activeCount' = activeCount + 1
    /\ status' = [status EXCEPT ![t] = "running"]
    /\ UNCHANGED <<queue, closed, reports, drain, awaited>>

\* All slots taken: the task waits its turn.
QueueHasRoom == Len(queue) < QueueCapacity

DispatchQueues(t) ==
    /\ status[t] = "new"
    /\ ~ closed
    /\ activeCount >= Concurrency
    /\ QueueHasRoom
    /\ queue' = Append(queue, t)
    /\ status' = [status EXCEPT ![t] = "queued"]
    /\ UNCHANGED <<activeCount, closed, reports, drain, awaited>>

\* dispatch() returns false: closed, or slots and queue are full.
DispatchRefuses(t) ==
    /\ status[t] = "new"
    /\ closed \/ (activeCount >= Concurrency /\ ~ QueueHasRoom)
    /\ status' = [status EXCEPT ![t] = "refused"]
    /\ UNCHANGED <<activeCount, queue, closed, reports, drain, awaited>>

\* The timer reports a handler that runs too long, once.  The slot stays taken.
Timeout(t) ==
    /\ status[t] = "running"
    /\ reports[t] = 0
    /\ reports' = [reports EXCEPT ![t] = 1]
    /\ UNCHANGED <<activeCount, queue, closed, status, drain, awaited>>

\* reportOnce(): the handler's own failure after a reported timeout is silent.
ReportOnce(t, failed) ==
    reports' = [reports EXCEPT ![t] = IF failed /\ @ = 0 THEN 1 ELSE @]

\* flush() after a slot was freed: the oldest queued task takes it.  A closed
\* dispatcher has no queue any more.
Flush(t) ==
    IF queue = <<>> \/ closed
       THEN /\ activeCount' = activeCount - 1
            /\ status' = [status EXCEPT ![t] = "ended"]
            /\ UNCHANGED queue
       ELSE /\ activeCount' = activeCount
            /\ status' = [status EXCEPT ![t] = "ended", ![Head(queue)] = "running"]
            /\ queue' = Tail(queue)

\* A handler returns or throws.
TaskEnds(t, failed) ==
    /\ status[t] = "running"
    /\ ReportOnce(t, failed)
    /\ Flush(t)
    /\ UNCHANGED <<closed, drain, awaited>>

\* close(): nothing starts any more; queued tasks are dropped.
Close ==
    /\ ~ closed
    /\ closed' = TRUE
    /\ queue' = <<>>
    /\ status' = [t \in Tasks |-> IF status[t] = "queued" THEN "dropped" ELSE status[t]]
    /\ UNCHANGED <<activeCount, reports, drain, awaited>>

\* A variant of drain() that gives up after its first round.
DrainOnce ==
    /\ closed
    /\ drain # "done"
    /\ IF Running = {} \/ drain = "waiting" THEN drain' = "done" /\ awaited' = {}
                       ELSE drain' = "waiting" /\ awaited' = Running
    /\ UNCHANGED <<activeCount, queue, closed, status, reports>>

\* drain(), called by connection.close() after close(), and each round of it.
DrainRound ==
    /\ closed
    /\ drain # "done"
    /\ awaited \cap Running = {}
    /\ IF Running = {} THEN drain' = "done" /\ awaited' = {}
                       ELSE drain' = "waiting" /\ awaited' = Running
    /\ UNCHANGED <<activeCount, queue, closed, status, reports>>

Next ==
    \/ \E t \in Tasks : DispatchRuns(t) \/ DispatchQueues(t) \/ DispatchRefuses(t)
    \/ \E t \in Tasks : Timeout(t)
    \/ \E t \in Tasks, failed \in BOOLEAN : TaskEnds(t, failed)
    \/ Close
    \/ DrainRound

Spec == Init /\ [][Next]_vars

\* Handlers return (the code cannot make them), and drain() takes its turns.
FairSpec ==
    /\ Spec
    /\ \A t \in Tasks : WF_vars(\E failed \in BOOLEAN : TaskEnds(t, failed))
    /\ WF_vars(DrainRound)

-----------------------------------------------------------------------------
\* The types, and the limit of the queue.
TypeOK ==
    /\ activeCount \in 0 .. Concurrency
    /\ queue \in Seq(Tasks)
    /\ Len(queue) <= QueueCapacity
    /\ closed \in BOOLEAN
    /\ status \in [Tasks -> {"new", "queued", "running", "ended", "refused", "dropped"}]
    /\ reports \in [Tasks -> Nat]
    /\ drain \in {"off", "waiting", "done"}
    /\ awaited \subseteq Tasks

\* The slots in use are exactly the handlers that are still running, timed out
\* or not: maxConcurrency is a hard bound.
SlotsAreHandlers ==
    /\ activeCount = Cardinality(Running)
    /\ activeCount <= Concurrency

\* The queue holds the queued tasks, each once, and only while every slot is
\* taken: an accepted notification never waits beside a free slot.
QueueOnlyWhenBusy ==
    /\ {queue[i] : i \in DOMAIN queue} = {t \in Tasks : status[t] = "queued"}
    /\ \A i, j \in DOMAIN queue : queue[i] = queue[j] => i = j
    /\ queue # <<>> => activeCount = Concurrency /\ ~ closed

\* Tasks are started in the order in which they were accepted: the next one to
\* start is never overtaken by a later dispatch().
StartsInOrder ==
    [][\A t \in Tasks : (status[t] = "queued" /\ status'[t] = "running")
         => queue[1] = t /\ \A u \in Tasks : status[u] = "new" => status'[u] # "running"]_vars

\* drain() returns only when no handler runs, and none starts afterwards: after
\* connection.close() no callback of the client is active.
DrainedIsQuiet == drain = "done" => Running = {} /\ closed

\* A handler is reported at most once, by its timeout or by its failure.
ReportedOnce == \A t \in Tasks : reports[t] <= 1

\* An accepted task is run to its end or dropped by close().
AcceptedRuns ==
    \A t \in Tasks : status[t] \in {"queued", "running"} ~> status[t] \in {"ended", "dropped"}

\* close() of the connection gets past drain() once every handler returned.
DrainReturns == closed ~> drain = "done"
=============================================================================
