------------------------------ MODULE RequestGate ------------------------------
(***************************************************************************)
(* The request gate of src/client/internal/request-gate.ts: at most        *)
(* maxConcurrency requests of a session hold a slot, at most maxQueueSize  *)
(* wait for one in arrival order, a caller may abort its wait, and close() *)
(* fails everyone who waits.                                               *)
(*                                                                         *)
(* A caller here is one strand of the program that calls acquire(), and    *)
(* calls it again once its previous call is over.  A call ends in a slot   *)
(* ("held", then "released") or in a rejection ("aborted", "closed",       *)
(* "full").                                                                *)
(*                                                                         *)
(* The JavaScript engine runs each handler to completion, so a handler is  *)
(* one action.  The abort of a signal needs care: AbortController.abort()  *)
(* called from a script sets signal.aborted and runs every listener before *)
(* any promise continuation runs, but a signal that the engine itself      *)
(* aborts (AbortSignal.timeout in a browser) drains the microtask queue    *)
(* between two listeners, so release() can run while a waiter's signal is  *)
(* aborted and its own listener has not run yet.  NativeAbort says whether *)
(* signals of the second kind exist.                                       *)
(***************************************************************************)
EXTENDS Integers, Sequences, FiniteSets

CONSTANTS
    Callers,          \* strands that issue requests
    MaxConcurrency,   \* min(maxInFlightRequests, HELLO max_in_flight)
    MaxQueueSize,     \* maxRequestQueueSize
    NativeAbort       \* TRUE iff promise continuations run between two
                      \* listeners of one abort event

ASSUME CallersFinite == IsFiniteSet(Callers)
ASSUME BoundsAssumption == MaxConcurrency \in Nat \ {0} /\ MaxQueueSize \in Nat
ASSUME NativeAbortBoolean == NativeAbort \in BOOLEAN

VARIABLES
    status,       \* what became of each caller's latest acquire()
    activeCount,  \* slots granted and not released
    closed,       \* close() ran
    queue,        \* waiters, oldest first
    aborted       \* callers whose signal reads aborted while acquire() is pending

vars == <<status, activeCount, closed, queue, aborted>>

Outcomes == {"idle", "released", "aborted", "closed", "full"}
Statuses == Outcomes \cup {"waiting", "held"}

Held == {c \in Callers : status[c] = "held"}

Init ==
    /\ status = [c \in Callers |-> "idle"]
    /\ activeCount = 0
    /\ closed = FALSE
    /\ queue = <<>>
    /\ aborted = {}

--------------------------------------------------------------------------------
(* acquire *)

\* The early rejections: a signal that is aborted already, then a closed gate.
AcquireRejected(c) ==
    /\ status[c] \in Outcomes
    /\ \/ status' = [status EXCEPT ![c] = "aborted"]
       \/ closed /\ status' = [status EXCEPT ![c] = "closed"]
    /\ UNCHANGED <<activeCount, closed, queue, aborted>>

\* A free slot is taken at once.
AcquireGranted(c) ==
    /\ status[c] \in Outcomes
    /\ ~closed
    /\ activeCount < MaxConcurrency
    /\ activeCount' = activeCount + 1
    /\ status' = [status EXCEPT ![c] = "held"]
    /\ UNCHANGED <<closed, queue, aborted>>

QueueFull == Len(queue) >= MaxQueueSize

\* No free slot: wait, or fail when the queue is at its limit.
AcquireQueued(c) ==
    /\ status[c] \in Outcomes
    /\ ~closed
    /\ activeCount >= MaxConcurrency
    /\ \/ /\ QueueFull
          /\ status' = [status EXCEPT ![c] = "full"]
          /\ queue' = queue
       \/ /\ ~QueueFull
          /\ status' = [status EXCEPT ![c] = "waiting"]
          /\ queue' = Append(queue, c)
    /\ UNCHANGED <<activeCount, closed, aborted>>

--------------------------------------------------------------------------------
(* The signal of a waiting caller *)

\* removeWaiter: the queue without its i-th waiter.
WithoutIndex(q, i) == SubSeq(q, 1, i - 1) \o SubSeq(q, i + 1, Len(q))

\* The waiter's abort listener: leave the queue and reject.
OnAbort(i) ==
    /\ status' = [status EXCEPT ![queue[i]] = "aborted"]
    /\ aborted' = aborted \ {queue[i]}
    /\ queue' = WithoutIndex(queue, i)
    /\ UNCHANGED <<activeCount, closed>>

\* A script aborts the signal: flag and listener are one step.
ScriptAbort(i) ==
    /\ ~NativeAbort
    /\ OnAbort(i)

\* The engine aborts the signal: signal.aborted reads true from here on ...
NativeAbortBegins(i) ==
    /\ NativeAbort
    /\ queue[i] \notin aborted
    /\ aborted' = aborted \cup {queue[i]}
    /\ UNCHANGED <<status, activeCount, closed, queue>>

\* ... and the listener runs later, if it is still registered then.
NativeAbortDelivered(i) ==
    /\ queue[i] \in aborted
    /\ OnAbort(i)

--------------------------------------------------------------------------------
(* release and close *)

\* A variant of release that does not look at the queue.
ReleaseOnly(c) ==
    /\ status[c] = "held"
    /\ status' = [status EXCEPT ![c] = "released"]
    /\ activeCount' = activeCount - 1
    /\ UNCHANGED <<closed, queue, aborted>>

\* release(): give the slot back, pass over the waiters whose signal is aborted
\* (they are dropped with their listener and not settled), grant the next one.
Release(c) ==
    /\ status[c] = "held"
    /\ \/ /\ closed \/ activeCount - 1 >= MaxConcurrency
          /\ status' = [status EXCEPT ![c] = "released"]
          /\ activeCount' = activeCount - 1
          /\ queue' = queue
       \/ /\ ~closed /\ activeCount - 1 < MaxConcurrency
          /\ \E k \in 0..Len(queue) :
               /\ \A i \in 1..k : queue[i] \in aborted
               /\ \/ /\ k = Len(queue)
                     /\ status' = [status EXCEPT ![c] = "released"]
                     /\ activeCount' = activeCount - 1
                     /\ queue' = <<>>
                  \/ /\ k < Len(queue)
                     /\ queue[k + 1] \notin aborted
                     /\ status' = [status EXCEPT ![c] = "released",
                                                 ![queue[k + 1]] = "held"]
                     /\ activeCount' = activeCount
                     /\ queue' = SubSeq(queue, k + 2, Len(queue))
    /\ UNCHANGED <<closed, aborted>>

\* close(): reject every waiter that is still queued.
Close ==
    /\ ~closed
    /\ closed' = TRUE
    /\ status' = [c \in Callers |->
                    IF \E i \in DOMAIN queue : queue[i] = c THEN "closed" ELSE status[c]]
    /\ aborted' = {c \in aborted : \A i \in DOMAIN queue : queue[i] # c}
    /\ queue' = <<>>
    /\ UNCHANGED activeCount

--------------------------------------------------------------------------------
Next ==
    \/ \E c \in Callers : \/ AcquireRejected(c)
                          \/ AcquireGranted(c)
                          \/ AcquireQueued(c)
                          \/ Release(c)
    \/ \E i \in DOMAIN queue : \/ ScriptAbort(i)
                               \/ NativeAbortBegins(i)
                               \/ NativeAbortDelivered(i)
    \/ Close

Spec == Init /\ [][Next]_vars

(***************************************************************************)
(* Every request is bounded by the multiplexer's timeout and releases its  *)
(* slot in a finally block (connection.ts, requestInternal); an abort      *)
(* event that began delivers its listeners.                                *)
(***************************************************************************)
Fairness ==
    /\ \A c \in Callers : WF_vars(Release(c))
    /\ WF_vars(\E i \in DOMAIN queue : NativeAbortDelivered(i))

FairSpec == Spec /\ Fairness

--------------------------------------------------------------------------------
(* Properties *)

\* The variables have their types and the queue respects maxQueueSize.
TypeOK ==
    /\ status \in [Callers -> Statuses]
    /\ activeCount \in Nat
    /\ closed \in BOOLEAN
    /\ queue \in Seq(Callers)
    /\ Len(queue) <= MaxQueueSize
    /\ aborted \in SUBSET Callers

\* The counter the gate decides by is the number of callers inside, whatever
\* the order of releases, aborts and close, and it never passes the limit.
SlotAccounting ==
    /\ activeCount = Cardinality(Held)
    /\ activeCount <= MaxConcurrency

\* The queue holds waiting callers only, each once: an aborted or failed waiter
\* is never left behind to be granted a slot that nobody would release.
QueueHoldsWaiters ==
    /\ \A i \in DOMAIN queue : status[queue[i]] = "waiting"
    /\ \A i, j \in DOMAIN queue : queue[i] = queue[j] => i = j

\* Nobody waits while a slot is free, even after release() passed over waiters
\* whose signal was aborted.
WorkConserving == ~closed /\ queue # <<>> => activeCount = MaxConcurrency

\* close() empties the queue for good: no waiter survives it and nobody is queued later.
ClosedDrains == closed => queue = <<>>

\* Slots are granted in arrival order: a caller gets one from the queue only if
\* every waiter ahead of it was aborted, and a newcomer only if nobody waits.
GrantsInOrder ==
    [][\A c \in Callers :
         status[c] # "held" /\ status'[c] = "held" =>
           \/ queue = <<>>
           \/ \E n \in DOMAIN queue :
                queue[n] = c /\ \A i \in 1..(n - 1) : queue[i] \in aborted]_vars

\* Once the gate is closed no caller obtains a slot any more.
NoGrantAfterClose ==
    [][closed => \A c \in Callers : status'[c] = "held" => status[c] = "held"]_vars

\* Every waiter gets a slot or an error, unless its signal is aborted: the
\* requests ahead of it end, and the newcomers behind it cannot overtake it.
EveryWaiterSettles ==
    \A c \in Callers :
      status[c] = "waiting" ~> status[c] # "waiting" \/ c \in aborted

================================================================================
