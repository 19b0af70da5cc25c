-------------------------------- MODULE Client --------------------------------
(***************************************************************************)
(* The client facade (client/client-core.ts): connect() and                *)
(* connectWhenReady() calls that share one connect promise, their signals  *)
(* and deadlines, and close() racing all of them.                          *)
(*                                                                         *)
(* The connection underneath is module Connection; here it is its public   *)
(* states and how a shared promise of connect() or waitUntilReady() may    *)
(* settle.  An action is the code between two awaits.                      *)
(***************************************************************************)
EXTENDS Naturals, FiniteSets

CONSTANTS
    Callers,    \* calls of connect() or connectWhenReady()
    WhenReady,  \* the ones of connectWhenReady()
    NoDeadline, \* ... with timeoutMs Infinity
    Abortable,  \* callers that passed a signal
    Nobody      \* no flight

ASSUME ClientAssumption ==
    /\ WhenReady \subseteq Callers /\ Abortable \subseteq Callers
    /\ NoDeadline \subseteq WhenReady

VARIABLES
    conn,         \* none, idle, opening, ready, recovering, closed
    flight,       \* the shared promise: its kind, owner and outcome
    pending,      \* pendingConnectPromise is that promise
    clientClosed,
    closing,      \* open, closing, closed: where close() is
    cached,       \* domain clients were made for the connection
    pc,           \* idle, waiting, resumed, sleeping, done
    got,          \* what the awaited promise settled with
    result,       \* how the call ended
    aborted,      \* callers whose signal was aborted
    clock,        \* running, passed (hasExpired()) or fired (the timer)
    toldBy        \* history: whose shared attempt told a caller of an abort

vars == <<conn, flight, pending, clientClosed, closing, cached, pc, got, result, aborted, clock,
          toldBy>>
shared == <<conn, flight, pending, clientClosed, closing, cached>>

(* How an attempt fails: with an error startupReadinessError() takes for a *)
(* reason to try again (TransportError, ConnectionError, TimeoutError), or *)
(* with an authentication error.                                           *)
Failures == {"unready", "auth"}
Outcomes == Failures \cup {"none", "ok", "abort", "closed"}

Init ==
    /\ conn = "none" /\ flight = Nobody /\ pending = FALSE
    /\ clientClosed = FALSE /\ closing = "open" /\ cached = FALSE
    /\ pc = [c \in Callers |-> "idle"]
    /\ got = [c \in Callers |-> "none"]
    /\ result = [c \in Callers |-> "none"]
    /\ aborted = {}
    /\ clock = [c \in Callers |-> "running"]
    /\ toldBy = [c \in Callers |-> Nobody]

HasExpired(c) == clock[c] # "running"

(* The signal connect() gets: the caller's, or the one of the deadline,    *)
(* which the caller's signal and the timer abort.                          *)
Cancelled(c) == c \in aborted \/ clock[c] = "fired"

--------------------------------------------------------------------------------
(* connect() and connectWhenReady() *)

Ends(c, r) ==
    /\ pc' = [pc EXCEPT ![c] = "done"]
    /\ result' = [result EXCEPT ![c] = r]
    /\ got' = [got EXCEPT ![c] = "none"]

(* An AbortError ends connectWhenReady(), as a timeout if it was its own   *)
(* deadline.                                                               *)
AbortOutcome(c) ==
    IF c \in WhenReady /\ c \notin aborted /\ HasExpired(c) THEN "timeout" ELSE "abort"

(* connect() up to its await: share the pending promise, or wait for the   *)
(* recovery that is under way, or open the connection with this caller's   *)
(* signal.                                                                 *)
Connect(c) ==
    \/ /\ conn = "ready"
       /\ Ends(c, "ok") /\ UNCHANGED shared
    \/ /\ conn # "ready" /\ pending
       /\ pc' = [pc EXCEPT ![c] = "waiting"]
       /\ UNCHANGED <<shared, got, result>>
    \/ /\ conn # "ready" /\ ~pending
       /\ pc' = [pc EXCEPT ![c] = "waiting"]
       /\ pending' = TRUE
       /\ IF conn = "recovering"
          THEN /\ flight' = [kind |-> "wait", owner |-> c, out |-> "none"]
               /\ UNCHANGED conn
          ELSE /\ flight' = [kind |-> "open", owner |-> c, out |-> "none"]
               /\ conn' = "opening"
       /\ UNCHANGED <<clientClosed, closing, cached, got, result>>

(* The top of connect(), and of a round of connectWhenReady().             *)
Enter(c) ==
    /\ \/ clientClosed /\ Ends(c, "closed") /\ UNCHANGED shared
       \/ ~clientClosed /\ Cancelled(c) /\ Ends(c, AbortOutcome(c)) /\ UNCHANGED shared
       \/ ~clientClosed /\ ~Cancelled(c) /\ Connect(c)
    /\ UNCHANGED <<aborted, clock, toldBy>>

Call(c) == pc[c] = "idle" /\ Enter(c)

(* A variant that does not look at the client again.                       *)
OutcomeUnchecked(c) == got[c]

(* What connect() settles with behind its await: throwIfClientClosed().    *)
ConnectOutcome(c) == IF got[c] = "ok" /\ clientClosed THEN "closed" ELSE got[c]

(* connectWhenReady() goes on after the failure of an attempt.             *)
Retries(c) == ~clientClosed /\ got[c] = "unready" /\ ~HasExpired(c)

(* The continuation behind the await of the shared promise.                *)
Resume(c) ==
    /\ pc[c] = "resumed"
    /\ LET out == ConnectOutcome(c) IN
       IF c \notin WhenReady \/ out \in {"ok", "closed", "auth"} THEN Ends(c, out)
       ELSE IF out = "abort" THEN Ends(c, AbortOutcome(c))
       ELSE IF Retries(c)
       THEN /\ pc' = [pc EXCEPT ![c] = "sleeping"]
            /\ got' = [got EXCEPT ![c] = "none"] /\ UNCHANGED result
       ELSE Ends(c, IF clientClosed THEN out ELSE "timeout")
    /\ UNCHANGED <<shared, aborted, clock, toldBy>>

(* The back-off is over: the next round.                                   *)
SleepEnds(c) == pc[c] = "sleeping" /\ Enter(c)

(* sleepWithAbort rejects.                                                 *)
SleepAborted(c) ==
    /\ pc[c] = "sleeping" /\ Cancelled(c)
    /\ Ends(c, AbortOutcome(c))
    /\ UNCHANGED <<shared, aborted, clock, toldBy>>

(* waitForSharedPromise: the signal rejects this caller's wait and nobody  *)
(* else's.                                                                 *)
StopWaiting(c) ==
    /\ pc' = [pc EXCEPT ![c] = IF @ = "waiting" THEN "resumed" ELSE @]
    /\ got' = [got EXCEPT ![c] = IF pc[c] = "waiting" THEN "abort" ELSE @]

(* The application aborts the signal it passed.                            *)
CallerAborts(c) ==
    /\ c \in Abortable \ aborted /\ pc[c] # "done"
    /\ aborted' = aborted \cup {c}
    /\ StopWaiting(c)
    /\ UNCHANGED <<shared, result, clock, toldBy>>

HasDeadline(c) == c \in WhenReady \ NoDeadline

(* Date.now() reaches the deadline ...                                     *)
DeadlinePasses(c) ==
    /\ HasDeadline(c) /\ clock[c] = "running" /\ pc[c] \notin {"idle", "done"}
    /\ clock' = [clock EXCEPT ![c] = "passed"]
    /\ UNCHANGED <<shared, pc, got, result, aborted, toldBy>>

(* ... and the timer's callback runs some time later.                      *)
TimerFires(c) ==
    /\ clock[c] = "passed" /\ pc[c] \notin {"idle", "done"}
    /\ clock' = [clock EXCEPT ![c] = "fired"]
    /\ StopWaiting(c)
    /\ UNCHANGED <<shared, result, aborted, toldBy>>

--------------------------------------------------------------------------------
(* The shared promise and the connection *)

InFlight(k) == flight # Nobody /\ flight.kind = k /\ flight.out = "none"

Settles(out) == flight' = [flight EXCEPT !.out = out]

(* openAndAuthenticate: a session, a failure, or the abort of the signal   *)
(* of the caller the attempt was opened for.                               *)
OpenEnds(out) ==
    /\ InFlight("open") /\ conn = "opening"
    /\ \/ out = "ok" /\ conn' = "ready"
       \/ out \in Failures /\ conn' = "idle"
       \/ out = "abort" /\ Cancelled(flight.owner) /\ conn' = "idle"
    /\ Settles(out)
    /\ UNCHANGED <<pending, clientClosed, closing, cached, pc, got, result, aborted, clock,
                   toldBy>>

(* The session is lost, with or without a reconnect to follow.             *)
SessionLost(next) ==
    /\ conn = "ready" /\ next \in {"recovering", "idle"}
    /\ conn' = next
    /\ UNCHANGED <<flight, pending, clientClosed, closing, cached, pc, got, result, aborted, clock,
                   toldBy>>

(* The reconnect loop ends with a session, exhausted, or rejected; who     *)
(* waits for readiness hears of it.                                        *)
RecoveryEnds(out) ==
    /\ conn = "recovering"
    /\ conn' = IF out = "ok" THEN "ready" ELSE "idle"
    /\ IF InFlight("wait") THEN Settles(out) ELSE UNCHANGED flight
    /\ UNCHANGED <<pending, clientClosed, closing, cached, pc, got, result, aborted, clock,
                   toldBy>>

(* waitUntilReady(undefined, timeout) gives up.                            *)
WaitTimesOut ==
    /\ InFlight("wait") /\ conn = "recovering"
    /\ Settles("unready")
    /\ UNCHANGED <<conn, pending, clientClosed, closing, cached, pc, got, result, aborted, clock,
                   toldBy>>

(* A closed connection fails whatever is still under way.                  *)
ClosedEndsFlight ==
    /\ conn = "closed" /\ flight # Nobody /\ flight.out = "none"
    /\ Settles("closed")
    /\ UNCHANGED <<conn, pending, clientClosed, closing, cached, pc, got, result, aborted, clock,
                   toldBy>>

(* A variant in which only the owner hears of the outcome.                 *)
UntrackForOwner ==
    /\ flight # Nobody /\ flight.out # "none"
    /\ pending' = FALSE /\ flight' = Nobody
    /\ pc' = [pc EXCEPT ![flight.owner] = IF @ = "waiting" THEN "resumed" ELSE @]
    /\ got' = [got EXCEPT ![flight.owner] = IF pc[flight.owner] = "waiting" THEN flight.out ELSE @]
    /\ UNCHANGED <<conn, clientClosed, closing, cached, result, aborted, clock, toldBy>>

(* The finally block of the tracked promise forgets it, then everybody who *)
(* shares it is told.                                                      *)
Untrack ==
    /\ flight # Nobody /\ flight.out # "none"
    /\ pending' = FALSE /\ flight' = Nobody
    /\ pc' = [c \in Callers |-> IF pc[c] = "waiting" THEN "resumed" ELSE pc[c]]
    /\ got' = [c \in Callers |-> IF pc[c] = "waiting" THEN flight.out ELSE got[c]]
    /\ toldBy' = [c \in Callers |->
                    IF pc[c] = "waiting" /\ flight.kind = "open" /\ flight.out = "abort"
                    THEN flight.owner ELSE toldBy[c]]
    /\ UNCHANGED <<conn, clientClosed, closing, cached, result, aborted, clock>>

--------------------------------------------------------------------------------
(* The rest of the facade *)

(* client.kv, client.queue, ...: made once for the owned connection.       *)
GetDomain ==
    /\ ~clientClosed /\ conn # "none" /\ ~cached
    /\ cached' = TRUE
    /\ UNCHANGED <<conn, flight, pending, clientClosed, closing, pc, got, result, aborted, clock,
                   toldBy>>

(* close(): the client is closed at once, the connection as well; later    *)
(* calls share the promise.                                                *)
Close ==
    /\ closing = "open"
    /\ clientClosed' = TRUE /\ pending' = FALSE
    /\ IF conn = "none"
       THEN closing' = "closed" /\ UNCHANGED conn
       ELSE closing' = "closing" /\ conn' = "closed"
    /\ UNCHANGED <<flight, cached, pc, got, result, aborted, clock,
                   toldBy>>

(* connection.close() is done: let go of it and of the domain clients.     *)
CloseReturns ==
    /\ closing = "closing"
    /\ closing' = "closed" /\ cached' = FALSE
    /\ UNCHANGED <<conn, flight, pending, clientClosed, pc, got, result, aborted, clock,
                   toldBy>>

FlightEnds ==
    \/ \E out \in Failures \cup {"ok", "abort"} : OpenEnds(out)
    \/ WaitTimesOut \/ ClosedEndsFlight

Next ==
    \/ \E c \in Callers :
          \/ Call(c) \/ Resume(c) \/ SleepEnds(c) \/ SleepAborted(c)
          \/ CallerAborts(c) \/ DeadlinePasses(c) \/ TimerFires(c)
    \/ FlightEnds \/ Untrack
    \/ \E next \in {"recovering", "idle"} : SessionLost(next)
    \/ \E out \in Failures \cup {"ok"} : RecoveryEnds(out)
    \/ GetDomain \/ Close \/ CloseReturns

(* Continuations run, time passes, back-offs end; the connection bounds    *)
(* each attempt and each wait by a timer.                                  *)
Fairness ==
    /\ \A c \in Callers :
          /\ WF_vars(Resume(c)) /\ WF_vars(SleepEnds(c))
          /\ WF_vars(DeadlinePasses(c)) /\ WF_vars(TimerFires(c))
    /\ WF_vars(FlightEnds) /\ WF_vars(Untrack) /\ WF_vars(CloseReturns)

FairSpec == Init /\ [][Next]_vars /\ Fairness

--------------------------------------------------------------------------------
(* Properties *)

(* The variables have their types.                                         *)
TypeOK ==
    /\ conn \in {"none", "idle", "opening", "ready", "recovering", "closed"}
    /\ flight = Nobody \/ flight \in [kind : {"open", "wait"}, owner : Callers,
                                         out : Outcomes]
    /\ pending \in BOOLEAN /\ clientClosed \in BOOLEAN /\ cached \in BOOLEAN
    /\ closing \in {"open", "closing", "closed"}
    /\ pc \in [Callers -> {"idle", "waiting", "resumed", "sleeping", "done"}]
    /\ got \in [Callers -> Outcomes]
    /\ result \in [Callers -> Outcomes \cup {"timeout"}]
    /\ aborted \subseteq Callers
    /\ clock \in [Callers -> {"running", "passed", "fired"}]
    /\ toldBy \in [Callers -> Callers \cup {Nobody}]

(* A call ends for a reason of its own.  Nobody is told of a connection    *)
(* after close(): a promise that settled well just before close(), and     *)
(* whose waiters continue after it, still rejects them.  Since             *)
(* connectWhenReady() "retries initial startup-readiness failures only",   *)
(* while the client is open it ends with no such failure, and with a       *)
(* timeout only after its own deadline, so never when it has none.  And a  *)
(* call is aborted only by its own signal, unless it shared an attempt     *)
(* that was opened with the signal of another caller (client-core.ts:388)  *)
(* who aborted it or whose deadline did.  A shared wait for a recovery     *)
(* spreads no abort.                                                       *)
EndsForItsOwnReason ==
    [][\A c \in Callers :
          /\ clientClosed /\ result'[c] = "ok" => result[c] = "ok"
          /\ c \in WhenReady /\ pc[c] # "done" /\ pc'[c] = "done" /\ ~clientClosed =>
                /\ result'[c] # "unready"
                /\ result'[c] = "timeout" => c \notin NoDeadline /\ HasExpired(c)
          /\ pc[c] # "done" /\ result'[c] = "abort" =>
                c \in aborted \/ \E d \in Callers \ {c} : toldBy[c] = d /\ Cancelled(d)]_vars

(* What the documentation says (PUBLIC_CONTRACT.md:18-21, OPERATIONS.md:   *)
(* 53-56): only a caller's own abort makes its call stop as aborted.  Not  *)
(* so: the shared attempt is made with the first caller's signal           *)
(* (client-core.ts:388).                                                   *)
AbortIsOwn == \A c \in Callers : result[c] = "abort" => c \in aborted

(* Every call ends: connect() with its attempt, connectWhenReady() at its  *)
(* deadline at the latest, and without a deadline once the client is       *)
(* closed.                                                                 *)
EveryCallSettles ==
    /\ \A c \in Callers \ NoDeadline : pc[c] # "idle" ~> pc[c] = "done"
    /\ \A c \in NoDeadline : (pc[c] # "idle" /\ clientClosed) ~> pc[c] = "done"
================================================================================
