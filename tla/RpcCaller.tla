------------------------------ MODULE RpcCaller ------------------------------
(***************************************************************************)
(* The calling side of the RPC client: call(), the response iterator it    *)
(* returns, the cancellation hand-shake and the pool of correlation-id     *)
(* buffers (domains/rpc/client.ts, iterator.ts, codec.ts).                 *)
(*                                                                         *)
(* A correlation id is random, so it is identified with the call that drew *)
(* it.  What the code stores is a 16-byte BUFFER holding the id: the map   *)
(* keys are computed from it once, the CANCELLATION frame is encoded from  *)
(* it later, and buffers are recycled, so content[b] is state.             *)
(*                                                                         *)
(* The connection is abstracted to what send() does for its caller: the    *)
(* frame waits until a session is usable, whichever session that is, and   *)
(* the promise is then fulfilled or rejected.                              *)
(***************************************************************************)
EXTENDS Naturals, Sequences, FiniteSets

CONSTANTS
    MaxCalls,     \* bound on the calls made
    Buffers,      \* correlation-id buffers that may be allocated
    MaxFrames,    \* response frames a worker streams before the terminal one
    MaxLosses     \* bound on connection losses

ASSUME CallerAssumption ==
    /\ IsFiniteSet(Buffers) /\ Cardinality(Buffers) >= MaxCalls
    /\ MaxCalls \in Nat /\ MaxFrames \in Nat /\ MaxLosses \in Nat

None == "none"

(* Calls are numbered in the order they are made.                          *)
Calls == 1..MaxCalls

VARIABLES
    up,          \* the connection has a usable session
    losses,      \* connection losses so far
    call,        \* iterator: idle, open, ended, failed, cancelled
    supports,    \* supportsCancellation: the broker's protocol version is 2
    req,         \* REQUEST frame: none, waiting, written, sent, unsent
    can,         \* abandon(): none, awaitSent, waiting, awaitResult, settled
    outcome,     \* what the `cancellation` promise resolved to
    frames,      \* the iterator's buffer
    consumer,    \* next(): idle, waiting, finished
    got,         \* frames next() has handed to the application
    pending,     \* pendingRpcs
    abandoned,   \* abandonedCorrelationIds
    cancelling,  \* pendingCancellations
    buf,         \* the buffer each call holds
    content,     \* the id each buffer holds, 0 when never used
    pool,        \* correlationIdPool
    srv,         \* broker: none, serving or over, per correlation id
    served,      \* response frames that arrived while the call was open
    cancels      \* CANCELLATION frames written: <<call, id in the frame>>

connVars == <<up, losses>>
iterVars == <<call, outcome, frames, consumer, got>>
mapVars == <<pending, abandoned, cancelling>>
poolVars == <<buf, content, pool>>
wireVars == <<srv, served, cancels>>
vars == <<connVars, iterVars, supports, req, can, mapVars, poolVars, wireVars>>

Outcomes == {"not_requested", "request_not_sent", "unsupported",
             "unconfirmed", "connection_closed", "result"}

TypeOK ==
    /\ up \in BOOLEAN /\ losses \in 0..MaxLosses
    /\ call \in [Calls -> {"idle", "open", "ended", "failed", "cancelled"}]
    /\ supports \in BOOLEAN
    /\ req \in [Calls -> {"none", "waiting", "written", "sent", "unsent"}]
    /\ can \in [Calls -> {"none", "awaitSent", "waiting", "awaitResult", "settled"}]
    /\ outcome \in [Calls -> Outcomes \cup {None}]
    /\ frames \in [Calls -> Seq(1..(MaxFrames + 1))]
    /\ consumer \in [Calls -> {"idle", "waiting", "finished"}]
    /\ got \in [Calls -> Seq(1..(MaxFrames + 1))]
    /\ pending \subseteq Calls /\ abandoned \subseteq Calls
    /\ cancelling \subseteq Calls
    /\ buf \in [Calls -> Buffers \cup {None}]
    /\ content \in [Buffers -> Calls \cup {0}] /\ pool \subseteq Buffers
    /\ srv \in [Calls -> {"none", "serving", "over"}]
    /\ served \in [Calls -> 0..(MaxFrames + 1)]
    /\ cancels \subseteq Calls \X Calls

Init ==
    /\ up = TRUE /\ losses = 0
    /\ call = [c \in Calls |-> "idle"]
    /\ supports \in BOOLEAN
    /\ req = [c \in Calls |-> "none"] /\ can = [c \in Calls |-> "none"]
    /\ outcome = [c \in Calls |-> None]
    /\ frames = [c \in Calls |-> <<>>]
    /\ consumer = [c \in Calls |-> "idle"]
    /\ got = [c \in Calls |-> <<>>]
    /\ pending = {} /\ abandoned = {} /\ cancelling = {}
    /\ buf = [c \in Calls |-> None]
    /\ content = [b \in Buffers |-> 0] /\ pool = {}
    /\ srv = [c \in Calls |-> "none"] /\ served = [c \in Calls |-> 0]
    /\ cancels = {}

-----------------------------------------------------------------------------
(* acquirePooledCorrelationId: a recycled buffer when there is one, else a *)
(* new one; either way it is filled with a fresh random id.                *)
AcquireId(c, b) ==
    /\ b \in IF pool # {} THEN pool ELSE {CHOOSE x \in Buffers : content[x] = 0}
    /\ pool' = pool \ {b}
    /\ buf' = [buf EXCEPT ![c] = b]
    /\ content' = [content EXCEPT ![b] = c]

(* Sabotaged variant: the buffer is recycled whoever may still use it.     *)
ReleasedAlways(C) == {buf[c] : c \in C \cap pending}

(* The buffers cleanupPendingRpc hands back: of the calls of C still       *)
(* registered and not abandoned.                                           *)
Released(C) == {buf[c] : c \in (C \cap pending) \ abandoned}

(* cleanupPendingRpc for the calls of C.                                   *)
CleanupPendingRpc(C) ==
    /\ pending' = pending \ C
    /\ abandoned' = abandoned \ (C \cap pending)
    /\ pool' = pool \cup Released(C)
    /\ UNCHANGED <<buf, content>>

-----------------------------------------------------------------------------
(* call(): register the iterator and hand the REQUEST to the connection.   *)
(* The abort signal may have fired already: the iterator is then cancelled *)
(* from its constructor and the frame is refused.                          *)
Call(c, b, aborted) ==
    /\ call[c] = "idle" /\ \A d \in 1..(c - 1) : call[d] # "idle"
    /\ AcquireId(c, b)
    /\ pending' = pending \cup {c}
    /\ call' = [call EXCEPT ![c] = IF aborted THEN "cancelled" ELSE "open"]
    /\ req' = [req EXCEPT ![c] = IF aborted THEN "unsent" ELSE "waiting"]
    /\ can' = [can EXCEPT ![c] = IF aborted THEN "awaitSent" ELSE "none"]
    /\ abandoned' = IF aborted THEN abandoned \cup {c} ELSE abandoned
    /\ UNCHANGED <<connVars, outcome, frames, consumer, got, supports, cancelling, wireVars>>

(* The REQUEST reaches the broker in whatever session is up by then.       *)
WriteRequest(c) ==
    /\ req[c] = "waiting" /\ up
    /\ req' = [req EXCEPT ![c] = "written"]
    /\ srv' = [srv EXCEPT ![c] = "serving"]
    /\ UNCHANGED <<connVars, iterVars, supports, can, mapVars, poolVars, served, cancels>>

(* The send promise is fulfilled; responses may have arrived before it.    *)
RequestSent(c) ==
    /\ req[c] = "written"
    /\ req' = [req EXCEPT ![c] = "sent"]
    /\ UNCHANGED <<connVars, iterVars, supports, can, mapVars, poolVars, wireVars>>

(* Sabotaged variant: a failing call throws its buffered frames away.      *)
FailDropping(C) ==
    LET live == {c \in C : call[c] = "open"} IN
    /\ call' = [c \in Calls |-> IF c \in live THEN "failed" ELSE call[c]]
    /\ outcome' = [c \in Calls |-> IF c \in live THEN "not_requested" ELSE outcome[c]]
    /\ frames' = [c \in Calls |-> IF c \in live THEN <<>> ELSE frames[c]]
    /\ consumer' = [c \in Calls |->
          IF c \in live /\ consumer[c] = "waiting" THEN "finished" ELSE consumer[c]]
    /\ UNCHANGED got

(* iterator.fail for the open calls of C: the pending next() is rejected,  *)
(* the buffered frames stay.                                               *)
Fail(C) ==
    LET live == {c \in C : call[c] = "open"} IN
    /\ call' = [c \in Calls |-> IF c \in live THEN "failed" ELSE call[c]]
    /\ outcome' = [c \in Calls |-> IF c \in live THEN "not_requested" ELSE outcome[c]]
    /\ consumer' = [c \in Calls |->
          IF c \in live /\ consumer[c] = "waiting" THEN "finished" ELSE consumer[c]]
    /\ UNCHANGED <<got, frames>>

(* The send is rejected: not ready in time, queue full, transport failure. *)
(* A transport's send timeout rejects a frame whose bytes may reach the    *)
(* broker all the same; that matters for a call that was cancelled and     *)
(* keeps its entry, the answers to any other one find none.                *)
RequestNotSent(c, reached) ==
    /\ req[c] = "waiting" /\ (reached => up /\ call[c] = "cancelled")
    /\ req' = [req EXCEPT ![c] = "unsent"]
    /\ srv' = [srv EXCEPT ![c] = IF reached THEN "serving" ELSE "none"]
    /\ Fail({c})
    /\ IF call[c] = "open" THEN CleanupPendingRpc({c})
                           ELSE UNCHANGED <<pending, abandoned, poolVars>>
    /\ UNCHANGED <<connVars, supports, can, cancelling, served, cancels>>

-----------------------------------------------------------------------------
(* iterator.push: a waiting next() takes the frame, else it is buffered.   *)
Push(c, n) ==
    IF call[c] # "open" THEN UNCHANGED <<frames, got, consumer>>
    ELSE IF consumer[c] = "waiting"
         THEN /\ consumer' = [consumer EXCEPT ![c] = "idle"]
              /\ got' = [got EXCEPT ![c] = Append(@, n)]
              /\ UNCHANGED frames
         ELSE /\ frames' = [frames EXCEPT ![c] = Append(@, n)]
              /\ UNCHANGED <<got, consumer>>

(* handleRpcResponse, a frame inside the stream.                           *)
RecvFrame(c) ==
    /\ up /\ srv[c] = "serving" /\ served[c] < MaxFrames
    /\ served' = [served EXCEPT ![c] = IF call[c] = "open" THEN @ + 1 ELSE @]
    /\ IF c \in pending THEN Push(c, served[c] + 1)
                        ELSE UNCHANGED <<frames, got, consumer>>
    /\ UNCHANGED <<connVars, call, outcome, supports, req, can, mapVars, poolVars, srv, cancels>>

(* handleRpcResponse, the terminal frame, with or without a body: push,    *)
(* clean up, end.                                                          *)
RecvEnd(c, body) ==
    /\ up /\ srv[c] = "serving"
    /\ srv' = [srv EXCEPT ![c] = "over"]
    /\ served' = [served EXCEPT ![c] = 
          IF body /\ call[c] = "open" THEN @ + 1 ELSE @]
    /\ IF c \notin pending
       THEN UNCHANGED <<iterVars, pending, abandoned, poolVars>>
       ELSE /\ CleanupPendingRpc({c})
            /\ IF call[c] # "open" THEN UNCHANGED iterVars
               ELSE /\ call' = [call EXCEPT ![c] = "ended"]
                    /\ outcome' = [outcome EXCEPT ![c] = "not_requested"]
                    /\ IF body
                       THEN Push(c, served[c] + 1)
                       ELSE /\ consumer' = [consumer EXCEPT ![c] =
                                   IF @ = "waiting" THEN "finished" ELSE @]
                            /\ UNCHANGED <<frames, got>>
    /\ UNCHANGED <<connVars, supports, req, can, cancelling, cancels>>

(* handleRpcResponse, a terminal error: fail() ignores a cancelled call,   *)
(* whose entry stays until its cancellation settles.                       *)
RecvError(c) ==
    /\ up /\ srv[c] = "serving"
    /\ srv' = [srv EXCEPT ![c] = "over"]
    /\ Fail(pending \cap {c}) 
    /\ IF c \in pending /\ call[c] = "open" THEN CleanupPendingRpc({c})
       ELSE UNCHANGED <<pending, abandoned, poolVars>>
    /\ UNCHANGED <<connVars, supports, req, can, cancelling, served, cancels>>

(* next(): buffered frames first, then the failure or the end, else wait.  *)
NextFrame(c) ==
    /\ call[c] # "idle" /\ consumer[c] = "idle"
    /\ IF frames[c] # <<>>
       THEN /\ got' = [got EXCEPT ![c] = Append(@, Head(frames[c]))]
            /\ frames' = [frames EXCEPT ![c] = Tail(@)]
            /\ UNCHANGED consumer
       ELSE /\ consumer' = [consumer EXCEPT ![c] =
                   IF call[c] = "open" THEN "waiting" ELSE "finished"]
            /\ UNCHANGED <<got, frames>>
    /\ UNCHANGED <<connVars, call, outcome, supports, req, can, mapVars, poolVars, wireVars>>

-----------------------------------------------------------------------------
(* Sabotaged variant: cancel() does not reject the next() that waits.      *)
CancelLeavesWaiter(c) ==
    /\ call[c] = "open"
    /\ call' = [call EXCEPT ![c] = "cancelled"]
    /\ frames' = [frames EXCEPT ![c] = <<>>]
    /\ abandoned' = abandoned \cup {c}
    /\ can' = [can EXCEPT ![c] = "awaitSent"]
    /\ UNCHANGED <<connVars, consumer, outcome, got, supports, req, pending, cancelling, poolVars, wireVars>>

(* iterator.cancel: the signal fires, return() is called or the deadline   *)
(* timer runs out.  The buffer is dropped and abandon() begins.            *)
Cancel(c) ==
    /\ call[c] = "open"
    /\ call' = [call EXCEPT ![c] = "cancelled"]
    /\ frames' = [frames EXCEPT ![c] = <<>>]
    /\ consumer' = [consumer EXCEPT ![c] = IF @ = "waiting" THEN "finished" ELSE @]
    /\ abandoned' = abandoned \cup {c}
    /\ can' = [can EXCEPT ![c] = "awaitSent"]
    /\ UNCHANGED <<connVars, outcome, got, supports, req, pending, cancelling, poolVars, wireVars>>

(* abandon() settles without a frame: nothing to cancel, or not supported. *)
AbandonLocally(c) ==
    /\ can[c] = "awaitSent"
    /\ \/ req[c] = "unsent"
       \/ req[c] = "sent" /\ ~supports
    /\ can' = [can EXCEPT ![c] = "settled"]
    /\ outcome' = [outcome EXCEPT ![c] =
          IF req[c] = "unsent" THEN "request_not_sent" ELSE "unsupported"]
    /\ CleanupPendingRpc({c})
    /\ UNCHANGED <<connVars, call, frames, consumer, got, supports, req, cancelling, wireVars>>

(* sendCancellationRequest: register, encode the frame from the call's     *)
(* buffer and hand it to the connection.                                   *)
SendCancellationRequest(c) ==
    /\ can[c] = "awaitSent" /\ req[c] = "sent" /\ supports
    /\ can' = [can EXCEPT ![c] = "waiting"]
    /\ cancelling' = cancelling \cup {c}
    /\ cancels' = cancels \cup {<<c, content[buf[c]]>>}
    /\ UNCHANGED <<connVars, iterVars, supports, req, pending, abandoned, poolVars, srv, served>>

(* The CANCELLATION frame is written.                                      *)
WriteCancellation(c) ==
    /\ can[c] = "waiting" /\ up
    /\ can' = [can EXCEPT ![c] = "awaitResult"]
    /\ UNCHANGED <<connVars, iterVars, supports, req, mapVars, poolVars, wireVars>>

(* settleCancellationResult: the first of the broker's result, the five-   *)
(* second timer and a rejected send.                                       *)
SettleCancellationResult(c, result) ==
    /\ c \in cancelling
    /\ \/ result = "result" /\ can[c] = "awaitResult" /\ up
       \/ result = "unconfirmed"
       \/ result = "connection_closed" /\ can[c] = "waiting" /\ ~up
    /\ cancelling' = cancelling \ {c}
    /\ can' = [can EXCEPT ![c] = "settled"]
    /\ outcome' = [outcome EXCEPT ![c] = result]
    /\ CleanupPendingRpc({c})
    /\ UNCHANGED <<connVars, call, frames, consumer, got, supports, req, wireVars>>

-----------------------------------------------------------------------------
(* onDisconnect: every iterator fails, pending cancellations resolve with  *)
(* "connection_closed", the maps are emptied.  Requests and cancellations  *)
(* still waiting for a usable session keep waiting.                        *)
Disconnect ==
    /\ up /\ losses < MaxLosses
    /\ up' = FALSE /\ losses' = losses + 1
    /\ LET live == {c \in pending : call[c] = "open"} IN
       /\ call' = [c \in Calls |-> IF c \in live THEN "failed" ELSE call[c]]
       /\ outcome' = [c \in Calls |->
             IF c \in live THEN "not_requested"
             ELSE IF c \in cancelling THEN "connection_closed" ELSE outcome[c]]
       /\ consumer' = [c \in Calls |->
             IF c \in live /\ consumer[c] = "waiting" THEN "finished" ELSE consumer[c]]
       /\ pool' = pool \cup Released(live)
    /\ can' = [c \in Calls |-> IF c \in cancelling THEN "settled" ELSE can[c]]
    /\ pending' = {} /\ abandoned' = {} /\ cancelling' = {}
    /\ srv' = [c \in Calls |-> IF srv[c] = "serving" THEN "over" ELSE srv[c]]
    /\ UNCHANGED <<frames, got, supports, req, buf, content, served, cancels>>

Reconnect ==
    /\ ~up /\ up' = TRUE
    /\ UNCHANGED <<losses, iterVars, supports, req, can, mapVars, poolVars, wireVars>>

RequestSettles(c) ==
    \/ WriteRequest(c) \/ RequestSent(c)
    \/ \E reached \in BOOLEAN : RequestNotSent(c, reached)
Abandon(c) == AbandonLocally(c) \/ SendCancellationRequest(c)
CancellationTimeout(c) == SettleCancellationResult(c, "unconfirmed")

Next ==
    \/ Disconnect \/ Reconnect
    \/ \E c \in Calls :
          \/ \E b \in Buffers, aborted \in BOOLEAN : Call(c, b, aborted)
          \/ RequestSettles(c) \/ Abandon(c) \/ WriteCancellation(c)
          \/ RecvFrame(c) \/ RecvError(c) \/ NextFrame(c) \/ Cancel(c)
          \/ \E body \in BOOLEAN : RecvEnd(c, body)
          \/ \E r \in Outcomes : SettleCancellationResult(c, r)

Spec == Init /\ [][Next]_vars

(* The send promise always settles (readiness, gate and write are bounded  *)
(* by the request timeout), continuations of settled promises run, and the *)
(* deadline and the cancellation timer fire.                               *)
Fairness ==
    \A c \in Calls :
        /\ WF_vars(RequestSettles(c)) /\ WF_vars(Abandon(c))
        /\ WF_vars(Cancel(c)) /\ WF_vars(CancellationTimeout(c))

FairSpec == Spec /\ Fairness

-----------------------------------------------------------------------------
(* A CANCELLATION frame names the call that was cancelled: the buffer it   *)
(* is encoded from has not been recycled for a later call, whatever        *)
(* response, timeout or disconnect ran between cancel() and the encoding   *)
(* (cleanupPendingRpc keeps the buffer of an abandoned call out of the     *)
(* pool).                                                                  *)
CancellationNamesItsCall == \A p \in cancels : p[1] = p[2]

(* next() hands out the frames of its call in order and, unless the call   *)
(* was cancelled, every frame that arrived before the end or the failure   *)
(* is handed out or still buffered ("frames pushed before a later failure  *)
(* are still deliverable").                                                *)
FramesInOrder ==
    \A c \in Calls :
        LET seen == got[c] \o frames[c] IN
        /\ seen = [i \in 1..Len(seen) |-> i]
        /\ call[c] # "cancelled" => Len(seen) = served[c]

(* Every call ends: a waiting next() is answered and the `cancellation`    *)
(* promise settles, also when the request is still waiting for a session,  *)
(* the broker never answers and the connection never comes back.  A call   *)
(* that has ended is in none of the client's maps: no order of response,   *)
(* result, timer and disconnect leaves an entry behind.                    *)
EveryCallSettles ==
    \A c \in Calls :
        /\ call[c] # "idle" ~> outcome[c] # None /\ consumer[c] # "waiting"
        /\ [](call[c] # "open" /\ outcome[c] # None
                => c \notin pending \cup abandoned \cup cancelling)
=============================================================================
