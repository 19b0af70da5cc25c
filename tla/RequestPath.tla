------------------------------ MODULE RequestPath ------------------------------
(***************************************************************************)
(* The way of a request through the connection: readiness, the gate of the *)
(* session, the write chain, the answer, and the retry loop around it      *)
(* (connection.ts, internal/readiness.ts, resilience.ts), together with    *)
(* the handle of a KV transaction, a stream session or a queue item, which *)
(* is bound to a session of the connection (kv/transaction.ts,             *)
(* stream/session.ts, queue/types.ts).  What ends a handle is a "commit"   *)
(* (complete() of an item) or a "rollback" (its nack()).                   *)
(*                                                                         *)
(* The gate is module RequestGate; its variables describe the gate of the  *)
(* current session.  A new session has a new gate, so a slot held in an    *)
(* earlier one no longer counts (NewGate).                                 *)
(*                                                                         *)
(* A caller makes one call.  Its attempts are numbered; the continuation   *)
(* of a settled promise is a step of its own, so other continuations, and  *)
(* the loss of the connection, may come before it.  Only I/O brings a new  *)
(* session, so no continuation is outstanding when one begins.             *)
(***************************************************************************)
EXTENDS RequestGate

HandleClasses == {"handleRead", "handleWrite", "commit", "rollback"}
AllClasses == HandleClasses \cup {"publish", "send", "restore"}

CONSTANTS
    Classes(_),   \* the kinds of call each caller may make
    MaxSessions,  \* bound on the sessions
    MaxAttempts   \* retryMaxAttempts

ASSUME PathAssumption ==
    /\ \A c \in Callers : Classes(c) \subseteq AllClasses
    /\ MaxSessions \in Nat \ {0} /\ MaxAttempts \in Nat \ {0}

VARIABLES
    conn,       \* up, down, restoring (reconnectRestoreActive) or closed
    sess,       \* the current session: its transport, multiplexer epoch, gate
    past,       \* history: callers whose request was issued before the session
    pc,         \* idle, ready, woken, gate, chain, reply, rejected, backoff, done
    class,      \* how the call is retried, "none" before it is made
    attempt,    \* attempts begun
    err,        \* the error a pending rejection carries
    kind,       \* the handle: none, kv (a transaction), stream or item
    open,       \* the handle's calls pass ensureOpen()
    begun,      \* the session BEGIN was answered in
    granted,    \* the handle BEGIN was answered for while it is not made yet
    untold,     \* history: the handle was made after the loss of its session
    waitSlots,  \* callers counted by readyWaiterCount
    chain,      \* writeChain: frames, the head is in transport.send()
    answer,     \* the broker's verdict on the current attempt
    wire,       \* whose frame the broker of the session received last
    effects     \* how often the broker executed each call that has an effect

session == <<sess, past>>
grant == <<granted, untold>>
handle == <<kind, open, begun, grant>>
pathVars == <<conn, session, pc, class, attempt, err, handle, waitSlots, chain, answer, wire, effects>>
pvars == <<vars, pathVars>>

(* get(), scan(), put(), insert(), delete(), commit(), rollback() ...      *)
ViaHandle(k) == k \in HandleClasses

(* A frame names its caller and attempt and the transport it was captured  *)
(* for (requestTransport).                                                 *)
Frame(c) == [caller |-> c, attempt |-> attempt[c], for |-> sess]

(* No continuation is outstanding.                                         *)
Settled ==
    /\ granted = "none"
    /\ \A c \in Callers :
        /\ pc[c] \notin {"woken", "rejected"}
        /\ pc[c] = "gate" => status[c] = "waiting"

PInit ==
    /\ Init
    /\ conn = "up" /\ sess = 1 /\ past = {}
    /\ pc = [c \in Callers |-> "idle"]
    /\ class = [c \in Callers |-> "none"]
    /\ attempt = [c \in Callers |-> 0]
    /\ err = [c \in Callers |-> "none"]
    /\ kind = "none" /\ open = FALSE /\ begun = 0 /\ granted = "none" /\ untold = FALSE
    /\ waitSlots = {} /\ chain = <<>>
    /\ answer = [c \in Callers |-> "none"]
    /\ wire = {} /\ effects = [c \in Callers |-> 0]

--------------------------------------------------------------------------------
(* How an attempt begins and ends *)

(* A variant in which a write is retried like a read.                      *)
ShouldRetryAnyTransient(k, e) ==
    \/ k = "handleRead" /\ e \in {"timeout", "transport", "connection", "full", "negative"}
    \/ k = "publish" /\ e \in {"timeout", "transport", "connection", "negative"}

(* shouldRetryOperation: reads on any transient error, enqueue() only when *)
(* the broker refused it in so many words, everything else never.          *)
ShouldRetryOperation(k, e) ==
    \/ k = "handleRead" /\ e \in {"timeout", "transport", "connection", "full", "negative"}
    \/ k = "publish" /\ e = "negative"

(* executeWithRetry after an attempt failed with e: back off or give up.   *)
(* What the caller still held of the readiness counter is given back.      *)
AttemptFails(c, e) ==
    /\ pc' = [pc EXCEPT ![c] =
          IF ShouldRetryOperation(class[c], e) /\ attempt[c] < MaxAttempts
          THEN "backoff" ELSE "done"]
    /\ err' = [err EXCEPT ![c] = "none"]
    /\ answer' = [answer EXCEPT ![c] = "none"]
    /\ waitSlots' = waitSlots \ {c}

(* A stream session is closed by the answer to its COMMIT, a queue item by *)
(* the one to its COMPLETE or NACK; extend() leaves it open.               *)
ItemEnds(k) == kind = "item" /\ k \in {"commit", "rollback"}
AnswerCloses(k) == ItemEnds(k) \/ (kind = "stream" /\ k = "commit")

CallSucceeds(c) ==
    /\ pc' = [pc EXCEPT ![c] = "done"]
    /\ answer' = [answer EXCEPT ![c] = "none"]
    /\ open' = (open /\ ~AnswerCloses(class[c]))
    /\ UNCHANGED <<err, waitSlots, kind, begun, grant>>

(* The finally block: release the slot, of this session's gate if it is    *)
(* one of its slots.                                                       *)
ReleaseSlot(c) ==
    IF status[c] = "held" THEN Release(c) ELSE UNCHANGED vars

(* waitForRequestReady up to its await: pass at once, fail, or take a slot *)
(* of the readiness counter and wait for a change of state.                *)
WaitForReady(c) ==
    \/ /\ conn = "up"
       /\ pc' = [pc EXCEPT ![c] = "woken"] /\ UNCHANGED <<err, waitSlots>>
    \/ /\ conn \in {"down", "restoring"} /\ Cardinality(waitSlots) < MaxQueueSize
       /\ pc' = [pc EXCEPT ![c] = "ready"]
       /\ waitSlots' = waitSlots \cup {c} /\ UNCHANGED err
    \/ /\ \/ conn = "closed"
          \/ conn \in {"down", "restoring"} /\ Cardinality(waitSlots) >= MaxQueueSize
       /\ pc' = [pc EXCEPT ![c] = "rejected"]
       /\ err' = [err EXCEPT ![c] = IF conn = "closed" THEN "connection" ELSE "full"]
       /\ UNCHANGED waitSlots

--------------------------------------------------------------------------------
(* The steps of a call *)

(* BEGIN or RESERVE is answered with the id of a transaction, a session or *)
(* an item (how the request got there is not told again).  Its continuation*)
(* makes the handle.                                                       *)
Granted(k) ==
    /\ kind = "none" /\ granted = "none" /\ conn = "up"
    /\ granted' = k /\ begun' = sess
    /\ UNCHANGED <<vars, conn, session, pc, class, attempt, err, kind, open, untold, waitSlots, chain, answer, wire, effects>>

(* The continuation makes the handle, which listens for a disconnect from  *)
(* then on: of one that came before it is not told.                        *)
MakeHandle(k) ==
    /\ granted = k /\ granted' = "none"
    /\ kind' = k /\ open' = TRUE /\ untold' = (conn # "up")
    /\ UNCHANGED <<vars, conn, session, pc, class, attempt, err, begun, waitSlots, chain, answer, wire, effects>>

(* createKvTransaction, createStreamSession, createQueueItem.              *)
KvBegin == MakeHandle("kv")
StreamBegin == MakeHandle("stream")
ReserveItem == MakeHandle("item")

(* A variant in which COMMIT closes a transaction when it is answered.     *)
KvClosesLate(k) == k = "rollback"

(* The calls that close a transaction before their request is made.        *)
KvCloses(k) == k \in {"commit", "rollback"}

(* A stream session is closed by rollback() before its request is made.    *)
StreamCloses(k) == k = "rollback"

(* ensureOpen(): the handle is neither ended nor told of a disconnect.     *)
(* Sessions and items have writes only (append(), extend()).               *)
EnsureOpen(k) ==
    /\ open
    /\ k = "handleRead" => kind = "kv"
    /\ open' = ~ \/ kind = "kv" /\ KvCloses(k)
                 \/ kind = "stream" /\ StreamCloses(k)
    /\ UNCHANGED <<kind, begun, grant>>

(* A call through the handle, of get(), put(), append(), complete() ...    *)
HandleCall(c, k) ==
    /\ ViaHandle(k) /\ pc[c] = "idle"
    /\ EnsureOpen(k)
    /\ class' = [class EXCEPT ![c] = k]
    /\ attempt' = [attempt EXCEPT ![c] = 1]
    /\ WaitForReady(c)
    /\ UNCHANGED <<vars, conn, session, chain, answer, wire, effects>>

(* A call of the client itself: enqueue() and its like ("publish"), or a   *)
(* send() without an answer.                                               *)
ClientCall(c, k) ==
    /\ k \in {"publish", "send"} /\ pc[c] = "idle"
    /\ class' = [class EXCEPT ![c] = k]
    /\ attempt' = [attempt EXCEPT ![c] = 1]
    /\ WaitForReady(c)
    /\ UNCHANGED <<vars, conn, session, handle, chain, answer, wire, effects>>

(* A reconnect listener's request does not wait for readiness while the    *)
(* restore it belongs to runs.                                             *)
RestoreCall(c, k) ==
    /\ k = "restore" /\ pc[c] = "idle"
    /\ class' = [class EXCEPT ![c] = k]
    /\ attempt' = [attempt EXCEPT ![c] = 1]
    /\ IF conn = "restoring"
       THEN pc' = [pc EXCEPT ![c] = "woken"] /\ UNCHANGED <<err, waitSlots>>
       ELSE WaitForReady(c)
    /\ UNCHANGED <<vars, conn, session, handle, chain, answer, wire, effects>>

MakeCall(c, k) == HandleCall(c, k) \/ ClientCall(c, k) \/ RestoreCall(c, k)

(* The wait for readiness ends without it: the timer or the signal.        *)
ReadyGivesUp(c, e) ==
    /\ pc[c] = "ready" /\ e \in {"connection", "abort"}
    /\ pc' = [pc EXCEPT ![c] = "rejected"]
    /\ err' = [err EXCEPT ![c] = e]
    /\ UNCHANGED <<vars, conn, session, class, attempt, handle, waitSlots, chain, answer, wire, effects>>

(* Behind the await of readiness: ensureAuthenticated(), then acquire().   *)
Woken(c) ==
    /\ pc[c] = "woken"
    /\ LET passes == conn = "up" \/ (class[c] = "restore" /\ ~closed) IN
       \/ /\ ~passes
          /\ AttemptFails(c, "connection") /\ UNCHANGED vars
       \/ /\ passes
          /\ AcquireGranted(c) \/ AcquireQueued(c)
          /\ pc' = [pc EXCEPT ![c] = "gate"]
          /\ waitSlots' = waitSlots \ {c} /\ UNCHANGED <<err, answer>>
    /\ UNCHANGED <<conn, session, class, attempt, handle, chain, wire, effects>>

(* acquire() was rejected: full, closed by a loss, or aborted.             *)
GateRejects(c) ==
    /\ pc[c] = "gate" /\ status[c] \in {"full", "closed", "aborted"}
    /\ AttemptFails(c, IF status[c] = "closed" THEN "connection"
                       ELSE IF status[c] = "full" THEN "full" ELSE "abort")
    /\ status' = [status EXCEPT ![c] = "idle"]
    /\ UNCHANGED <<activeCount, closed, queue, aborted, conn, session, class, attempt, handle, chain, wire, effects>>

(* Behind the await of the slot: the transport is captured, the request    *)
(* registered with the multiplexer, its frame put on the write chain.      *)
(* Nothing looks at the state again; only close() leaves no transport.  A  *)
(* frame longer than max_message_bytes is refused here.                    *)
Issue(c) ==
    /\ pc[c] = "gate" /\ status[c] = "held"
    /\ \/ /\ conn # "closed"
          /\ chain' = Append(chain, Frame(c))
          /\ pc' = [pc EXCEPT ![c] = "chain"]
          /\ UNCHANGED <<vars, err, waitSlots, answer>>
       \/ /\ \/ conn = "closed" /\ AttemptFails(c, "connection")
             \/ conn # "closed" /\ AttemptFails(c, "protocol")
          /\ ReleaseSlot(c)
          /\ UNCHANGED chain
    /\ UNCHANGED <<conn, session, class, attempt, handle, wire, effects>>

(* The attempt the head of the chain belongs to is still pending.          *)
Pending(f) ==
    pc[f.caller] = "chain" /\ attempt[f.caller] = f.attempt

(* A variant that writes to whatever transport is current by then.         *)
CarrierCurrent(f) == sess

(* sendSerialized: the transport captured at admission.                    *)
Carrier(f) == f.for

(* Whether a broker gets the bytes of f, and what it makes of them: nobody *)
(* listens on the transport of an earlier session.                         *)
Verdicts(f) ==
    IF Carrier(f) # sess \/ conn = "closed" THEN {"lost"}
    ELSE IF class[f.caller] = "send" THEN {"lost", "ok"} ELSE {"lost", "ok", "negative"}

(* The broker receives f and executes or refuses it.                       *)
Deliver(f, verdict) ==
    /\ wire' = IF verdict = "lost" THEN wire ELSE {f.caller}
    /\ effects' = IF verdict # "ok" \/ class[f.caller] = "handleRead" THEN effects
                  ELSE [effects EXCEPT ![f.caller] = @ + 1]

(* transport.send() resolves; the next writer of the chain may begin.  A   *)
(* send() is complete, a request waits for its answer.                     *)
WriteSucceeds(verdict) ==
    /\ chain # <<>>
    /\ LET f == Head(chain) c == Head(chain).caller IN
       /\ verdict \in Verdicts(f)
       /\ Deliver(f, verdict)
       /\ chain' = Tail(chain)
       /\ IF ~Pending(f) THEN UNCHANGED <<vars, pc, err, handle, waitSlots, answer>>
          ELSE IF class[c] = "send"
          THEN CallSucceeds(c) /\ ReleaseSlot(c)
          ELSE /\ pc' = [pc EXCEPT ![c] = "reply"]
               /\ answer' = [answer EXCEPT ![c] = verdict]
               /\ UNCHANGED <<vars, err, handle, waitSlots>>
    /\ UNCHANGED <<conn, session, class, attempt>>

(* onDisconnect: the handle is closed, whatever session comes next.        *)
HandleDisconnected == open' = FALSE /\ UNCHANGED <<kind, begun, grant>>

(* handleConnectionLossOnce as far as requests see it, C being the callers *)
(* whose attempt ends in the same step: the multiplexer rejects every      *)
(* registered request, the gate closes, waiters for readiness stay.        *)
SessionEnds(C, next) ==
    /\ conn' = next
    /\ closed' = TRUE
    /\ status' = [c \in Callers |->
          IF \E i \in DOMAIN queue : queue[i] = c THEN "closed"
          ELSE IF c \in C /\ status[c] = "held" THEN "released" ELSE status[c]]
    /\ activeCount' = activeCount - Cardinality(C \cap Held)
    /\ aborted' = {c \in aborted : \A i \in DOMAIN queue : queue[i] # c}
    /\ queue' = <<>>
    /\ HandleDisconnected

(* The requests setDisconnected() rejects; send() is not registered.       *)
Registered ==
    {c \in Callers : pc[c] \in {"chain", "reply"} /\ class[c] # "send"}

(* handlePossibleTransportFailure: a failed write is the loss of the       *)
(* session only if the session is up and the transport is its transport.   *)
IsLoss(f) == conn = "up" /\ f.for = sess

(* transport.send() rejects: a write error ("transport"), or its timer     *)
(* ("timeout"); neither says where the bytes are.  The writer's attempt    *)
(* fails, and a write error may take the session with it.                  *)
WriteFails(verdict, e) ==
    /\ chain # <<>>
    /\ LET f == Head(chain) c == Head(chain).caller IN
       /\ verdict \in Verdicts(f)
       /\ Deliver(f, verdict)
       /\ chain' = Tail(chain)
       /\ IF ~Pending(f) THEN UNCHANGED <<vars, conn, pc, err, handle, waitSlots, answer>>
          ELSE IF e = "timeout" \/ ~IsLoss(f)
          THEN AttemptFails(c, e) /\ ReleaseSlot(c) /\ UNCHANGED <<conn, handle>>
          ELSE /\ SessionEnds({c}, "down")
               /\ LET others == Registered \ {c} IN
                  /\ pc' = [d \in Callers |->
                        IF d \in others THEN "rejected"
                        ELSE IF d # c THEN pc[d]
                        ELSE IF ShouldRetryOperation(class[c], e) /\ attempt[c] < MaxAttempts
                             THEN "backoff" ELSE "done"]
                  /\ err' = [d \in Callers |-> IF d \in others THEN "connection" ELSE err[d]]
                  /\ answer' = [d \in Callers |-> IF d \in others THEN "none" ELSE answer[d]]
               /\ UNCHANGED waitSlots
    /\ UNCHANGED <<session, class, attempt>>

(* The answer arrives: a result, or a refusal the domain client turns into *)
(* an error that says so (explicitNegative).                               *)
Reply(c) ==
    /\ pc[c] = "reply" /\ conn \in {"up", "restoring"} /\ answer[c] \in {"ok", "negative"}
    /\ IF answer[c] = "ok" THEN CallSucceeds(c)
       ELSE AttemptFails(c, "negative") /\ UNCHANGED handle
    /\ ReleaseSlot(c)
    /\ UNCHANGED <<conn, session, class, attempt, chain, wire, effects>>

(* The multiplexer's timer, or the caller's signal, ends the attempt; its  *)
(* frame may still be on the chain.                                        *)
GiveUp(c, e) ==
    /\ c \in Registered /\ e \in {"timeout", "abort"}
    /\ AttemptFails(c, e) /\ ReleaseSlot(c)
    /\ UNCHANGED <<conn, session, class, attempt, handle, chain, wire, effects>>

(* A variant without the finally block around the request.                 *)
RejectedKeepsSlot(c) ==
    /\ pc[c] = "rejected"
    /\ AttemptFails(c, err[c]) /\ UNCHANGED vars
    /\ UNCHANGED <<conn, session, class, attempt, handle, chain, wire, effects>>

(* The continuation of a rejected wait or request.                         *)
Rejected(c) ==
    /\ pc[c] = "rejected"
    /\ AttemptFails(c, err[c]) /\ ReleaseSlot(c)
    /\ UNCHANGED <<conn, session, class, attempt, handle, chain, wire, effects>>

(* The back-off is over: the task runs again, from the top.                *)
Retry(c) ==
    /\ pc[c] = "backoff"
    /\ attempt' = [attempt EXCEPT ![c] = @ + 1]
    /\ WaitForReady(c)
    /\ UNCHANGED <<vars, conn, session, class, handle, chain, answer, wire, effects>>

(* The signal fires during the back-off (sleepWithAbort).                  *)
BackoffAborted(c) ==
    /\ pc[c] = "backoff"
    /\ pc' = [pc EXCEPT ![c] = "done"]
    /\ UNCHANGED <<vars, conn, session, class, attempt, err, handle, waitSlots, chain, answer, wire, effects>>

--------------------------------------------------------------------------------
(* The connection *)

(* The receive loop or the heartbeat notices the loss.                     *)
Lose ==
    /\ conn \in {"up", "restoring"}
    /\ SessionEnds({}, "down")
    /\ pc' = [c \in Callers |-> IF c \in Registered THEN "rejected" ELSE pc[c]]
    /\ err' = [c \in Callers |-> IF c \in Registered THEN "connection" ELSE err[c]]
    /\ answer' = [c \in Callers |-> "none"]
    /\ UNCHANGED <<session, class, attempt, waitSlots, chain, wire, effects>>

(* runClose: as a loss, and the waiters for readiness are failed too.      *)
CloseConnection ==
    /\ conn # "closed"
    /\ SessionEnds({}, "closed")
    /\ LET failed == Registered \cup {c \in Callers : pc[c] = "ready"} IN
       /\ pc' = [c \in Callers |-> IF c \in failed THEN "rejected" ELSE pc[c]]
       /\ err' = [c \in Callers |-> IF c \in failed THEN "connection" ELSE err[c]]
    /\ answer' = [c \in Callers |-> "none"]
    /\ UNCHANGED <<session, class, attempt, waitSlots, chain, wire, effects>>

(* createRequestGate: nobody is inside, whoever held a slot of the old one.*)
(* A waiter the old gate dropped (Release) stays unsettled.                *)
NewGate ==
    /\ activeCount' = 0 /\ closed' = FALSE /\ queue' = <<>>
    /\ status' = [c \in Callers |-> IF status[c] = "waiting" THEN "waiting" ELSE "idle"]
    /\ UNCHANGED aborted

(* openAndAuthenticate of a reconnect up to the restore.                   *)
NewSession ==
    /\ conn = "down" /\ sess < MaxSessions /\ Settled
    /\ conn' = "restoring" /\ sess' = sess + 1
    /\ past' = {c \in Callers : pc[c] \in {"chain", "reply", "done"}}
    /\ wire' = {} /\ answer' = [c \in Callers |-> "none"]
    /\ NewGate
    /\ UNCHANGED <<pc, class, attempt, err, handle, waitSlots, chain, effects>>

(* A variant in which the last change of state is not announced.           *)
RestoredSilently ==
    /\ conn = "restoring" /\ conn' = "up"
    /\ UNCHANGED <<vars, session, pc, class, attempt, err, handle, waitSlots, chain, answer, wire, effects>>

(* AUTHENTICATED again: notify() settles every wait for readiness.         *)
Restored ==
    /\ conn = "restoring" /\ conn' = "up"
    /\ pc' = [c \in Callers |-> IF pc[c] = "ready" THEN "woken" ELSE pc[c]]
    /\ UNCHANGED <<vars, session, class, attempt, err, handle, waitSlots, chain, answer, wire, effects>>

(* The signal of a caller that waits in the gate.                          *)
GateAbort ==
    /\ \E i \in DOMAIN queue : NativeAbortBegins(i) \/ NativeAbortDelivered(i)
    /\ UNCHANGED pathVars

WriteEnds ==
    \E v \in {"lost", "ok", "negative"} :
        WriteSucceeds(v) \/ WriteFails(v, "transport") \/ WriteFails(v, "timeout")

Progress(c) ==
    \/ Woken(c) \/ GateRejects(c) \/ Issue(c) \/ Rejected(c) \/ Retry(c)
    \/ GiveUp(c, "timeout") \/ ReadyGivesUp(c, "connection")

PNext ==
    \/ WriteEnds \/ Lose \/ CloseConnection \/ NewSession \/ Restored \/ GateAbort
    \/ KvBegin \/ StreamBegin \/ ReserveItem
    \/ \E k \in {"kv", "stream", "item"} : Granted(k)
    \/ \E c \in Callers :
          \/ \E k \in Classes(c) : MakeCall(c, k)
          \/ Progress(c) \/ Reply(c) \/ BackoffAborted(c)
          \/ GiveUp(c, "abort") \/ ReadyGivesUp(c, "abort")

PathSpec == PInit /\ [][PNext]_pvars

--------------------------------------------------------------------------------
(* Properties *)

(* The variables have their types.                                         *)
PTypeOK ==
    /\ TypeOK
    /\ conn \in {"up", "down", "restoring", "closed"} /\ sess \in 1..MaxSessions
    /\ pc \in [Callers -> {"idle", "ready", "woken", "gate", "chain", "reply",
                           "rejected", "backoff", "done"}]
    /\ class \in [Callers -> AllClasses \cup {"none"}]
    /\ attempt \in [Callers -> 0..MaxAttempts] 
    /\ kind \in {"none", "kv", "stream", "item"} /\ open \in BOOLEAN /\ begun \in 0..MaxSessions
    /\ granted \in {"none", "kv", "stream", "item"} /\ untold \in BOOLEAN
    /\ past \subseteq Callers /\ wire \subseteq Callers
    /\ err \in [Callers -> {"none", "connection", "transport", "timeout", "full",
                            "negative", "abort"}]
    /\ waitSlots \subseteq Callers
    /\ answer \in [Callers -> {"none", "lost", "ok", "negative"}]
    /\ effects \in [Callers -> Nat]

(* The client "does not automatically replay ambiguous post-send writes":  *)
(* whatever timeouts, losses and late writes do, the broker executes a     *)
(* write at most once per call.                                            *)
WritesAtMostOnce ==
    \A c \in Callers : class[c] \notin {"restore", "handleRead"} => effects[c] <= 1

(* A slot is held for a call that is under way, and given back on every    *)
(* path out of an attempt: who holds one in the current gate is admitted,  *)
(* on the chain, waiting for its answer or about to handle its rejection.  *)
(* The readiness counter counts the callers that wait and no others, at    *)
(* most maxRequestQueueSize of them.                                       *)
SlotsBelongToAttempts ==
    /\ \A c \in Held : pc[c] \in {"gate", "chain", "reply", "rejected"}
    /\ \A c \in waitSlots : pc[c] \in {"ready", "woken", "rejected"}
    /\ \A c \in Callers : pc[c] = "ready" => c \in waitSlots
    /\ Cardinality(waitSlots) <= MaxQueueSize

(* What was issued before a session has no effect in it: a write whose     *)
(* caller was told that the connection is lost, or that is still stuck     *)
(* behind another write at the loss, is not applied after the reconnection *)
(* by a frame it left on the write chain.                                  *)
NoLateEffects == [][\A c \in past : effects'[c] = effects[c]]_pvars

(* What a transaction, stream session or queue item writes, its end        *)
(* included, stays in its session: no wait for readiness, gate or chain    *)
(* carries it into a later one, where its id means nothing or something    *)
(* else ("stale after reconnect and fail fast").  That is true of a handle *)
(* that hears of the disconnect; one made by the continuation of an answer *)
(* that the loss overtook stays open and writes into the next session.     *)
(* And a transaction is ended once, even that one: whatever becomes of the *)
(* answer to its COMMIT or ROLLBACK, and whoever disposes it meanwhile,    *)
(* the broker never gets a second one.                                     *)
EndsOnceInItsSession ==
    /\ \A c \in wire : class[c] \in HandleClasses \ {"handleRead"} => begun = sess \/ untold
    /\ kind = "kv" =>
         Cardinality({c \in Callers : class[c] \in {"commit", "rollback"} /\ effects[c] > 0}) <= 1

(* "Handles from the pre-disconnect session are stale after reconnect and  *)
(* fail fast": the same of every handle and of a transaction's reads.      *)
HandlesStayInSession == \A c \in wire : ViaHandle(class[c]) => begun = sess

(* Nobody waits for something that will not happen: a caller waits for     *)
(* readiness only while the connection may still become ready or fail, in  *)
(* the gate only in its queue and behind a holder that is under way (or    *)
(* was dropped there after its signal fired), and on the chain only with   *)
(* its frame in it.  A request has a timer from there on; a send() has     *)
(* none, so a lost wake-up would hang it.                                  *)
WaitersHaveACause ==
    \A c \in Callers :
        /\ pc[c] = "ready" => conn \in {"down", "restoring"}
        /\ pc[c] = "gate" /\ status[c] = "waiting" =>
              \/ c \in aborted
              \/ /\ \E i \in DOMAIN queue : queue[i] = c
                 /\ \E h \in Held : pc[h] \in {"gate", "chain", "reply", "rejected"}
        /\ pc[c] = "chain" =>
              \E i \in DOMAIN chain : chain[i].caller = c /\ chain[i].attempt = attempt[c]
================================================================================
