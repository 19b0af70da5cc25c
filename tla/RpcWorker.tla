------------------------------ MODULE RpcWorker ------------------------------
(***************************************************************************)
(* The serving side of the RPC client (domains/rpc/client.ts): the         *)
(* registration of a worker for one route and the life of the invocations  *)
(* the broker delivers for it: dispatch, handler, response writer,         *)
(* cancellation before and after the start, and the cleanup ack that gives *)
(* the broker its execution credit back.                                   *)
(*                                                                         *)
(* Mutations of one route are serialized by withWorkerMutation, so one is  *)
(* in progress at a time.  A send() waits for a usable session; frames are *)
(* received while registrations are still being restored.                  *)
(***************************************************************************)
EXTENDS Naturals, Sequences, FiniteSets

CONSTANTS
    MaxInvs,       \* invocations the broker delivers
    Budgeted,      \* those whose request carries a remaining budget
    MaxHandles,    \* registrations made for the route
    MaxHandlers,   \* handlers the connection's dispatcher runs at a time
    MaxQueue,      \* dispatched invocations that may wait for a handler slot
    MaxWrites,     \* non-terminal frames a handler writes
    MaxLosses      \* bound on connection losses

ASSUME WorkerAssumption ==
    /\ MaxInvs \in Nat /\ Budgeted \subseteq 1..MaxInvs /\ MaxHandles \in Nat
    /\ MaxHandlers \in Nat \ {0} /\ MaxQueue \in Nat
    /\ MaxWrites \in Nat /\ MaxLosses \in Nat

None == 0

(* Invocations and registrations, numbered in the order they appear.  A    *)
(* handle remembers its registration object; the one a restore stores is   *)
(* no handle's.                                                            *)
Invs == 1..MaxInvs
Handles == 1..MaxHandles
Restored == MaxHandles + 1
Registrations == Handles \cup {Restored}

VARIABLES
    conn,      \* down, restoring (frames flow, send() waits), restored (this
               \* route is back, others are not) or up
    session,   \* sessions so far
    worker,    \* workers.get(route): a registration or None
    snapshot,  \* what the restore in progress found there, or None
    op,        \* the mutation in progress: [kind, of, at]
    made,      \* registrations begun so far
    live,      \* handles whose unregister() has not run or has failed
    breg,      \* broker: the route is registered in this session
    orphan,    \* history: by a registration the client has given up on
    phase,     \* stage of each invocation's task
    since,     \* session each invocation was delivered in
    unheard,   \* history: delivered before the client knew of its registration
    started,   \* invocations whose handler was called
    active,    \* activeInvocations
    aborted,   \* invocations whose controller was aborted
    stale,     \* invocations whose response writer is stale
    queue,     \* dispatcher queue
    seq,       \* the writer's next sequence number
    out,       \* response frames written, per invocation
    acks       \* cleanup acks handed to send(), per invocation

connVars == <<conn, session>>
regVars == <<worker, snapshot, op, made, live, breg, orphan>>
writerVars == <<stale, seq, out>>
invVars == <<phase, since, unheard, started, active, aborted, queue>>
vars == <<connVars, regVars, invVars, writerVars, acks>>

Writing == {"write", "end", "late", "error"}   \* the frame a writer awaits
Running == {"run"} \cup Writing           \* the handler may be at work
Busy == {"acking"} \cup Running           \* the task holds a handler slot
Kinds == {"part", "end", "unsure"}        \* unsure: terminal, its send failed
Phases == {"idle", "dropped", "queued", "refused", "done"} \cup Busy
Idle == [kind |-> "none", of |-> None, at |-> "none"]

TypeOK ==
    /\ conn \in {"down", "restoring", "restored", "up"}
    /\ session \in 1..(MaxLosses + 1)
    /\ worker \in Registrations \cup {None} /\ live \subseteq Handles
    /\ snapshot \in Registrations \cup {None} /\ orphan \in BOOLEAN
    /\ op \in [kind : {"register", "unregister", "none"}, of : Handles \cup {None},
               at : {"waiting", "answered", "none"}]
    /\ breg \in BOOLEAN /\ made \in 0..MaxHandles
    /\ phase \in [Invs -> Phases] /\ since \in [Invs -> 0..(MaxLosses + 1)]
    /\ unheard \subseteq Invs /\ started \subseteq Invs
    /\ active \subseteq Invs /\ aborted \subseteq Invs /\ stale \subseteq Invs
    /\ queue \in Seq(Invs)
    /\ seq \in [Invs -> 0..(MaxWrites + 2)]
    /\ out \in [Invs -> Seq([seq : Nat, kind : Kinds])]
    /\ acks \in [Invs -> Nat]

Init ==
    /\ conn = "up" /\ session = 1
    /\ worker = None /\ snapshot = None /\ op = Idle /\ made = 0 /\ live = {}
    /\ breg = FALSE /\ orphan = FALSE /\ unheard = {} /\ started = {}
    /\ phase = [i \in Invs |-> "idle"] /\ since = [i \in Invs |-> 0]
    /\ active = {} /\ aborted = {} /\ stale = {} /\ queue = <<>>
    /\ seq = [i \in Invs |-> 0] /\ out = [i \in Invs |-> <<>>]
    /\ acks = [i \in Invs |-> 0]

-----------------------------------------------------------------------------
(* registerWorker enters its mutation; a newer one replaces an older one.  *)
RegisterWorker(h) ==
    /\ op = Idle /\ h = made + 1
    /\ op' = [kind |-> "register", of |-> h, at |-> "waiting"]
    /\ made' = h /\ live' = live \cup {h}
    /\ UNCHANGED <<connVars, worker, snapshot, breg, orphan, invVars, writerVars, acks>>

(* unregisterWorker: a handle whose registration is no longer the one in   *)
(* the map does nothing, a restore's replacement of it included.           *)
UnregisterWorker(h) ==
    /\ op = Idle /\ h \in live
    /\ live' = live \ {h}
    /\ op' = IF worker = h
             THEN [kind |-> "unregister", of |-> h, at |-> "waiting"] ELSE op
    /\ UNCHANGED <<connVars, worker, snapshot, made, breg, orphan,
                   invVars, writerVars, acks>>

(* The request is written in the session that is usable by then, the       *)
(* broker applies it and its answer is received.                           *)
MutationAnswered ==
    /\ op.at = "waiting" /\ conn = "up"
    /\ op' = [op EXCEPT !.at = "answered"]
    /\ breg' = (op.kind = "register") /\ orphan' = FALSE
    /\ UNCHANGED <<connVars, worker, snapshot, made, live, invVars, writerVars, acks>>

(* The continuation behind the answer updates the workers map.             *)
MutationApplied ==
    /\ op.at = "answered"
    /\ worker' = IF op.kind = "register" THEN op.of ELSE None
    /\ op' = Idle
    /\ UNCHANGED <<connVars, snapshot, made, live, breg, orphan,
                   invVars, writerVars, acks>>

(* The request fails on this side, is lost with its session or is refused  *)
(* by the broker: the mutation throws, the workers map stays as it is and  *)
(* a failed unregister() can be called again.  A request that timed out    *)
(* was applied by the broker all the same or not.                          *)
MutationFails ==
    /\ op.at = "waiting"
    /\ op' = Idle
    /\ live' = IF op.kind = "register" THEN live \ {op.of} ELSE live \cup {op.of}
    /\ \/ UNCHANGED <<breg, orphan>>
       \/ /\ conn = "up"
          /\ breg' = (op.kind = "register") /\ orphan' = breg'
    /\ UNCHANGED <<connVars, worker, snapshot, made, invVars, writerVars, acks>>

-----------------------------------------------------------------------------
(* The broker serves the route for a registration whose answer has not     *)
(* reached registerWorkerInternal, or never will.                          *)
Unrecorded == op.at = "answered" \/ orphan

(* handleRpcRequest.  Without a registration the frame is ignored (a       *)
(* REQUEST may share a socket read with the answer that confirms its       *)
(* registration, so it can be handled before workers.set); with            *)
(* one the invocation becomes active and is offered to the dispatcher,     *)
(* which the handlers of all domains share: it refuses the invocation when *)
(* its slots and its queue are taken, by ours or by others.                *)
HasRoom ==
    Len(queue) + Cardinality({j \in Invs : phase[j] \in Busy}) < MaxHandlers + MaxQueue

HandleRpcRequest(i) ==
    /\ conn # "down" /\ breg /\ phase[i] = "idle"
    /\ \A j \in 1..(i - 1) : phase[j] # "idle"
    /\ since' = [since EXCEPT ![i] = session]
    /\ unheard' = IF Unrecorded THEN unheard \cup {i} ELSE unheard
    /\ \/ /\ worker = None
          /\ phase' = [phase EXCEPT ![i] = "dropped"]
          /\ UNCHANGED <<active, queue>>
       \/ /\ worker # None /\ HasRoom
          /\ phase' = [phase EXCEPT ![i] = "queued"]
          /\ active' = active \cup {i}
          /\ queue' = Append(queue, i)
       \/ /\ worker # None
          /\ phase' = [phase EXCEPT ![i] = "refused"]
          /\ UNCHANGED <<active, queue>>
    /\ UNCHANGED <<connVars, regVars, started, aborted, writerVars, acks>>

(* The deadline timer of an invocation aborts its controller.              *)
DeadlineElapses(i) ==
    /\ i \in Budgeted /\ i \in active /\ i \notin aborted
    /\ aborted' = aborted \cup {i}
    /\ UNCHANGED <<connVars, regVars, phase, since, unheard, started, active, queue,
                   writerVars, acks>>

(* connection.send of the cleanup ack.                                     *)
SendAck(i) == acks' = [acks EXCEPT ![i] = @ + 1]

(* Sabotaged variant: only a cancellation that was seen is acknowledged.   *)
AcksCancelled(i) ==
    /\ active' = active \ {i} /\ stale' = stale \cup {i}
    /\ phase' = [phase EXCEPT ![i] = IF i \in aborted THEN "acking" ELSE "done"]
    /\ IF i \in aborted THEN SendAck(i) ELSE UNCHANGED acks

(* The finally block: the invocation is no longer active, the writer is    *)
(* disposed of and the ack is sent whatever happened before.  The task     *)
(* keeps its slot until that send has settled.                             *)
CleansUp(i) ==
    /\ active' = active \ {i} /\ stale' = stale \cup {i}
    /\ phase' = [phase EXCEPT ![i] = "acking"]
    /\ SendAck(i)

(* What the task finds when a slot is free: no longer active, so nothing   *)
(* at all; out of time, so an error response (the handler is not called);  *)
(* aborted by the timer, so only the cleanup; or the handler starts.       *)
StartsTask(i) ==
    \/ /\ i \notin active
       /\ phase' = [phase EXCEPT ![i] = "done"]
       /\ stale' = stale \cup {i}
       /\ UNCHANGED <<active, aborted, started, seq, acks>>
    \/ /\ i \in active /\ i \in Budgeted
       /\ phase' = [phase EXCEPT ![i] = "late"]
       /\ seq' = [seq EXCEPT ![i] = @ + 1]
       /\ aborted' = aborted \cup {i}
       /\ UNCHANGED <<active, started, stale, acks>>
    \/ /\ i \in active /\ i \in aborted
       /\ CleansUp(i)
       /\ UNCHANGED <<aborted, started, seq>>
    \/ /\ i \in active /\ i \notin aborted
       /\ phase' = [phase EXCEPT ![i] = "run"]
       /\ started' = started \cup {i}
       /\ UNCHANGED <<active, aborted, stale, seq, acks>>

StartTask(i) ==
    /\ queue # <<>> /\ Head(queue) = i
    /\ Cardinality({j \in Invs : phase[j] \in Busy}) < MaxHandlers
    /\ queue' = Tail(queue)
    /\ StartsTask(i)
    /\ UNCHANGED <<connVars, regVars, since, unheard, out>>

-----------------------------------------------------------------------------
(* The handler and its response writer *)

(* The writer accepts a frame unless it is stale.                          *)
WriterUsable(i) == i \notin stale

(* The handler writes a frame or ends the stream, one await at a time.  A  *)
(* stale writer throws, which the handler may let through (HandlerThrows). *)
HandlerWrites(i, how) ==
    /\ phase[i] = "run" /\ WriterUsable(i)
    /\ seq[i] < (IF how = "write" THEN MaxWrites ELSE MaxWrites + 1)
    /\ phase' = [phase EXCEPT ![i] = how]
    /\ seq' = [seq EXCEPT ![i] = @ + 1]
    /\ UNCHANGED <<connVars, regVars, since, unheard, started, active, aborted, queue,
                   stale, out, acks>>

(* The handler returns, and its task goes straight into the finally block. *)
HandlerReturns(i) ==
    /\ phase[i] = "run"
    /\ CleansUp(i)
    /\ UNCHANGED <<connVars, regVars, since, unheard, started, aborted, queue, seq, out>>

(* The error response of the catch block, unless the error is a benign one *)
(* (the connection is going down, or the handler let a ConnectionError     *)
(* through) or the writer is stale.                                        *)
AnswersError(i) ==
    \/ /\ conn = "up" /\ WriterUsable(i)
       /\ phase' = [phase EXCEPT ![i] = "error"]
       /\ seq' = [seq EXCEPT ![i] = @ + 1]
       /\ UNCHANGED <<active, stale, acks>>
    \/ /\ CleansUp(i)
       /\ UNCHANGED seq

(* The handler throws.                                                     *)
HandlerThrows(i) ==
    /\ phase[i] = "run"
    /\ AnswersError(i)
    /\ UNCHANGED <<connVars, regVars, since, unheard, started, aborted, queue, out>>

(* The await behind a frame ends, with the writer disposed of or not: the  *)
(* handler goes on, or behind a response of the task itself the cleanup.   *)
GoesOn(i, disposed) ==
    \/ /\ phase[i] \in {"write", "end"}
       /\ phase' = [phase EXCEPT ![i] = "run"]
       /\ stale' = IF disposed THEN stale \cup {i} ELSE stale
       /\ UNCHANGED <<active, acks>>
    \/ /\ phase[i] \in {"late", "error"}
       /\ CleansUp(i)

(* The frame reaches the transport; a terminal one is of the given kind.   *)
Reaches(i, terminal) ==
    out' = [out EXCEPT ![i] = Append(@,
        [seq |-> seq[i] - 1, kind |-> IF phase[i] = "write" THEN "part" ELSE terminal])]

(* The frame is written; a terminal one disposes of the writer.            *)
FrameWritten(i) ==
    /\ phase[i] \in Writing /\ conn = "up"
    /\ Reaches(i, "end")
    /\ GoesOn(i, phase[i] # "write")
    /\ UNCHANGED <<connVars, regVars, since, unheard, started, aborted, queue, seq>>

(* A send that fails for a reason that is not benign (it timed out)        *)
(* throws: into the handler, which goes on or lets it through, or into the *)
(* catch block, whose own response it is or not.                           *)
Throws(i) ==
    \/ /\ phase[i] \in {"write", "end"}
       /\ phase' = [phase EXCEPT ![i] = "run"]
       /\ UNCHANGED <<active, stale, seq, acks>>
    \/ /\ phase[i] = "late"
       /\ AnswersError(i)
    \/ /\ phase[i] = "error"
       /\ CleansUp(i)
       /\ UNCHANGED seq

(* The send of a frame fails: benignly, which leaves the writer stale, or  *)
(* not.  Its bytes are out all the same or not.                            *)
FrameFails(i) ==
    /\ phase[i] \in Writing
    /\ UNCHANGED out \/ (conn = "up" /\ Reaches(i, "unsure"))
    /\ \/ GoesOn(i, TRUE) /\ UNCHANGED seq
       \/ /\ conn = "up"
          /\ Throws(i)
    /\ UNCHANGED <<connVars, regVars, since, unheard, started, aborted, queue>>

-----------------------------------------------------------------------------
(* sendBackpressureResponse: the terminal error is written or not, then    *)
(* the writer is disposed of and the ack sent.                             *)
SendBackpressureResponse(i) ==
    /\ phase[i] = "refused"
    /\ \/ /\ conn = "up" /\ i \notin stale
          /\ \E terminal \in {"end", "unsure"} :
                out' = [out EXCEPT ![i] = Append(@, [seq |-> 0, kind |-> terminal])]
       \/ UNCHANGED out
    /\ phase' = [phase EXCEPT ![i] = "done"]
    /\ stale' = stale \cup {i}
    /\ SendAck(i)
    /\ UNCHANGED <<connVars, regVars, since, unheard, started, active, aborted, queue, seq>>

(* Sabotaged variant: the ack is sent at once, started or not.             *)
AcksOnCancellation(i) ==
    /\ active' = active \ {i}
    /\ SendAck(i)

(* An invocation that has not started is forgotten and acknowledged here,  *)
(* one that has started is acknowledged by its finally block.  One whose   *)
(* deadline response is being written has not started.                     *)
AcknowledgesUnstarted(i) ==
    IF i \notin started
    THEN active' = active \ {i} /\ SendAck(i)
    ELSE UNCHANGED <<active, acks>>

(* The worker_cancellation notification, in the invocation's session.      *)
WorkerCancellation(i) ==
    /\ conn # "down" /\ since[i] = session
    /\ i \in active
    /\ aborted' = aborted \cup {i}
    /\ AcknowledgesUnstarted(i)
    /\ UNCHANGED <<connVars, regVars, phase, since, unheard, started, queue, writerVars>>

(* The send the finally block awaits settles, fulfilled in whatever        *)
(* session is usable by then or rejected.                                  *)
AckSettles(i) ==
    /\ phase[i] = "acking"
    /\ phase' = [phase EXCEPT ![i] = "done"]
    /\ UNCHANGED <<connVars, regVars, since, unheard, started, active, aborted, queue,
                   writerVars, acks>>

-----------------------------------------------------------------------------
(* onDisconnect: invocations are aborted and forgotten, writers of the     *)
(* session go stale.                                                       *)
Disconnect ==
    /\ conn # "down" /\ session <= MaxLosses
    /\ conn' = "down" /\ session' = session
    /\ breg' = FALSE /\ orphan' = FALSE
    /\ aborted' = aborted \cup active
    /\ active' = {}
    /\ stale' = stale \cup {i \in Invs : since[i] > 0}
    /\ UNCHANGED <<worker, snapshot, op, made, live, phase, since, unheard, started, queue,
                   seq, out, acks>>

(* A new session: frames flow and the registrations are being restored.    *)
Reconnect ==
    /\ conn = "down" /\ op.at # "answered"
    /\ conn' = "restoring" /\ session' = session + 1
    /\ snapshot' = worker
    /\ UNCHANGED <<worker, op, made, live, breg, orphan, invVars, writerVars, acks>>

(* The restore's SUBSCRIBE_WORKER is answered: registerWorkerInternal      *)
(* stores a registration of its own.                                       *)
RestoreWorker ==
    /\ conn = "restoring" /\ snapshot # None
    /\ conn' = "restored"
    /\ breg' = TRUE /\ worker' = Restored
    /\ UNCHANGED <<session, snapshot, op, made, live, orphan, invVars, writerVars, acks>>

(* The listeners are done: the snapshot is put back; or another route      *)
(* failed, this one is rolled back at the broker and the restore's own     *)
(* registration stays; or this route failed, by a timeout perhaps.         *)
RestoreDone ==
    /\ conn \in {"restoring", "restored"}
    /\ conn' = "up"
    /\ \/ conn = "restored" /\ worker' = snapshot /\ UNCHANGED breg
       \/ conn = "restored" /\ breg' \in BOOLEAN /\ UNCHANGED worker
       \/ conn = "restoring" /\ breg' \in {FALSE, snapshot # None} /\ UNCHANGED worker
    /\ snapshot' = None
    /\ UNCHANGED <<session, op, made, live, orphan, invVars, writerVars, acks>>

TaskStep(i) ==
    StartTask(i) \/ HandlerReturns(i) \/ SendBackpressureResponse(i)
FrameSettles(i) == FrameWritten(i) \/ FrameFails(i)
Mutation == MutationAnswered \/ MutationApplied \/ MutationFails

Next ==
    \/ Disconnect \/ Reconnect \/ RestoreWorker \/ RestoreDone
    \/ Mutation
    \/ \E h \in Handles : RegisterWorker(h) \/ UnregisterWorker(h)
    \/ \E i \in Invs :
          \/ HandleRpcRequest(i) \/ DeadlineElapses(i) \/ WorkerCancellation(i)
          \/ TaskStep(i) \/ FrameSettles(i) \/ AckSettles(i) \/ HandlerThrows(i)
          \/ HandlerWrites(i, "write") \/ HandlerWrites(i, "end")

Spec == Init /\ [][Next]_vars

(* Tasks run on, a send settles within the request timeout, and handlers   *)
(* return (an assumption on the application, not on the client).           *)
Fairness ==
    /\ WF_vars(RestoreDone) /\ WF_vars(Mutation)
    /\ \A i \in Invs : /\ WF_vars(TaskStep(i)) /\ WF_vars(FrameSettles(i))
                       /\ WF_vars(AckSettles(i))

FairSpec == Spec /\ Fairness

-----------------------------------------------------------------------------
(* An invocation ends once.  Its cleanup ack is handed out once and only   *)
(* when its handler can no longer run: cancellation, the finally block and *)
(* the overload path never acknowledge the same one, and the broker never  *)
(* gets the credit of a running handler back.  The one that may be         *)
(* acknowledged twice is out of time: its deadline response was begun, its *)
(* handler never started and a cancellation came before the cleanup.  Its  *)
(* frames carry increasing sequence numbers, and nothing follows a         *)
(* terminal frame the writer knows to be sent, whatever mixture of writes, *)
(* throws, failed sends and deadline responses produced them: a terminal   *)
(* frame may be repeated only when its send had failed.                    *)
InvocationEndsOnce ==
    \A i \in Invs :
        /\ acks[i] <= (IF i \in started \/ seq[i] = 0 THEN 1 ELSE 2)
        /\ i \in started /\ acks[i] > 0 => phase[i] \notin Running
        /\ \A m, n \in DOMAIN out[i] : m < n =>
             /\ out[i][m].seq < out[i][n].seq
             /\ out[i][m].kind # "end"

(* Execution credit is not stranded by any order of terminal response,     *)
(* cancellation, deadline and overload: the ack of an invocation delivered *)
(* in a session is handed to the connection, or the session ends.  The one *)
(* invocation that is lost was delivered before the client had recorded    *)
(* the registration it is for, whose answer was still on its way to        *)
(* registerWorkerInternal or was given up on, and found no older one.      *)
CreditReturned ==
    \A i \in Invs :
        since[i] = session /\ conn # "down"
            ~> \/ acks[i] > 0 \/ session # since[i] \/ conn = "down"
               \/ phase[i] = "dropped" /\ i \in unheard
=============================================================================
