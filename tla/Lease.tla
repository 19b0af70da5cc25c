-------------------------------- MODULE Lease --------------------------------
(***************************************************************************)
(* Lease acquisition and the lease handle: acquire() and withLease() of    *)
(* src/domains/lease/client.ts with createLease() of                       *)
(* src/domains/lease/types.ts, against a broker of which only the answers  *)
(* the client distinguishes are kept (external).                           *)
(*                                                                         *)
(* A caller makes one call: withLease() if it is in Managed, acquire()     *)
(* otherwise, after which the application extends and releases the handle  *)
(* when it likes.  A token is named after the caller whose ACQUIRE made    *)
(* the broker create it.  A request() is modelled by its promise: "unsent" *)
(* (waiting for readiness, a slot or the write), "sent", then "ok" or      *)
(* "failed" until the continuation behind the await runs; the frames of    *)
(* one socket read, and the abort of a signal by another continuation, can *)
(* come between the two.                                                   *)
(***************************************************************************)
EXTENDS Naturals, Sequences, FiniteSets

CONSTANTS
    Callers,      \* acquire() and withLease() calls
    Managed,      \* those made by withLease()
    Waits,        \* those with waitSeconds > 0
    Route,        \* the route each of them names
    MaxSession,   \* sessions of the connection
    MaxOps        \* operations the application calls on one handle

ASSUME LeaseAssumption ==
    /\ IsFiniteSet(Callers) /\ Managed \subseteq Callers /\ Waits \subseteq Callers
    /\ DOMAIN Route = Callers
    /\ MaxSession \in Nat \ {0} /\ MaxOps \in Nat

VARIABLES
    pc,          \* where each call stands
    tail,        \* acquisitionTail: calls in the order of their runAcquire()
    waiters,     \* queuedAcquisitions
    box,         \* what a queuedResponse promise was settled with
    request,     \* the request() the call or its handle awaits
    ans,         \* the answer of the ACQUIRE request
    token,       \* the handle's fencing token
    calls,       \* operations the application called on its handle
    ops,         \* operations serialized on the handle, the first one running
    closed,      \* handles that are closed
    born,        \* the session in which createLease() ran, 0 if none was up
    renew,       \* the renewal loop of withLease()
    lost,        \* calls with leaseLoss set
    cancelled,   \* calls whose lifecycle signal is aborted
    signal,      \* calls aborted by their caller while they acquire
    up, session, \* the connection
    owner,       \* broker: the token a route is held under
    parked,      \* broker: acquisitions waiting for their route
    wire,        \* frames from the broker, in order
    abandoned    \* history: calls given up while the broker still had them queued

promises == <<request, ans, box>>
handle == <<token, calls, ops, closed, born>>
managed == <<renew, lost, cancelled>>
link == <<up, session>>
broker == <<owner, parked, wire>>
vars == <<pc, tail, waiters, promises, handle, managed, signal, link, broker, abandoned>>

Final == {"released", "lost", "refused", "canceled", "unreleased"}
Granted == {"held", "stopping", "releasing"}   \* createLease() ran
Routes == {Route[c] : c \in Callers}
None == "none"
Rival == "rival"                               \* another client of the broker

Init ==
    /\ pc = [c \in Callers |-> "idle"]
    /\ tail = <<>> /\ waiters = <<>>
    /\ request = [c \in Callers |-> None]
    /\ ans = [c \in Callers |-> None]
    /\ box = [c \in Callers |-> None]
    /\ token = [c \in Callers |-> None]
    /\ calls = [c \in Callers |-> 0]
    /\ ops = [c \in Callers |-> <<>>]
    /\ closed = {}
    /\ born = [c \in Callers |-> 0]
    /\ renew = [c \in Callers |-> "off"]
    /\ lost = {} /\ cancelled = {} /\ signal = {}
    /\ up = TRUE /\ session = 1
    /\ owner = [r \in Routes |-> Rival]
    /\ parked = <<>> /\ wire = <<>> /\ abandoned = {}

\* A continuation is due: no timer fires and no socket connects before it.  (Steps
\* of the broker, which commute with it, wait too.)
Settling == \E c \in Callers : \/ request[c] \in {"ok", "failed"}
                               \/ pc[c] = "deferred" /\ box[c] # None

Without(q, c) == SelectSeq(q, LAMBDA d : d # c)
Occurs(q, c) == \E i \in DOMAIN q : q[i] = c

------------------------------------------------------------------------------
(* The broker (external) *)

Frame(kind, c, v) == [kind |-> kind, to |-> c, value |-> v]

\* A route becomes free: the acquisition that waits longest gets it, and its
\* completion goes out as a notification without a correlation id.
FreeRoute(r, reply) ==
    LET mine == SelectSeq(parked, LAMBDA c : Route[c] = r)
    IN IF mine = <<>> \/ ~up
         THEN /\ owner' = [owner EXCEPT ![r] = None]
              /\ parked' = parked
              /\ wire' = wire \o reply
         ELSE /\ owner' = [owner EXCEPT ![r] = Head(mine)]
              /\ parked' = Without(parked, Head(mine))
              /\ wire' = wire \o reply \o <<Frame("grant", Head(mine), Head(mine))>>

\* ACQUIRE: granted, or held already by this client, or queued, or refused.
BrokerAcquire(c) ==
    LET r == Route[c]
        reply(v) == wire' = Append(wire, Frame("answer", c, v))
    IN \/ /\ owner[r] = None
          /\ owner' = [owner EXCEPT ![r] = c] /\ reply(c)
          /\ UNCHANGED parked
       \/ /\ owner[r] \in Callers
          /\ reply(owner[r])
          /\ UNCHANGED <<owner, parked>>
       \/ /\ owner[r] = Rival
          /\ IF c \notin Waits THEN reply("failed") /\ UNCHANGED parked
             ELSE IF \E i \in DOMAIN parked : Route[parked[i]] = r
                    THEN reply("already") /\ UNCHANGED parked
                    ELSE reply("queued") /\ parked' = Append(parked, c)
          /\ UNCHANGED owner

\* RENEW and RELEASE are checked against the token.
BrokerOperation(c) ==
    LET r == Route[c]
        valid == owner[r] = token[c]
        reply == <<Frame("answer", c, IF valid THEN "ok" ELSE "failed")>>
    IN IF valid /\ Head(ops[c]) = "release"
         THEN FreeRoute(r, reply)
         ELSE wire' = wire \o reply /\ UNCHANGED <<owner, parked>>

\* A rival gives its route up, a held lease expires, and a queued
\* acquisition reaches its waitSeconds.
LeaseEnds(r) ==
    /\ ~Settling
    /\ owner[r] # None
    /\ FreeRoute(r, <<>>)
    /\ UNCHANGED <<pc, tail, waiters, promises, handle, managed, signal, link, abandoned>>

WaitElapses(c) ==
    /\ ~Settling /\ up /\ Occurs(parked, c)
    /\ parked' = Without(parked, c)
    /\ wire' = Append(wire, Frame("grant", c, "failed"))
    /\ UNCHANGED <<pc, tail, waiters, promises, handle, managed, signal, link, owner, abandoned>>

------------------------------------------------------------------------------
(* acquire() *)

\* acquireWithAuthority(): the call joins acquisitionTail.
Call(c) ==
    /\ pc[c] = "idle"
    /\ pc' = [pc EXCEPT ![c] = "chained"]
    /\ tail' = Append(tail, c)
    /\ UNCHANGED <<waiters, promises, handle, managed, signal, link, broker, abandoned>>

\* A call settles: its handle, its listeners and its signal are out of use.
Settles(c, how) ==
    /\ pc' = [pc EXCEPT ![c] = how]
    /\ token' = [token EXCEPT ![c] = None]
    /\ calls' = [calls EXCEPT ![c] = 0]
    /\ ops' = [ops EXCEPT ![c] = <<>>]
    /\ born' = [born EXCEPT ![c] = 0]
    /\ closed' = closed \ {c}
    /\ lost' = lost \ {c}
    /\ cancelled' = cancelled \ {c}
    /\ signal' = signal \ {c}

\* A variant in which calls for different routes do not wait for each other.
StartAcquireUnserialized(c) ==
    /\ pc[c] = "chained"
    /\ pc' = [pc EXCEPT ![c] = "asking"]
    /\ request' = [request EXCEPT ![c] = "unsent"]
    /\ waiters' = IF c \in Waits THEN Append(waiters, c) ELSE waiters
    /\ UNCHANGED <<tail, ans, box, handle, managed, signal, link, broker, abandoned>>

\* runAcquire(), when its turn comes: with waitSeconds a waiter is queued before
\* the request is sent.
StartAcquire(c) ==
    /\ pc[c] = "chained" /\ Head(tail) = c
    /\ IF c \in signal
         THEN /\ Settles(c, "canceled")
              /\ tail' = Tail(tail)
              /\ UNCHANGED <<waiters, request>>
         ELSE /\ pc' = [pc EXCEPT ![c] = "asking"]
              /\ request' = [request EXCEPT ![c] = "unsent"]
              /\ waiters' = IF c \in Waits THEN Append(waiters, c) ELSE waiters
              /\ UNCHANGED <<tail, handle, lost, cancelled, signal>>
    /\ UNCHANGED <<ans, box, renew, link, broker, abandoned>>

\* The finally block of runAcquire(): the waiter goes, the next call starts.
FinishAcquire(c) ==
    /\ waiters' = Without(waiters, c)
    /\ tail' = Without(tail, c)
    /\ ans' = [ans EXCEPT ![c] = None]
    /\ box' = [box EXCEPT ![c] = None]
    /\ abandoned' = IF Occurs(parked, c) \/ \E i \in DOMAIN wire : wire[i].kind = "grant" /\ wire[i].to = c
                      THEN abandoned \cup {c} ELSE abandoned

AcquireThrows(c) ==
    /\ FinishAcquire(c)
    /\ Settles(c, IF c \in signal THEN "canceled" ELSE "refused")
    /\ request' = [request EXCEPT ![c] = None]
    /\ renew' = renew

\* createLease() registers its disconnect listener, withLease() its own, starts
\* the renewal loop and calls the callback.
AcquireReturns(c, t) ==
    /\ FinishAcquire(c)
    /\ pc' = [pc EXCEPT ![c] = "held"]
    /\ request' = [request EXCEPT ![c] = None]
    /\ token' = [token EXCEPT ![c] = t]
    /\ born' = [born EXCEPT ![c] = IF up THEN session ELSE 0]
    /\ renew' = [renew EXCEPT ![c] = IF c \in Managed THEN "asleep" ELSE "off"]
    /\ signal' = signal \ {c}
    /\ UNCHANGED <<calls, ops, closed, lost, cancelled>>

\* runAcquire() goes on behind its request.
ContinueAsking(c) ==
    /\ pc[c] = "asking" /\ request[c] \in {"ok", "failed"}
    /\ \/ /\ request[c] = "failed" \/ ans[c] = "already"
          /\ AcquireThrows(c)
       \/ /\ request[c] = "ok" /\ ans[c] = "queued"
          /\ pc' = [pc EXCEPT ![c] = "deferred"]
          /\ request' = [request EXCEPT ![c] = None]
          /\ UNCHANGED <<tail, waiters, ans, box, handle, managed, signal, abandoned>>
       \/ /\ request[c] = "ok" /\ ans[c] \in Callers
          /\ AcquireReturns(c, ans[c])
    /\ UNCHANGED <<link, broker>>

\* ... and behind queuedResponse.
ContinueDeferred(c) ==
    /\ pc[c] = "deferred" /\ box[c] # None
    /\ IF box[c] = "failed" THEN AcquireThrows(c) ELSE AcquireReturns(c, box[c])
    /\ UNCHANGED <<link, broker>>

------------------------------------------------------------------------------
(* The handle: createLease() *)

\* The application uses a handle it acquired itself.
AppOperation(c, op) ==
    /\ c \notin Managed /\ pc[c] = "held" /\ calls[c] < MaxOps
    /\ calls' = [calls EXCEPT ![c] = @ + 1]
    /\ ops' = [ops EXCEPT ![c] = Append(@, op)]
    /\ UNCHANGED <<pc, tail, waiters, promises, token, closed, born, managed, signal, link, broker,
                   abandoned>>

\* An operation is over.  A failed extend() closes the handle, and the renewal
\* loop takes it as the loss of the lease; a release() ends the call.
OperationEnds(c, success) ==
    IF Head(ops[c]) = "release"
      THEN Settles(c, IF success THEN "released" ELSE "unreleased") /\ renew' = renew
      ELSE /\ ops' = [ops EXCEPT ![c] = Tail(@)]
           /\ closed' = IF success THEN closed ELSE closed \cup {c}
           /\ lost' = IF success THEN lost ELSE lost \cup ({c} \cap Managed)
           /\ cancelled' = IF success THEN cancelled ELSE cancelled \cup ({c} \cap Managed)
           /\ renew' = [renew EXCEPT ![c] =
                         IF c \in Managed \ lost' /\ pc[c] = "held" THEN "asleep" ELSE "off"]
           /\ UNCHANGED <<pc, token, calls, born, signal>>

\* serialize(): the first operation of the chain starts with ensureOpen();
\* release() closes the handle before it sends anything.
OperationStarts(c) ==
    /\ pc[c] \in Granted /\ ops[c] # <<>> /\ request[c] = None
    /\ IF c \in closed
         THEN OperationEnds(c, FALSE) /\ request' = request
         ELSE /\ request' = [request EXCEPT ![c] = "unsent"]
              /\ closed' = IF Head(ops[c]) = "release" THEN closed \cup {c} ELSE closed
              /\ UNCHANGED <<pc, token, calls, ops, born, managed, signal>>
    /\ UNCHANGED <<tail, waiters, ans, box, link, broker, abandoned>>

ContinueOperation(c) ==
    /\ pc[c] \in Granted /\ request[c] \in {"ok", "failed"}
    /\ OperationEnds(c, request[c] = "ok")
    /\ request' = [request EXCEPT ![c] = None]
    /\ UNCHANGED <<tail, waiters, ans, box, link, broker, abandoned>>

------------------------------------------------------------------------------
(* withLease() *)

\* The delay of the renewal loop is over.
RenewalFires(c) ==
    /\ ~Settling
    /\ renew[c] = "asleep" /\ pc[c] = "held"
    /\ renew' = [renew EXCEPT ![c] = "extending"]
    /\ ops' = [ops EXCEPT ![c] = Append(@, "extend")]
    /\ UNCHANGED <<pc, tail, waiters, promises, token, calls, closed, born, lost, cancelled, signal, link,
                   broker, abandoned>>

\* The callback is over: callbackDone, stopRenewal.abort(), lifecycle.abort().
CallbackEnds(c) ==
    /\ c \in Managed /\ pc[c] = "held"
    /\ pc' = [pc EXCEPT ![c] = "stopping"]
    /\ renew' = [renew EXCEPT ![c] = IF @ = "asleep" THEN "off" ELSE @]
    /\ cancelled' = cancelled \cup {c}
    /\ UNCHANGED <<tail, waiters, promises, handle, lost, signal, link, broker, abandoned>>

\* await renewal, then release() unless the lease is known to be lost.
AwaitRenewal(c) ==
    /\ pc[c] = "stopping" /\ renew[c] = "off"
    /\ IF c \in lost
         THEN Settles(c, "lost")
         ELSE /\ pc' = [pc EXCEPT ![c] = "releasing"]
              /\ ops' = [ops EXCEPT ![c] = Append(@, "release")]
              /\ UNCHANGED <<token, calls, closed, born, lost, cancelled, signal>>
    /\ UNCHANGED <<tail, waiters, promises, renew, link, broker, abandoned>>

------------------------------------------------------------------------------
(* Signals, requests and the connection *)

\* The caller aborts.  A pending ACQUIRE rejects; a queued waiter is rejected
\* and leaves queuedAcquisitions; a running callback sees its signal abort.
Abort(c) ==
    \/ /\ c \notin signal /\ pc[c] \in {"chained", "asking", "deferred"}
       /\ signal' = signal \cup {c}
       /\ request' = [request EXCEPT ![c] =
                       IF @ \in {"unsent", "sent"} THEN "failed" ELSE @]
       /\ box' = [box EXCEPT ![c] = IF Occurs(waiters, c) THEN "failed" ELSE @]
       /\ waiters' = Without(waiters, c)
       /\ UNCHANGED <<pc, tail, ans, handle, managed, link, broker, abandoned>>
    \/ /\ c \in Managed \ cancelled /\ pc[c] = "held"
       /\ cancelled' = cancelled \cup {c}
       /\ UNCHANGED <<pc, tail, waiters, promises, handle, renew, lost, signal, link, broker,
                      abandoned>>

\* A request leaves for the broker, which serves it.
Send(c) ==
    /\ up /\ request[c] = "unsent"
    /\ request' = [request EXCEPT ![c] = "sent"]
    /\ IF pc[c] = "asking" THEN BrokerAcquire(c) ELSE BrokerOperation(c)
    /\ UNCHANGED <<pc, tail, waiters, ans, box, handle, managed, signal, link, abandoned>>

\* requestTimeoutMs, or the 5 s watchdog of the release.  (While the connection
\* is up an unsent request is as good as one whose answer gets lost.)
TimesOut(c) ==
    /\ ~Settling
    /\ request[c] = "sent" \/ (request[c] = "unsent" /\ ~up)
    /\ request' = [request EXCEPT ![c] = "failed"]
    /\ UNCHANGED <<pc, tail, waiters, ans, box, handle, managed, signal, link, broker, abandoned>>

\* The answer of a request that is still pending.
DeliverAnswer ==
    /\ wire # <<>> /\ Head(wire).kind = "answer"
    /\ wire' = Tail(wire)
    /\ LET f == Head(wire)
       IN IF request[f.to] = "sent"
            THEN /\ request' = [request EXCEPT ![f.to] = IF f.value = "failed" THEN "failed" ELSE "ok"]
                 /\ ans' = [ans EXCEPT ![f.to] = IF pc[f.to] = "asking" THEN f.value ELSE @]
            ELSE UNCHANGED <<request, ans>>
    /\ UNCHANGED <<pc, tail, waiters, box, handle, managed, signal, link, owner, parked, abandoned>>

\* initAcquireHandler(): a deferred completion resolves the oldest waiter.  (A
\* settled waiter has left the array, so shift() never meets one.)
DeliverGrant ==
    /\ wire # <<>> /\ Head(wire).kind = "grant"
    /\ wire' = Tail(wire)
    /\ IF waiters = <<>>
         THEN UNCHANGED <<waiters, box>>
         ELSE /\ box' = [box EXCEPT ![Head(waiters)] = Head(wire).value]
              /\ waiters' = Tail(waiters)
    /\ UNCHANGED <<pc, tail, request, ans, handle, managed, signal, link, owner, parked, abandoned>>

\* A variant that leaves the queued acquisitions to the broker.
InterruptedNobody == {}

\* The acquisitions the client's disconnect listener rejects.
Interrupted == {c \in Callers : Occurs(waiters, c)}

\* A variant in which withLease() leaves it to the renewals to notice a loss.
LosingNobody == {}

\* onLeaseConnectionLost(): the calls whose callback is running.
Losing == {c \in Managed : pc[c] = "held"}

\* The session ends: what is pending in it fails, queued acquisitions are
\* rejected, handles close, running callbacks are cancelled.  The broker drops
\* the queued acquisitions of the session; its leases live until they expire.
Disconnect ==
    LET handles == {c \in Callers : pc[c] \in Granted}
    IN /\ up /\ session < MaxSession
       /\ up' = FALSE
       /\ session' = session
       /\ request' = [c \in Callers |-> IF request[c] \in {"unsent", "sent"} THEN "failed" ELSE request[c]]
       /\ box' = [c \in Callers |-> IF c \in Interrupted THEN "failed" ELSE box[c]]
       /\ waiters' = <<>>
       /\ closed' = closed \cup handles
       /\ lost' = lost \cup Losing
       /\ cancelled' = cancelled \cup Losing
       /\ parked' = <<>> /\ wire' = <<>>
       /\ UNCHANGED <<pc, tail, ans, token, calls, ops, born, renew, signal, owner, abandoned>>

Reconnect ==
    /\ ~up /\ ~Settling
    /\ up' = TRUE /\ session' = session + 1
    /\ UNCHANGED <<pc, tail, waiters, promises, handle, managed, signal, broker, abandoned>>

------------------------------------------------------------------------------
Next ==
    \/ \E c \in Callers :
         \/ Call(c) \/ StartAcquire(c) \/ ContinueAsking(c) \/ ContinueDeferred(c)
         \/ \E op \in {"extend", "release"} : AppOperation(c, op)
         \/ OperationStarts(c) \/ ContinueOperation(c)
         \/ RenewalFires(c) \/ CallbackEnds(c) \/ AwaitRenewal(c)
         \/ Abort(c) \/ Send(c) \/ TimesOut(c) \/ WaitElapses(c)
    \/ \E r \in Routes : LeaseEnds(r)
    \/ DeliverAnswer \/ DeliverGrant
    \/ Disconnect \/ Reconnect

Spec == Init /\ [][Next]_vars

(***************************************************************************)
(* The program never rests while a continuation, a timer, a frame or the   *)
(* reconnect loop is due, and callbacks return; nothing stronger is needed *)
(* as the other steps are few.  The client sets no timer on a queued       *)
(* acquisition: that the broker ends it after waitSeconds is an assumption *)
(* about the broker.                                                       *)
(***************************************************************************)
Progress ==
    \/ \E c \in Callers :
         \/ StartAcquire(c) \/ ContinueAsking(c) \/ ContinueDeferred(c)
         \/ OperationStarts(c) \/ ContinueOperation(c) \/ AwaitRenewal(c)
         \/ Send(c) \/ TimesOut(c) \/ WaitElapses(c)
    \/ DeliverAnswer \/ DeliverGrant \/ Reconnect

Fairness == WF_vars(Progress) /\ \A c \in Managed : WF_vars(CallbackEnds(c))

FairSpec == Spec /\ Fairness

------------------------------------------------------------------------------
(* Properties *)

\* The variables have their types.
TypeOK ==
    /\ pc \in [Callers -> Final \cup Granted \cup {"idle", "chained", "asking", "deferred"}]
    /\ tail \in Seq(Callers) /\ waiters \in Seq(Callers) /\ parked \in Seq(Callers)
    /\ request \in [Callers -> {None, "unsent", "sent", "ok", "failed"}]
    /\ ans \in [Callers -> Callers \cup {None, "ok", "queued", "already", "failed"}]
    /\ box \in [Callers -> Callers \cup {None, "failed"}]
    /\ token \in [Callers -> Callers \cup {None}]
    /\ calls \in [Callers -> 0..MaxOps]
    /\ ops \in [Callers -> Seq({"extend", "release"})]
    /\ closed \subseteq Callers /\ abandoned \subseteq Callers /\ signal \subseteq Callers
    /\ born \in [Callers -> 0..MaxSession]
    /\ renew \in [Callers -> {"off", "asleep", "extending"}]
    /\ lost \subseteq Managed /\ cancelled \subseteq Managed
    /\ up \in BOOLEAN /\ session \in 1..MaxSession
    /\ owner \in [Routes -> Callers \cup {None, Rival}]
    /\ wire \in Seq([kind : {"answer", "grant"}, to : Callers,
                     value : Callers \cup {"ok", "queued", "already", "failed"}])

\* A handle carries a token of its own route, although a deferred grant names
\* neither its route nor its request: runAcquire() calls run one after the other.
\* It holds as long as no call was given up while the broker had it queued.
GrantGoesToItsCaller ==
    abandoned = {} => \A c \in Callers : token[c] # None => Route[token[c]] = Route[c]

\* The same without the proviso, as the comment on acquire() has it.
GrantAlwaysGoesToItsCaller ==
    \A c \in Callers : token[c] # None => Route[token[c]] = Route[c]

\* A callback never runs on past the session that granted its lease without its
\* signal telling so, unless the session was gone before createLease() ran.
LossSignalled ==
    \A c \in Managed :
      pc[c] = "held" /\ born[c] # 0 /\ (~up \/ born[c] # session) => c \in cancelled

\* Every call comes to its end, through queueing, disconnects and failed
\* renewals (an application's own handle is the application's to release), and
\* once it has settled nothing of it goes on: no renewal, no pending request, no
\* waiter that would swallow the grant of a later call, no place in the chain.
EveryCallSettles ==
    /\ \A c \in Callers :
         pc[c] = "chained" ~> pc[c] \in Final \cup (IF c \in Managed THEN {} ELSE {"held"})
    /\ [](\A c \in Callers : pc[c] \in Final =>
            /\ renew[c] = "off" /\ request[c] = None
            /\ ~Occurs(waiters, c) /\ ~Occurs(tail, c))

==============================================================================
