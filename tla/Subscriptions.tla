---------------------------- MODULE Subscriptions ----------------------------
(***************************************************************************)
(* The subscription bookkeeping of a domain client: subscribe(),           *)
(* unsubscribe(), the notification buffer and the restore after a          *)
(* reconnect, as in src/domains/queue/client.ts with the helpers of        *)
(* src/domains/internal/.  Stream and schedule share the shape; the kv     *)
(* client buffers nothing and creates the entry inside the shared          *)
(* registration; the lease client buffers nothing and keeps its last       *)
(* handler until the broker confirmed; module Notice adds what the notice  *)
(* client does differently.                                                *)
(*                                                                         *)
(* A handler stands for one subscribe() call and the handle it returns.    *)
(* An action is the code between two awaits.  Continuations that are due   *)
(* run before the next session begins: a redial needs the event loop.      *)
(* The broker (external) keeps the registrations of the current session,   *)
(* handles frames in order and never gives a subId twice.                  *)
(***************************************************************************)
EXTENDS Naturals, Sequences, FiniteSets

CONSTANTS
    Patterns,    \* subscription patterns
    Handlers,    \* subscribe() calls
    Bulks,       \* unsubscribeAll() calls, where the client has it
    Nobody,      \* no handler, no entry, no pattern
    Restorer,    \* the restore, as the owner of a request
    MaxSessions, \* bound on the sessions of a behaviour
    MaxIds,      \* bound on the subIds the broker hands out
    Cases        \* the clients and environments to consider: pairs of "queue",
                 \* "kv", "notice" or "lease" and a set of EnvEvents

\* What the application and the broker may do beyond the plain life cycle:
\*   retry    call unsubscribe() again after it failed
\*   down     call subscribe() or unsubscribe() without an AUTHENTICATED session
\*   timeout  let a request time out (or be cancelled) at the client only
\*   restore  refuse the SUBSCRIBE of a restore
\*   abort    abort the signal that was passed to subscribe()
\*   gap      subscribe() between the end of a shared registration and the
\*            continuations of those who wait for it
EnvEvents == {"retry", "down", "timeout", "restore", "abort", "gap"}

Ids == 1 .. MaxIds
NoId == 0

\* What subscriptionsByPattern keeps for a pattern.
Entry == [id : Ids, handlers : SUBSET Handlers, unsub : Handlers \cup {Nobody}]

ASSUME SubAssumption ==
    /\ IsFiniteSet(Handlers)
    /\ Nobody \notin Entry
    /\ Nobody \notin Patterns \cup Handlers \cup Bulks
    /\ Restorer \notin Patterns \cup Handlers \cup Bulks \cup {Nobody}
    /\ Patterns \cap Handlers = {} /\ (Patterns \cup Handlers) \cap Bulks = {}
    /\ MaxSessions \in Nat \ {0}
    /\ MaxIds \in Nat
    /\ Cases \subseteq {"queue", "kv", "notice", "lease"} \X SUBSET EnvEvents

\* The owners of requests: a pattern for its shared SUBSCRIBE, a handler for
\* its UNSUBSCRIBE, unsubscribeAll() and the restore for their own.
Owners == Patterns \cup Handlers \cup Bulks \cup {Restorer}

VARIABLES
    domain, env,     \* the client, and what its environment may do
    phase,           \* "ready" (AUTHENTICATED), "lost" or "restoring"
    session,         \* number of the current or last session
    reg, nextId,     \* the broker's registrations and its next subId
    out,             \* frames the broker has not handled yet
    req,             \* requests: stage and, when answered, subId
    entries,         \* subscriptionsByPattern
    patternsBySubId,
    pending,         \* subIds with buffered notifications
    pc, pat,         \* where a handler's calls stand, and its pattern
    waitsFor,        \* the handler whose UNSUBSCRIBE a subscribe() awaits
    held,            \* the entry an unsubscribe() holds across its await
    aborted,         \* handlers whose signal is aborted
    ended,           \* handlers closed for good: overflow, unsubscribeAll()
    since,           \* the session in which subscribe() resolved
    restore          \* progress of restoreMapEntriesAtomically

vars == <<domain, env, phase, session, reg, nextId, out, req, entries, patternsBySubId,
          pending, pc, pat, waitsFor, held, aborted, ended, since, restore>>

broker == <<reg, nextId>>
calls == <<pat, aborted, ended, since>>

Idle == [st |-> "none", id |-> NoId]
NotRestoring == [todo |-> {}, cur |-> Nobody, rolling |-> FALSE, failed |-> {},
                 done |-> [p \in Patterns |-> Nobody]]

Init ==
    /\ \E c \in Cases : domain = c[1] /\ env = c[2]
    /\ phase = "ready"
    /\ session = 1
    /\ reg = [p \in Patterns |-> NoId]
    /\ nextId = 1
    /\ out = <<>>
    /\ req = [o \in Owners |-> Idle]
    /\ entries = [p \in Patterns |-> Nobody]
    /\ patternsBySubId = [i \in Ids |-> Nobody]
    /\ pending = {}
    /\ pc = [h \in Handlers |-> "idle"]
    /\ pat = [h \in Handlers |-> Nobody]
    /\ waitsFor = [h \in Handlers |-> Nobody]
    /\ held = [h \in Handlers |-> NoId]
    /\ aborted = {}
    /\ ended = {}
    /\ since = [h \in Handlers |-> 0]
    /\ restore = NotRestoring

-----------------------------------------------------------------------------
(* Requests (external: connection.request, checked in Multiplexer).        *)

\* request(): sent at once in an AUTHENTICATED session, else after readiness.
\* The restore may send while the session is being restored.
MaySend(o) == phase = "ready" \/ (o = Restorer /\ phase = "restoring")

\* A frame names a pattern; an UNSUBSCRIBE may name a subId instead.
Request(o, kind, p, id) ==
    /\ req' = [req EXCEPT ![o] = [st |-> IF MaySend(o) THEN "sent" ELSE "waiting",
                                  id |-> NoId]]
    /\ out' = IF MaySend(o)
                 THEN Append(out, [op |-> o, kind |-> kind, pat |-> p, id |-> id]) ELSE out

Answered(o) == req[o].st \in {"ok", "refused", "failed"}

\* No continuation is due: answers, timers and redials come only when the
\* event loop turns.
LoopTurns ==
    /\ \A h \in Handlers : pc[h] \notin {"resuming", "adding"}
    /\ \A o \in Owners : ~ Answered(o)

\* The application's code for a pattern runs after the continuations of the
\* subscribe() calls that wait for the same promise: its chain is longer.
AppMayCall(p) ==
    /\ "down" \in env \/ phase = "ready"
    /\ ~ \E h \in Handlers : pat[h] = p /\ pc[h] \in {"resuming", "adding"}

-----------------------------------------------------------------------------
(* Notifications.                                                          *)

\* resolveSubscription(subId), in the maps es and ps.
Resolves(id, es, ps) == ps[id] # Nobody /\ es[ps[id]] # Nobody

\* A variant: flush() runs before the maps are updated and finds nothing.
FlushedTooEarly(id, es, ps) == pending

\* flush(subId) after the maps were changed to es and ps.
Flushed(id, es, ps) == IF Resolves(id, es, ps) THEN pending \ {id} ELSE pending

\* dispatchOrQueue(): a notification of the broker's registration of p.  One
\* whose subscription is known goes to the dispatcher and changes nothing here;
\* the kv and the lease client drop the others.
Notify(p) ==
    /\ domain \notin {"kv", "lease"}
    /\ \A h \in Handlers : pc[h] \notin {"resuming", "adding"}
    /\ phase # "lost"
    /\ reg[p] # NoId
    /\ ~ Resolves(reg[p], entries, patternsBySubId)
    /\ pending' = pending \cup {reg[p]}
    /\ UNCHANGED <<phase, session, broker, out, req, entries, patternsBySubId,
                   pc, calls, waitsFor, held, restore>>

-----------------------------------------------------------------------------
(* unsubscribe()                                                           *)

\* The entry e of p after unsubscribe() of h took h out of it.  The last
\* handler sends UNSUBSCRIBE and marks the entry until the answer is there.
Detach(h, p, e) ==
    LET left == e.handlers \ {h} IN
    IF left # {}
       THEN /\ entries' = [entries EXCEPT ![p] = [e EXCEPT !.handlers = left]]
            /\ pc' = [pc EXCEPT ![h] = "done"]
            /\ UNCHANGED <<req, out, held>>
       ELSE /\ entries' = [entries EXCEPT ![p] = [e EXCEPT !.handlers = {}, !.unsub = h]]
            /\ pc' = [pc EXCEPT ![h] = "unsubscribing"]
            /\ held' = [held EXCEPT ![h] = e.id]
            /\ Request(h, "unsubscribe", p, NoId)

\* A last handler that is kept until the broker confirmed; a handler that is
\* not in the map needs nothing.
KeepUntilConfirmed(h, p, e, named) ==
    IF h \notin e.handlers \/ Cardinality(e.handlers) > 1
       THEN /\ entries' = [entries EXCEPT ![p].handlers = @ \ {h}]
            /\ pc' = [pc EXCEPT ![h] = "done"]
            /\ UNCHANGED <<req, out, held>>
       ELSE /\ entries' = [entries EXCEPT ![p].unsub = h]
            /\ pc' = [pc EXCEPT ![h] = "unsubscribing"]
            /\ held' = [held EXCEPT ![h] = e.id]
            /\ Request(h, "unsubscribe", p, named)

\* So in the notice client, which names the subId, and in the lease client.
NoticeDetach(h, p, e) == KeepUntilConfirmed(h, p, e, e.id)
LeaseDetach(h, p, e) == KeepUntilConfirmed(h, p, e, NoId)

UnsubscribeBody(h) ==
    /\ IF entries[pat[h]] = Nobody
          THEN /\ pc' = [pc EXCEPT ![h] = "done"]
               /\ UNCHANGED <<entries, req, out, held>>
          ELSE IF domain = "notice" THEN NoticeDetach(h, pat[h], entries[pat[h]])
          ELSE IF domain = "lease" THEN LeaseDetach(h, pat[h], entries[pat[h]])
          ELSE Detach(h, pat[h], entries[pat[h]])
    /\ UNCHANGED <<phase, session, broker, patternsBySubId, pending, waitsFor,
                   pat, since, restore>>

\* unsubscribe() by the application; "detached" is a handle whose first
\* UNSUBSCRIBE failed and which may try again.
Unsubscribe(h) ==
    /\ pc[h] = "active" \/ (pc[h] = "detached" /\ "retry" \in env)
    /\ AppMayCall(pat[h])
    /\ UnsubscribeBody(h)
    /\ UNCHANGED <<aborted, ended>>

\* The signal passed to subscribe() is aborted: an active handle disposes
\* itself; before that only the signal remembers it.
Abort(h) ==
    /\ "abort" \in env
    /\ h \notin aborted
    /\ pc[h] # "idle"
    /\ aborted' = aborted \cup {h}
    /\ UNCHANGED ended
    /\ IF pc[h] = "active" /\ AppMayCall(pat[h])
          THEN UnsubscribeBody(h)
          ELSE /\ pc[h] \in {"awaiting", "resuming", "registering", "adding"}
               /\ UNCHANGED <<phase, session, broker, out, req, entries, pc,
                              patternsBySubId, pending, pat, waitsFor, held,
                              since, restore>>

\* The dispatcher refuses a notification: fail() ends the subscription.
Overflow(h) ==
    /\ pc[h] = "active"
    /\ phase = "ready"
    /\ AppMayCall(pat[h])
    /\ reg[pat[h]] # NoId
    /\ entries[pat[h]] # Nobody
    /\ entries[pat[h]].id = reg[pat[h]]
    /\ h \in entries[pat[h]].handlers
    /\ ended' = ended \cup {h}
    /\ UnsubscribeBody(h)
    /\ UNCHANGED aborted

\* isCurrentEmptyState(map, key, state), once h is out of it.
IsCurrentEmptyState(p, id, h) ==
    entries[p] # Nobody /\ entries[p].id = id /\ entries[p].handlers \subseteq {h}

\* The UNSUBSCRIBE of h is settled: clear the mark, delete the entry if it is
\* still the same and still empty, and let waiting subscribe() calls go on.
UnsubscribeSettles(h) ==
    LET p == pat[h]
        id == held[h]
        current == entries[p] # Nobody /\ entries[p].id = id
        ok == req[h].st = "ok"
        gone == ok /\ IsCurrentEmptyState(p, id, h)
    IN
    /\ pc[h] = "unsubscribing"
    /\ Answered(h)
    /\ entries' = IF gone THEN [entries EXCEPT ![p] = Nobody]
                  ELSE IF current
                       THEN [entries EXCEPT ![p].unsub = IF @ = h THEN Nobody ELSE @,
                                            ![p].handlers = IF ok THEN @ \ {h} ELSE @]
                       ELSE entries
    /\ patternsBySubId' = IF gone THEN [patternsBySubId EXCEPT ![id] = Nobody]
                                  ELSE patternsBySubId
    /\ pending' = IF gone THEN pending \ {id} ELSE pending
    /\ pc' = [k \in Handlers |->
                IF k = h THEN IF ok \/ h \in ended THEN "done" ELSE "detached"
                ELSE IF pc[k] = "awaiting" /\ waitsFor[k] = h THEN "resuming"
                ELSE pc[k]]
    /\ waitsFor' = [k \in Handlers |-> IF waitsFor[k] = h THEN Nobody ELSE waitsFor[k]]
    /\ req' = [req EXCEPT ![h] = Idle]
    /\ held' = [held EXCEPT ![h] = NoId]
    /\ UNCHANGED <<phase, session, broker, out, calls, restore>>

-----------------------------------------------------------------------------
(* subscribe()                                                             *)

\* addLocalSubscription(): join or create the entry, register the handler and
\* flush the buffer.  With a signal that is already aborted the controller
\* runs unsubscribe() before the handler is in the map (the notice and the
\* lease client's does not find it there and returns).
AddLocalSubscription(h, p, id) ==
    LET e == IF entries[p] # Nobody THEN entries[p]
             ELSE [id |-> id, handlers |-> {}, unsub |-> Nobody]
        ps == IF entries[p] # Nobody THEN patternsBySubId
              ELSE [patternsBySubId EXCEPT ![id] = p]
        last == domain \notin {"notice", "lease"} /\ h \in aborted /\ e.handlers = {}
        es == [entries EXCEPT ![p] =
                 [e EXCEPT !.handlers = @ \cup {h},
                           !.unsub = IF last THEN h ELSE @]]
    IN
    /\ entries' = es
    /\ patternsBySubId' = ps
    /\ pending' = Flushed(id, es, ps)
    /\ pat' = [pat EXCEPT ![h] = p]
    /\ since' = [since EXCEPT ![h] = session]
    /\ pc' = [pc EXCEPT ![h] = IF last THEN "unsubscribing"
                               ELSE IF h \in aborted THEN "done" ELSE "active"]
    /\ IF last THEN /\ held' = [held EXCEPT ![h] = e.id]
                    /\ Request(h, "unsubscribe", p, NoId)
               ELSE UNCHANGED <<held, req, out>>
    /\ UNCHANGED <<phase, session, broker, waitsFor, aborted, ended, restore>>

\* The entry's UNSUBSCRIBE is in flight: awaitPendingUnsubscribe().
AwaitPendingUnsubscribe(h, p) ==
    /\ pc' = [pc EXCEPT ![h] = "awaiting"]
    /\ pat' = [pat EXCEPT ![h] = p]
    /\ waitsFor' = [waitsFor EXCEPT ![h] = entries[p].unsub]
    /\ UNCHANGED <<phase, session, broker, out, req, entries, patternsBySubId,
                   pending, aborted, ended, since, held, restore>>

\* A variant: every caller sends its own SUBSCRIBE.
RegisterEach(h, p) ==
    /\ pc' = [pc EXCEPT ![h] = "registering"]
    /\ pat' = [pat EXCEPT ![h] = p]
    /\ Request(p, "subscribe", p, NoId)
    /\ UNCHANGED <<phase, session, broker, entries, patternsBySubId, pending,
                   aborted, ended, since, waitsFor, held, restore>>

\* registerSingleFlight(): the first caller sends SUBSCRIBE, the others share
\* its promise.
RegisterSingleFlight(h, p) ==
    /\ pc' = [pc EXCEPT ![h] = "registering"]
    /\ pat' = [pat EXCEPT ![h] = p]
    /\ IF req[p].st # "none" THEN UNCHANGED <<req, out>> ELSE Request(p, "subscribe", p, NoId)
    /\ UNCHANGED <<phase, session, broker, entries, patternsBySubId, pending,
                   aborted, ended, since, waitsFor, held, restore>>

\* One round of subscribe()'s loop.
LookUp(h, p) ==
    \/ /\ entries[p] # Nobody
       /\ entries[p].unsub # Nobody
       /\ AwaitPendingUnsubscribe(h, p)
    \/ /\ entries[p] # Nobody
       /\ entries[p].unsub = Nobody
       /\ AddLocalSubscription(h, p, entries[p].id)
    \/ /\ entries[p] = Nobody
       /\ RegisterSingleFlight(h, p)

Subscribe(h, p) ==
    /\ pc[h] = "idle"
    /\ AppMayCall(p) \/ ("gap" \in env /\ phase = "ready")
    /\ LookUp(h, p)

Resume(h) ==
    /\ pc[h] = "resuming"
    /\ LookUp(h, pat[h])

\* The kv client creates the entry before the promise resolves.
KvRegisters(p) ==
    IF domain = "kv" /\ req[p].st = "ok"
       THEN /\ entries' = [entries EXCEPT ![p] = [id |-> req[p].id, handlers |-> {},
                                                 unsub |-> Nobody]]
            /\ patternsBySubId' = [patternsBySubId EXCEPT ![req[p].id] = p]
       ELSE UNCHANGED <<entries, patternsBySubId>>

\* A variant: a rejection does not reach the callers that share the promise.
FlightSettlesForgets(p) ==
    LET ok == req[p].st = "ok" IN
    /\ Answered(p)
    /\ pc' = [h \in Handlers |->
                IF pc[h] = "registering" /\ pat[h] = p /\ ok THEN "adding" ELSE pc[h]]
    /\ held' = [h \in Handlers |->
                  IF pc[h] = "registering" /\ pat[h] = p /\ ok THEN req[p].id ELSE held[h]]
    /\ req' = [req EXCEPT ![p] = Idle]
    /\ KvRegisters(p)
    /\ UNCHANGED <<phase, session, broker, out, pending, calls, waitsFor, restore>>

\* The shared SUBSCRIBE of p is settled: the key is given up first, the
\* callers that share the promise continue afterwards.
FlightSettles(p) ==
    LET ok == req[p].st = "ok" IN
    /\ Answered(p)
    /\ pc' = [h \in Handlers |->
                IF pc[h] = "registering" /\ pat[h] = p
                   THEN IF ok THEN "adding" ELSE "rejected"
                   ELSE pc[h]]
    /\ held' = [h \in Handlers |->
                  IF pc[h] = "registering" /\ pat[h] = p /\ ok THEN req[p].id ELSE held[h]]
    /\ req' = [req EXCEPT ![p] = Idle]
    /\ KvRegisters(p)
    /\ UNCHANGED <<phase, session, broker, out, pending, calls, waitsFor, restore>>

\* held is the subId the promise resolved with.
AddRegistered(h) ==
    /\ pc[h] = "adding"
    /\ AddLocalSubscription(h, pat[h], held[h])

-----------------------------------------------------------------------------
(* The session and the broker.                                             *)

\* The request of o ends without an answer; its frame may still be handled.
Disown(o) ==
    out' = [i \in DOMAIN out |-> IF out[i].op = o THEN [out[i] EXCEPT !.op = Nobody]
                                 ELSE out[i]]

\* Requests called without a session go out when it is AUTHENTICATED again.
SendWaiting(o) ==
    /\ phase = "ready"
    /\ req[o].st = "waiting"
    /\ o \in Patterns => Request(o, "subscribe", o, NoId)
    /\ o \in Handlers => Request(o, "unsubscribe", pat[o],
                                  IF domain = "notice" THEN held[o] ELSE NoId)
    /\ o \in Bulks => Request(o, "unsubscribeAll", Nobody, NoId)
    /\ UNCHANGED <<phase, session, broker, entries, patternsBySubId, pending, pc,
                   calls, waitsFor, held, restore>>

\* A request times out at the client; the broker may still handle its frame.
RequestTimesOut(o) ==
    /\ "timeout" \in env
    /\ LoopTurns
    /\ req[o].st \in {"waiting", "sent"}
    /\ req' = [req EXCEPT ![o] = [st |-> "failed", id |-> NoId]]
    /\ Disown(o)
    /\ UNCHANGED <<phase, session, broker, entries, patternsBySubId, pending, pc,
                   calls, waitsFor, held, restore>>

AnswerHead(st, id) ==
    LET o == Head(out).op IN
    /\ out' = Tail(out)
    /\ req' = IF o = Nobody THEN req ELSE [req EXCEPT ![o] = [st |-> st, id |-> id]]
    /\ UNCHANGED <<phase, session, entries, patternsBySubId, pending, pc, calls,
                   waitsFor, held, restore>>

\* The broker registers a pattern, under a new subId or, if it has it
\* already, under the same one.
BrokerSubscribes ==
    /\ LoopTurns
    /\ out # <<>>
    /\ Head(out).kind = "subscribe"
    /\ LET p == Head(out).pat IN
       \/ /\ nextId \in Ids
          /\ reg' = [reg EXCEPT ![p] = nextId]
          /\ nextId' = nextId + 1
          /\ AnswerHead("ok", nextId)
       \/ /\ reg[p] # NoId
          /\ AnswerHead("ok", reg[p])
          /\ UNCHANGED broker

BrokerUnsubscribes ==
    /\ LoopTurns
    /\ out # <<>>
    /\ Head(out).kind = "unsubscribe"
    /\ Head(out).id \in {NoId, reg[Head(out).pat]}
    /\ reg' = [reg EXCEPT ![Head(out).pat] = NoId]
    /\ AnswerHead("ok", NoId)
    /\ UNCHANGED nextId

\* An explicit negative answer changes nothing at the broker.
BrokerRefuses ==
    /\ LoopTurns
    /\ out # <<>>
    /\ Head(out).op = Restorer => "restore" \in env
    /\ AnswerHead("refused", NoId)
    /\ UNCHANGED broker

\* The session is lost: requests without an answer fail.  A loss during a restore is left to
\* module Connection: it leaves a connection no request can use.
Loss ==
    /\ phase = "ready"
    /\ session < MaxSessions
    /\ \A o \in Owners : req[o].st # "waiting"
    /\ phase' = "lost"
    /\ reg' = [p \in Patterns |-> NoId]
    /\ out' = <<>>
    /\ req' = [o \in Owners |->
                 IF req[o].st = "sent" THEN [st |-> "failed", id |-> NoId]
                 ELSE req[o]]
    /\ UNCHANGED <<session, nextId, entries, patternsBySubId, pending, pc, calls,
                   waitsFor, held, restore>>

\* The next session: the reconnect listener restores a copy of the entries.
Reconnect ==
    LET keys == {p \in Patterns : entries[p] # Nobody} IN
    /\ phase = "lost"
    /\ LoopTurns
    /\ session' = session + 1
    /\ phase' = IF keys = {} THEN "ready" ELSE "restoring"
    /\ restore' = [NotRestoring EXCEPT !.todo = keys]
    /\ UNCHANGED <<broker, out, req, entries, patternsBySubId, pending, pc, calls,
                   waitsFor, held>>

RestoreSends(p) ==
    /\ phase = "restoring"
    /\ ~ restore.rolling
    /\ p \in restore.todo
    /\ req[Restorer].st = "none"
    /\ restore' = [restore EXCEPT !.cur = p]
    /\ Request(Restorer, "subscribe", p, NoId)
    /\ UNCHANGED <<phase, session, broker, entries, patternsBySubId, pending, pc,
                   calls, waitsFor, held>>

\* The lease client keeps its index of subIds up to date entry by entry, so that
\* a restored entry gets its notifications before the others are restored.
LeaseRestored(p, id) == [patternsBySubId EXCEPT ![entries[p].id] = Nobody, ![id] = p]
LeaseRolledBack(p) == [patternsBySubId EXCEPT ![restore.done[p].id] = Nobody]

\* restoreEntry() copies the handlers of the old entry; after the last entry
\* the copies replace the map, the subIds are rebuilt and buffers flushed.
RestoreEntry ==
    LET p == restore.cur
        copy == [id |-> req[Restorer].id, handlers |-> entries[p].handlers,
                 unsub |-> Nobody]
        done == [restore.done EXCEPT ![p] = copy]
        ps == [i \in Ids |->
                 IF \E q \in Patterns : done[q] # Nobody /\ done[q].id = i
                    THEN CHOOSE q \in Patterns : done[q] # Nobody /\ done[q].id = i
                    ELSE Nobody]
    IN
    /\ phase = "restoring"
    /\ ~ restore.rolling
    /\ req[Restorer].st = "ok"
    /\ req' = [req EXCEPT ![Restorer] = Idle]
    /\ IF restore.todo # {p}
          THEN /\ restore' = [restore EXCEPT !.todo = @ \ {p}, !.done = done]
               /\ patternsBySubId' = IF domain = "lease" THEN LeaseRestored(p, copy.id)
                                     ELSE patternsBySubId
               /\ UNCHANGED <<phase, entries, pending>>
          ELSE /\ entries' = done
               /\ patternsBySubId' = IF domain = "lease" THEN LeaseRestored(p, copy.id) ELSE ps
               /\ pending' = {i \in pending : ~ Resolves(i, done, ps)}
               /\ phase' = "ready"
               /\ restore' = NotRestoring
    /\ UNCHANGED <<session, broker, out, pc, calls, waitsFor, held>>

\* One entry cannot be restored: unwind the others.  A failed entry is
\* remembered until the next session.
RestoreFails ==
    /\ phase = "restoring"
    /\ ~ restore.rolling
    /\ req[Restorer].st \in {"refused", "failed"}
    /\ req' = [req EXCEPT ![Restorer] = Idle]
    /\ restore' = [restore EXCEPT !.rolling = TRUE, !.todo = {},
                                  !.failed = @ \cup {restore.cur}]
    /\ UNCHANGED <<phase, session, broker, out, entries, patternsBySubId, pending,
                   pc, calls, waitsFor, held>>

RollbackSends(p) ==
    /\ restore.rolling
    /\ phase = "restoring"
    /\ restore.done[p] # Nobody
    /\ req[Restorer].st = "none"
    /\ restore' = [restore EXCEPT !.cur = p]
    /\ Request(Restorer, "unsubscribe", p, NoId)
    /\ patternsBySubId' = IF domain = "lease" THEN LeaseRolledBack(p) ELSE patternsBySubId
    /\ UNCHANGED <<phase, session, broker, entries, pending, pc, calls, waitsFor, held>>

\* A failed rollback is ignored.
RollbackEntry ==
    /\ restore.rolling
    /\ phase = "restoring"
    /\ Answered(Restorer)
    /\ req' = [req EXCEPT ![Restorer] = Idle]
    /\ restore' = [restore EXCEPT !.done[restore.cur] = Nobody]
    /\ UNCHANGED <<phase, session, broker, out, entries, patternsBySubId, pending,
                   pc, calls, waitsFor, held>>

\* The error is reported and the session becomes AUTHENTICATED all the same.
RestoreGivesUp ==
    /\ restore.rolling
    /\ phase = "restoring"
    /\ \A p \in Patterns : restore.done[p] = Nobody
    /\ phase' = "ready"
    /\ restore' = [NotRestoring EXCEPT !.failed = restore.failed]
    /\ UNCHANGED <<session, broker, out, req, entries, patternsBySubId, pending,
                   pc, calls, waitsFor, held>>

-----------------------------------------------------------------------------
(* The steps, as module Notice puts them together for every kind.          *)

Continue ==
    \/ \E h \in Handlers : UnsubscribeSettles(h) \/ Resume(h) \/ AddRegistered(h)
    \/ \E p \in Patterns : FlightSettles(p)

SendStep == \E o \in Owners \ {Restorer} : SendWaiting(o)

RestoreStep ==
    \/ \E p \in Patterns : RestoreSends(p) \/ RollbackSends(p)
    \/ RestoreEntry \/ RestoreFails \/ RollbackEntry \/ RestoreGivesUp

BrokerStep == BrokerSubscribes \/ BrokerUnsubscribes \/ BrokerRefuses

HandleStep == \E h \in Handlers : Unsubscribe(h) \/ Abort(h) \/ Overflow(h)

WorldStep ==
    \/ \E p \in Patterns : Notify(p)
    \/ \E o \in Owners : RequestTimesOut(o)
    \/ Loss

-----------------------------------------------------------------------------
(* Properties.                                                             *)

\* The types of the maps, requests and call states, and the single flight:
\* whoever registers shares a SUBSCRIBE that is under way.
TypeOK ==
    /\ phase \in {"ready", "lost", "restoring"}
    /\ session \in 1 .. MaxSessions
    /\ reg \in [Patterns -> Ids \cup {NoId}]
    /\ nextId \in 1 .. MaxIds + 1
    /\ \A i \in DOMAIN out : out[i] \in [op : Owners \cup {Nobody},
                                         kind : {"subscribe", "unsubscribe",
                                                 "unsubscribeAll"},
                                         pat : Patterns \cup {Nobody},
                                         id : Ids \cup {NoId}]
    /\ req \in [Owners -> [st : {"none", "waiting", "sent", "ok", "refused", "failed"},
                           id : Ids \cup {NoId}]]
    /\ entries \in [Patterns -> Entry \cup {Nobody}]
    /\ patternsBySubId \in [Ids -> Patterns \cup {Nobody}]
    /\ pending \subseteq Ids
    /\ pc \in [Handlers -> {"idle", "queued", "awaiting", "resuming", "registering",
                            "adding", "active", "unsubscribing", "detached", "done",
                            "rejected"}]
    /\ pat \in [Handlers -> Patterns \cup {Nobody}]
    /\ waitsFor \in [Handlers -> Handlers \cup {Nobody}]
    /\ held \in [Handlers -> Ids \cup {NoId}]
    /\ aborted \subseteq Handlers
    /\ ended \subseteq Handlers
    /\ since \in [Handlers -> 0 .. MaxSessions]
    /\ restore.todo \subseteq Patterns
    /\ restore.done \in [Patterns -> Entry \cup {Nobody}]
    /\ \A h \in Handlers : pc[h] = "registering" => req[pat[h]].st # "none"

\* The broker's registration of p is the one of its entry, and notifications
\* under its subId find the entry.
Served(p) ==
    /\ entries[p] # Nobody
    /\ reg[p] = entries[p].id
    /\ patternsBySubId[reg[p]] = p

\* Once a handler whose signal was aborted is done, it is in no entry; stated
\* by src/domains/queue/client.ts:133, and not so when the signal is aborted
\* before the handler is in the map.
AbortedIsGone ==
    \A h \in aborted, p \in Patterns :
        (pc[h] = "done" /\ entries[p] # Nobody) => h \notin entries[p].handlers

\* Buffered notifications wait only for bookkeeping that is still missing:
\* once a subId resolves, its buffer has been flushed.
NothingStranded ==
    \A i \in pending : ~ Resolves(i, entries, patternsBySubId)

\* A restore that fails for some entries leaves the others registered; stated
\* by docs/PUBLIC_CONTRACT.md:38, and not so: the others are rolled back.
RemainingRestored ==
    phase = "ready" => \A p \in Patterns :
        (entries[p] # Nobody /\ entries[p].unsub = Nobody /\ restore.failed # {}
            /\ p \notin restore.failed) => Served(p)
=============================================================================
