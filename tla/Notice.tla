-------------------------------- MODULE Notice --------------------------------
(***************************************************************************)
(* What the notice client (src/domains/notice/client.ts) adds to the       *)
(* bookkeeping of module Subscriptions: subscribe() and unsubscribeAll()   *)
(* run one after the other (mutationTail), and unsubscribeAll() meets      *)
(* reconnects, whose restore it skips.  The next-state relation covers     *)
(* every kind of client; "queue" stands for the queue client and those     *)
(* like it.                                                                *)
(***************************************************************************)
EXTENDS Subscriptions, SequencesExt

VARIABLES
    tail,           \* mutationTail: calls in order, the first one runs
    bulk,           \* where each unsubscribeAll() is
    skippedRestore, \* a reconnect left the entries as they were
    spoiled         \* history: patterns the client and the broker may disagree on

notice == <<tail, bulk, skippedRestore>>
nvars == <<vars, notice, spoiled>>

\* What can part the client's and the broker's view of p: unsubscribe() called
\* without a session, whose UNSUBSCRIBE follows the restore of the entry; a
\* request that ends at the client only; a SUBSCRIBE sent after a shared one has
\* settled and before its callers have continued; one of those callers, joining
\* an entry that another, aborted meanwhile, has just unsubscribed; a restore
\* that gave up.
Spoils(p) ==
    \/ \E h \in Handlers : pat[h] = p /\ pc'[h] = "unsubscribing" /\ req'[h].st = "waiting"
    \/ \E o \in Owners :
          /\ o \in Patterns => o = p
          /\ o \in Handlers => pat[o] = p
          /\ req[o].st \in {"waiting", "sent"} /\ req'[o].st = "failed" /\ phase' # "lost"
    \/ /\ req[p].st = "none" /\ req'[p].st # "none"
       /\ \E h \in Handlers : pc[h] = "adding" /\ pat[h] = p
    \/ /\ entries[p] # Nobody /\ entries[p].unsub # Nobody
       /\ \E h \in Handlers : pc[h] = "adding" /\ pat[h] = p /\ pc'[h] = "active"
    \/ restore.rolling /\ phase' = "ready"

\* What makes up for it: a restore that succeeds, or that nothing is left of p.
Renews(p) ==
    \/ phase = "restoring" /\ phase' = "ready"
    \/ /\ entries'[p] = Nobody /\ reg'[p] = NoId
       /\ \A i \in DOMAIN out' : out'[i].pat # p

Remember == spoiled' = {p \in Patterns : Spoils(p) \/ (p \in spoiled /\ ~ Renews(p))}

\* What no step changes, and what a step of module Subscriptions leaves alone.
Same == UNCHANGED <<domain, env>> /\ Remember
Still == UNCHANGED notice

NInit ==
    /\ Init
    /\ tail = <<>>
    /\ bulk = [b \in Bulks |-> "idle"]
    /\ skippedRestore = FALSE
    /\ spoiled = {}

-----------------------------------------------------------------------------
(* serialize()                                                             *)

\* The call of the tail's first entry is settled.
Over(x) ==
    IF x \in Handlers
       THEN pc[x] \notin {"queued", "resuming", "awaiting", "registering", "adding"}
       ELSE bulk[x] \in {"done", "failed"}

\* No continuation of the tail is due.
TailRests ==
    /\ tail # <<>> => ~ Over(Head(tail))
    /\ \A b \in Bulks : bulk[b] = "turn" => phase = "restoring"

\* pendingBulkUnsubscribes > 0
BulkPending == \E b \in Bulks : bulk[b] \in {"queued", "turn", "requesting"}

\* subscribe(): takes its place in the tail.
NoticeSubscribe(h, p) ==
    /\ pc[h] = "idle"
    /\ AppMayCall(p)
    /\ pat' = [pat EXCEPT ![h] = p]
    /\ pc' = [pc EXCEPT ![h] = IF tail = <<>> THEN "resuming" ELSE "queued"]
    /\ tail' = Append(tail, h)
    /\ UNCHANGED <<phase, session, broker, out, req, entries, patternsBySubId, pending,
                   aborted, ended, since, waitsFor, held, restore, bulk, skippedRestore>>

\* release(): the next call of the tail goes on.
Release ==
    /\ tail # <<>>
    /\ Over(Head(tail))
    /\ tail' = Tail(tail)
    /\ LET next == IF Len(tail) > 1 THEN tail[2] ELSE Nobody IN
       /\ pc' = [h \in Handlers |-> IF h = next THEN "resuming" ELSE pc[h]]
       /\ bulk' = [b \in Bulks |-> IF b = next THEN "turn" ELSE bulk[b]]
    /\ UNCHANGED <<phase, session, broker, out, req, entries, patternsBySubId, pending,
                   calls, waitsFor, held, restore, skippedRestore>>

-----------------------------------------------------------------------------
(* unsubscribeAll()                                                        *)

BulkCall(b) ==
    /\ bulk[b] = "idle"
    /\ \A p \in Patterns : AppMayCall(p)
    /\ bulk' = [bulk EXCEPT ![b] = IF tail = <<>> THEN "turn" ELSE "queued"]
    /\ tail' = Append(tail, b)
    /\ UNCHANGED <<phase, session, broker, out, req, entries, patternsBySubId, pending,
                   pc, calls, waitsFor, held, restore, skippedRestore>>

\* Its turn, and no restore is under way (restoreInFlight).
BulkRequests(b) ==
    /\ bulk[b] = "turn"
    /\ phase # "restoring"
    /\ bulk' = [bulk EXCEPT ![b] = "requesting"]
    /\ Request(b, "unsubscribeAll", Nobody, NoId)
    /\ UNCHANGED <<phase, session, broker, entries, patternsBySubId, pending, pc, calls,
                   waitsFor, held, restore, tail, skippedRestore>>

BrokerUnsubscribesAll ==
    /\ LoopTurns
    /\ out # <<>>
    /\ Head(out).kind = "unsubscribeAll"
    /\ reg' = [p \in Patterns |-> NoId]
    /\ AnswerHead("ok", NoId)
    /\ UNCHANGED <<nextId, notice>>

\* The handlers in the map.
Subscribed == UNION {entries[p].handlers : p \in {q \in Patterns : entries[q] # Nobody}}

\* Handlers whose handle is still active, a failed UNSUBSCRIBE behind it or not.
Live == {h \in Subscribed : pc[h] \in {"active", "detached"}}

\* The maps and buffers are cleared.
ClearAll ==
    /\ entries' = [p \in Patterns |-> Nobody]
    /\ patternsBySubId' = [i \in Ids |-> Nobody]
    /\ pending' = {i \in pending : \A p \in Patterns : entries[p] = Nobody \/ entries[p].id # i}

\* The broker confirmed: every handle is complete.
BulkSucceeds(b) ==
    /\ ClearAll
    /\ pc' = [h \in Handlers |-> IF h \in Live THEN "done" ELSE pc[h]]
    /\ ended' = ended \cup Subscribed
    /\ req' = [req EXCEPT ![b] = Idle]
    /\ UNCHANGED <<out, held>>

\* Not confirmed, after a reconnect that restored nothing: every handle fails.
\* Failing the last handler of an entry still sends its UNSUBSCRIBE.
BulkFailsHandles(b) ==
    LET last == {h \in Live : entries[pat[h]].handlers \subseteq Live
                              /\ h = CHOOSE k \in entries[pat[h]].handlers : TRUE}
        frames == {[op |-> h, kind |-> "unsubscribe", pat |-> pat[h],
                    id |-> entries[pat[h]].id] : h \in last}
    IN
    /\ ClearAll
    /\ pc' = [h \in Handlers |-> IF h \in last THEN "unsubscribing"
                                 ELSE IF h \in Live THEN "done" ELSE pc[h]]
    /\ ended' = ended \cup Live
    /\ held' = [h \in Handlers |-> IF h \in last THEN entries[pat[h]].id ELSE held[h]]
    /\ req' = [o \in Owners |->
                 IF o = b THEN Idle
                 ELSE IF o \in last THEN [st |-> IF MaySend(o) THEN "sent" ELSE "waiting", id |-> NoId]
                 ELSE req[o]]
    /\ out' = IF phase = "ready" THEN out \o SetToSeq(frames) ELSE out


BulkSettles(b) ==
    /\ bulk[b] = "requesting"
    /\ Answered(b)
    /\ IF req[b].st = "ok"
          THEN BulkSucceeds(b)
          ELSE IF skippedRestore
          THEN BulkFailsHandles(b)
          ELSE /\ req' = [req EXCEPT ![b] = Idle]
               /\ UNCHANGED <<entries, patternsBySubId, pending, pc, ended, held, out>>
    /\ bulk' = [bulk EXCEPT ![b] = IF req[b].st = "ok" THEN "done" ELSE "failed"]
    /\ skippedRestore' = FALSE
    /\ UNCHANGED <<phase, session, broker, pat, aborted, since, waitsFor, restore, tail>>

\* The reconnect listener while an unsubscribeAll() is pending.
SkipRestore ==
    /\ phase = "lost"
    /\ LoopTurns
    /\ TailRests
    /\ BulkPending
    /\ session' = session + 1
    /\ phase' = "ready"
    /\ skippedRestore' = TRUE
    /\ UNCHANGED <<broker, out, req, entries, patternsBySubId, pending, pc, calls,
                   waitsFor, held, restore, tail, bulk>>

-----------------------------------------------------------------------------
(* Both clients.                                                           *)

Reconnects == ~ BulkPending /\ TailRests /\ Reconnect /\ Still

BulkStep ==
    \/ Release
    \/ \E b \in Bulks : BulkRequests(b) \/ BulkSettles(b)

Next ==
    /\ \/ (Continue \/ SendStep \/ RestoreStep \/ HandleStep) /\ Still
       \/ TailRests /\ (BrokerStep \/ WorldStep) /\ Still
       \/ TailRests /\ BrokerUnsubscribesAll
       \/ Reconnects \/ SkipRestore
       \/ /\ domain # "notice"
          /\ \E h \in Handlers, p \in Patterns : Subscribe(h, p)
          /\ Still
       \/ /\ domain = "notice"
          /\ \/ BulkStep
             \/ \E h \in Handlers, p \in Patterns : NoticeSubscribe(h, p)
             \/ \E b \in Bulks : BulkCall(b)
    /\ Same

Spec == NInit /\ [][Next]_nvars

\* Continuations that are due run and waiting requests are sent, the broker
\* answers, and the reconnect loop brings the next session.
FairSpec ==
    /\ Spec
    /\ WF_nvars(Continue /\ Still /\ Same)
    /\ \A o \in Owners \ {Restorer} : WF_nvars(SendWaiting(o) /\ Still /\ Same)
    /\ WF_nvars(domain = "notice" /\ BulkStep /\ Same)
    /\ WF_nvars(RestoreStep /\ Still /\ Same)
    /\ WF_nvars((Reconnects \/ SkipRestore) /\ Same)
    /\ WF_nvars(TailRests /\ BrokerStep /\ Still /\ Same)
    /\ WF_nvars(TailRests /\ BrokerUnsubscribesAll /\ Same)

-----------------------------------------------------------------------------
(* Properties.                                                             *)

\* The variables have their types.
NTypeOK ==
    /\ TypeOK
    /\ tail \in Seq(Handlers \cup Bulks) /\ skippedRestore \in BOOLEAN
    /\ spoiled \subseteq Patterns
    /\ bulk \in [Bulks -> {"idle", "queued", "turn", "requesting", "done", "failed"}]


\* Local subscriptions share one wire subscription: a SUBSCRIBE meets no
\* registration of its pattern at the broker, also when it was sent in the turn
\* in which an UNSUBSCRIBE or a shared SUBSCRIBE settled.  The exceptions are the
\* events of Spoils(p), among them the subscribe() that finds the key of the
\* single flight given up (keyed-single-flight.ts:9-11) and no entry yet; and an
\* unsubscribeAll() that failed after a skipped restore, which forgets
\* subscriptions whose UNSUBSCRIBE the broker may still refuse.
OneRegistration ==
    /\ \A b \in Bulks : bulk[b] # "failed"
    /\ out # <<>> /\ Head(out).kind = "subscribe" /\ Head(out).pat \notin spoiled
    => reg[Head(out).pat] = NoId

\* Every subscribe(), unsubscribe() and unsubscribeAll() call is settled.
EveryCallSettles ==
    /\ \A h \in Handlers :
          pc[h] \in {"queued", "awaiting", "resuming", "registering", "adding", "unsubscribing"}
            ~> pc[h] \in {"active", "detached", "done", "rejected"}
    /\ BulkPending ~> ~ BulkPending
=============================================================================
