------------------------------- MODULE Consumer -------------------------------
(***************************************************************************)
(* The notification-driven consumers, on top of the handler dispatcher     *)
(* their wake-ups go through:                                              *)
(*   queue      reserveWhenAvailable()         (domains/queue/client.ts)   *)
(*   follow     read({mode: "follow"})         (domains/stream/client.ts)  *)
(*   replay     read({mode: "replay"})                                     *)
(*   iterator   notifications()    (domains/internal/subscription-         *)
(*              iterator.ts)                                               *)
(* and the wake gate the first two park at (core/wake-gate.ts).  One       *)
(* consumer runs; the other tasks of the dispatcher belong to others.      *)
(*                                                                         *)
(* The broker appends Items in order and notifies a registered             *)
(* subscription of each; task n runs the handler for the notification of   *)
(* item n.  Only the comparison of the gate's version with the observed    *)
(* one matters, so woken stands for "version > observed".                  *)
(***************************************************************************)
EXTENDS HandlerDispatcher, Integers

CONSTANTS
    MaxItems,    \* items appended; their handler tasks are 1..MaxItems
    MaxLosses    \* bound on connection losses

Items == 1..MaxItems

ASSUME ConsumerAssumption ==
    /\ MaxItems \in Nat /\ Items \subseteq Tasks /\ MaxLosses \in Nat

VARIABLES
    kind, conn, losses,
    log,       \* items at the broker
    wire,      \* notifications on their way
    breg,      \* broker: subscription registered in this session
    sub,       \* local subscription: none, active or failed (overflow)
    pc,        \* idle, subscribing, asked, sent, served, yielded, parked,
               \* closing or ended
    woken,     \* the gate's version is past the observed one
    page,      \* what the broker answered: [item, more, last]; item 0 is none,
               \* last the offset its cursor names
    offset,    \* stream: next offset to read; item n has offset n - 1
    stalled,   \* stalledPages
    values,    \* iterator: notifications not yet yielded
    got,       \* what the application was given
    skipped,   \* history: items that empty pages have moved the offset past
    reason     \* why the consumer ended

dispVars == <<activeCount, queue, closed, status, reports, drain, awaited>>
netVars == <<conn, losses, log, wire, breg>>
cursor == <<offset, stalled, skipped>>
loopVars == <<pc, woken, page, cursor, got, reason>>
cVars == <<dispVars, kind, netVars, sub, values, loopVars>>

Kinds == {"queue", "follow", "replay", "iterator"}
Gated == {"queue", "follow"}          \* the kinds that park at a wake gate
Stream == {"follow", "replay"}

NoOffset == -1                        \* the cursor lacks the selector's axis

CTypeOK ==
    /\ TypeOK
    /\ kind \in Kinds
    /\ conn \in {"up", "down", "restoring", "refused", "closed"} /\ losses \in 0..MaxLosses
    /\ log \in 0..MaxItems /\ wire \in Seq(Items) /\ breg \in BOOLEAN
    /\ sub \in {"none", "active", "failed"}
    /\ pc \in {"idle", "subscribing", "asked", "sent", "served", "yielded",
               "parked", "closing", "ended"}
    /\ woken \in BOOLEAN
    /\ page \in [item : 0..MaxItems, more : BOOLEAN, last : Nat \cup {NoOffset}]
    /\ offset \in Nat /\ stalled \in 0..2 /\ skipped \subseteq Nat
    /\ values \in Seq(Items) /\ got \in Seq(Items)
    /\ reason \in {"none", "break", "abort", "done", "error"}

CInit ==
    /\ Init
    /\ kind \in Kinds
    /\ conn = "up" /\ losses = 0 /\ log = 0 /\ wire = <<>> /\ breg = FALSE
    /\ sub = "none" /\ pc = "idle" /\ woken = FALSE
    /\ page = [item |-> 0, more |-> FALSE, last |-> NoOffset] /\ offset = 0 /\ stalled = 0
    /\ values = <<>> /\ got = <<>> /\ skipped = {} /\ reason = "none"

-----------------------------------------------------------------------------
(* What a consumer does next, as the values of pc and woken.               *)

(* Sabotaged variant: the version is observed when the wait begins.        *)
ParksBlindly == pc' = "parked" /\ woken' = FALSE

(* waitAfter(observed): a wake since the top of the loop is not lost.      *)
ParksUnlessWoken ==
    /\ pc' = IF woken THEN "asked" ELSE "parked"
    /\ woken' = FALSE

(* wake(): a parked loop goes back to the top, any other finds it later.   *)
Wakes ==
    /\ pc' = IF pc = "parked" THEN "asked" ELSE pc
    /\ woken' = (pc # "parked")

LeavesLoop(why) == pc' = "closing" /\ reason' = why /\ UNCHANGED woken

-----------------------------------------------------------------------------
(* The generator is entered; a replay needs no subscription.               *)
Start ==
    /\ pc = "idle"
    /\ pc' = IF kind = "replay" THEN "asked" ELSE "subscribing"
    /\ UNCHANGED <<dispVars, kind, netVars, sub, values, woken, page, cursor, got, reason>>

Subscribed ==
    /\ pc = "subscribing" /\ conn = "up"
    /\ pc' = "asked" /\ sub' = "active" /\ breg' = TRUE
    /\ UNCHANGED <<dispVars, kind, conn, losses, log, wire, values, woken, page, cursor, got, reason>>

SubscribeFails ==
    /\ pc = "subscribing"
    /\ pc' = "ended" /\ reason' = "error"
    /\ UNCHANGED <<dispVars, kind, netVars, sub, values, woken, page, cursor, got>>

(* RESERVE or READ goes out once the connection is ready.                  *)
SendFetch ==
    /\ pc = "asked" /\ kind # "iterator" /\ conn = "up"
    /\ pc' = "sent"
    /\ UNCHANGED <<dispVars, kind, netVars, sub, values, woken, page, cursor, got, reason>>

(* ... or fails: the client is closed, or no session came back in time     *)
(* (for a stream read: in any of its attempts).                            *)
FetchFails ==
    /\ pc = "asked" /\ kind # "iterator" /\ conn # "up"
    /\ LeavesLoop("error")
    /\ UNCHANGED <<dispVars, kind, netVars, sub, values, page, cursor, got>>

(* The offset an empty page comes with.  The cursor lacks the axis of a    *)
(* wider selector (or names the offset before, which comes to the same).   *)
(* On a resource route an answer without a cursor gets the offset that was *)
(* read (lastResourceOffset = startOffset), and none is before 0.          *)
EmptyPageOffsets(stall) ==
    {NoOffset} \cup (IF kind \in Stream /\ (stall => offset = 0) THEN {offset} ELSE {})

(* The broker answers: the oldest item, nothing, or (stream) an empty page *)
(* that claims there is more.                                              *)
Serve(stall) ==
    /\ pc = "sent" /\ conn = "up"
    /\ LET next == (IF kind = "queue" THEN Len(got) ELSE offset) + 1 IN
       /\ stall => kind \in Stream /\ next <= log
       /\ \E last \in IF next <= log /\ ~stall THEN {next - 1} ELSE EmptyPageOffsets(stall) :
            page' = [item |-> IF next <= log /\ ~stall THEN next ELSE 0,
                     more |-> stall \/ (kind \in Stream /\ next < log),
                     last |-> last]
    /\ pc' = "served"
    /\ UNCHANGED <<dispVars, kind, netVars, sub, values, woken, cursor, got, reason>>

(* reserveWhenAvailable: yield what was reserved, or wait.                 *)
QueueContinues ==
    /\ pc = "served" /\ kind = "queue"
    /\ IF page.item # 0
       THEN /\ got' = Append(got, page.item)
            /\ pc' = "yielded" /\ UNCHANGED woken
       ELSE ParksUnlessWoken /\ UNCHANGED got
    /\ UNCHANGED <<dispVars, kind, netVars, sub, values, page, cursor, reason>>

(* Sabotaged variant: the last offset is read again.                       *)
LastOffset(last) == IF last = NoOffset THEN offset ELSE last

(* streamNextOffset: one past the offset on the selector's axis.           *)
StreamNextOffset(last) == IF last = NoOffset THEN offset ELSE last + 1

(* read(): adopt the cursor, count pages that make no progress, yield the  *)
(* page even if it is empty.                                               *)
StreamContinues ==
    /\ pc = "served" /\ kind \in Stream
    /\ LET stuck == page.more /\ StreamNextOffset(page.last) <= offset IN
       /\ stalled' = IF stuck THEN stalled + 1 ELSE 0
       /\ IF stuck /\ stalled = 1
          THEN LeavesLoop("error") /\ UNCHANGED <<offset, got, skipped>>
          ELSE /\ offset' = StreamNextOffset(page.last)
               /\ got' = IF page.item # 0 THEN Append(got, page.item) ELSE got
               /\ skipped' = IF page.item = 0 /\ page.last # NoOffset
                             THEN skipped \cup {page.last + 1} ELSE skipped
               /\ pc' = "yielded" /\ UNCHANGED <<woken, reason>>
    /\ UNCHANGED <<dispVars, kind, netVars, sub, values, page>>

(* The top of the iterator's loop: failure first, then a buffered value.   *)
IteratorContinues ==
    /\ pc = "asked" /\ kind = "iterator"
    /\ IF sub = "failed"
       THEN LeavesLoop("error") /\ UNCHANGED <<values, got>>
       ELSE IF values = <<>>
       THEN pc' = "parked" /\ woken' = FALSE /\ UNCHANGED <<values, got, reason>>
       ELSE /\ got' = Append(got, Head(values)) /\ values' = Tail(values)
            /\ pc' = "yielded" /\ UNCHANGED <<woken, reason>>
    /\ UNCHANGED <<dispVars, kind, netVars, sub, page, cursor>>

(* The application asks for more.  An iterator first yields what it has    *)
(* buffered, without looking at the subscription.                          *)
Resume ==
    /\ pc = "yielded"
    /\ IF kind = "iterator" /\ values # <<>>
       THEN /\ got' = Append(got, Head(values)) /\ values' = Tail(values)
            /\ UNCHANGED <<pc, woken, reason>>
       ELSE /\ IF kind \in {"queue", "iterator"} \/ page.more
               THEN pc' = "asked" /\ woken' = FALSE /\ UNCHANGED reason
               ELSE IF kind = "replay" THEN LeavesLoop("done")
                                       ELSE ParksUnlessWoken /\ UNCHANGED reason
            /\ UNCHANGED <<values, got>>
    /\ UNCHANGED <<dispVars, kind, netVars, sub, page, cursor>>

(* The application breaks out at a yield, or its signal fires.             *)
Break ==
    /\ pc = "yielded" /\ LeavesLoop("break")
    /\ UNCHANGED <<dispVars, kind, netVars, sub, values, page, cursor, got>>

Abort ==
    /\ pc \in {"asked", "sent", "parked"} /\ LeavesLoop("abort")
    /\ UNCHANGED <<dispVars, kind, netVars, sub, values, page, cursor, got>>

(* The finally block: unsubscribe, whatever comes of it.                   *)
Leave ==
    /\ pc = "closing"
    /\ pc' = "ended" /\ sub' = "none" /\ breg' = FALSE
    /\ UNCHANGED <<dispVars, kind, conn, losses, log, wire, values, woken, page, cursor, got, reason>>

-----------------------------------------------------------------------------
(* The broker gets an item and notifies the subscription.                  *)
AppendItem ==
    /\ log < MaxItems
    /\ log' = log + 1
    /\ wire' = IF breg THEN Append(wire, log + 1) ELSE wire
    /\ UNCHANGED <<dispVars, kind, conn, losses, breg, sub, values, loopVars>>

(* controller.fail: the subscription is over; the iterator is told, a wake *)
(* gate is not.                                                            *)
OverflowFails ==
    /\ sub' = "failed" /\ breg' = FALSE
    /\ IF kind = "iterator" THEN Wakes ELSE UNCHANGED <<pc, woken>>

(* A notification is read: dispatched to the handler, or refused, or       *)
(* ignored because nobody is subscribed any more.                          *)
Notified(t) ==
    /\ conn \in {"up", "restoring"} /\ wire # <<>> /\ Head(wire) = t
    /\ wire' = Tail(wire)
    /\ IF sub # "active"
       THEN UNCHANGED <<dispVars, sub, breg, pc, woken>>
       ELSE \/ /\ DispatchRuns(t) \/ DispatchQueues(t)
               /\ UNCHANGED <<sub, breg, pc, woken>>
            \/ DispatchRefuses(t) /\ OverflowFails
    /\ UNCHANGED <<kind, conn, losses, log, values, page, cursor, got, reason>>

(* The consumer's handler runs, also when its subscription has failed      *)
(* since: wake the gate, or buffer the value.  It is synchronous, and the  *)
(* microtasks that call it run in the order in which they were queued: of  *)
(* several started handlers the oldest is first.                           *)
HandlerRuns(t) ==
    /\ t \in Items /\ TaskEnds(t, FALSE)
    /\ \A u \in Items : status[u] = "running" => t <= u
    /\ IF pc \in {"closing", "ended"} THEN UNCHANGED <<values, pc, woken>>
       ELSE /\ Wakes
            /\ values' = IF kind = "iterator" THEN Append(values, t) ELSE values
    /\ UNCHANGED <<kind, netVars, sub, page, cursor, got, reason>>

(* The dispatcher's other work.                                            *)
OtherTask(t) ==
    /\ t \notin Items
    /\ \/ DispatchRuns(t) \/ DispatchQueues(t) \/ DispatchRefuses(t)
       \/ Timeout(t) \/ \E failed \in BOOLEAN : TaskEnds(t, failed)
    /\ UNCHANGED <<kind, netVars, sub, values, loopVars>>

-----------------------------------------------------------------------------
(* Sabotaged variant: reserveWhenAvailable has no disconnect listener.     *)
SessionLostQuietly ==
    /\ breg' = FALSE /\ wire' = <<>>
    /\ IF pc = "sent"
       THEN IF kind = "queue" THEN LeavesLoop("error")
            ELSE pc' = "asked" /\ UNCHANGED <<woken, reason>>
       ELSE UNCHANGED <<pc, woken, reason>>

(* The session is lost.  A RESERVE on the wire is rejected and ends its    *)
(* loop, a READ is retried; reserveWhenAvailable also has a disconnect     *)
(* listener that wakes it.                                                 *)
SessionLost ==
    /\ breg' = FALSE /\ wire' = <<>>
    /\ IF pc = "sent"
       THEN IF kind = "queue" THEN LeavesLoop("error")
            ELSE pc' = "asked" /\ UNCHANGED <<woken, reason>>
       ELSE /\ IF kind = "queue" THEN Wakes ELSE UNCHANGED <<pc, woken>>
            /\ UNCHANGED reason

Disconnect ==
    /\ conn \in {"up", "restoring"} /\ losses < MaxLosses
    /\ conn' = "down" /\ losses' = losses + 1
    /\ SessionLost
    /\ UNCHANGED <<dispVars, kind, log, sub, values, page, cursor, got>>

Reconnect ==
    /\ conn = "down" /\ conn' = "restoring"
    /\ UNCHANGED <<dispVars, kind, losses, log, wire, breg, sub, values, loopVars>>

(* The reconnect listeners of the gated consumers.                         *)
ReconnectWakes ==
    IF kind \in Gated /\ pc \notin {"idle", "subscribing", "ended"}
    THEN Wakes ELSE UNCHANGED <<pc, woken>>

(* The subscription is restored and the session becomes usable.            *)
Restored ==
    /\ conn = "restoring" /\ conn' = "up"
    /\ breg' = (sub = "active")
    /\ ReconnectWakes
    /\ UNCHANGED <<dispVars, kind, losses, log, wire, sub, values, page, cursor, got, reason>>

(* The broker rejects the credentials: the reconnect loop ends in CLOSED,  *)
(* without a transport.  A later connect() is left to module Connection.   *)
Rejected ==
    /\ conn = "down" /\ conn' = "refused"
    /\ SessionLost
    /\ UNCHANGED <<dispVars, kind, losses, log, sub, values, page, cursor, got>>

(* client.close(): the dispatcher is closed, disconnect listeners run.  In *)
(* CLOSED without a transport close() returns at once and does neither.    *)
CloseClient ==
    /\ conn \notin {"refused", "closed"} /\ conn' = "closed"
    /\ Close
    /\ SessionLost
    /\ UNCHANGED <<kind, losses, log, sub, values, page, cursor, got>>

CloseDrains ==
    /\ DrainRound
    /\ UNCHANGED <<kind, netVars, sub, values, loopVars>>

LoopStep ==
    \/ Subscribed \/ SubscribeFails \/ SendFetch \/ FetchFails \/ Serve(FALSE)
    \/ QueueContinues \/ StreamContinues \/ IteratorContinues \/ Resume \/ Leave

CNext ==
    \/ Start \/ LoopStep \/ Serve(TRUE) \/ Break \/ Abort
    \/ AppendItem \/ Disconnect \/ Reconnect \/ Restored \/ Rejected \/ CloseClient \/ CloseDrains
    \/ \E t \in Tasks : Notified(t) \/ HandlerRuns(t) \/ OtherTask(t)

CSpec == CInit /\ [][CNext]_cVars

(* The generator's continuations run, the broker answers, the application  *)
(* asks for more; notifications are read and handlers return; restoring    *)
(* ends.  Nothing is assumed of Reconnect.                                 *)
CFairness ==
    /\ WF_cVars(LoopStep) /\ WF_cVars(Restored) /\ WF_cVars(CloseDrains)
    /\ \A t \in Tasks :
          /\ WF_cVars(Notified(t)) /\ WF_cVars(HandlerRuns(t))
          /\ WF_cVars(OtherTask(t) /\ status[t] = "running" /\ status'[t] = "ended")

CFairSpec == CSpec /\ CFairness

-----------------------------------------------------------------------------
(* What the application has been given.                                    *)
Received == {got[i] : i \in DOMAIN got}

(* A stream consumer sees every record its offset has passed once and in   *)
(* order, across retried reads, stalled pages and reconnects; but for the  *)
(* records behind an empty page whose answer had no cursor to keep the     *)
(* place (domains/stream/client.ts:230-238, 632), which are never read.    *)
(* An iterator sees notifications in order.                                *)
RecordsOnceInOrder ==
    /\ kind # "queue" => \A i, j \in DOMAIN got : i < j => got[i] < got[j]
    /\ kind \in Stream => Received = 1..offset \ skipped

(* An item at the broker reaches a gated consumer, also when it was        *)
(* appended while the session was down, unless the consumer ended, its     *)
(* subscription overflowed, no session comes back for good, or an empty    *)
(* page has moved a follow reader past it.                                 *)
EveryItemConsumed ==
    \A n \in Items :
        [](log >= n /\ kind \in Gated /\ pc # "idle"
             => <>(n \in Received \cup skipped \/ pc = "ended" \/ sub = "failed"
                   \/ [](conn # "up")))

(* A loop that waits is ended by what ends its supply: close() ends a      *)
(* reserveWhenAvailable() loop wherever it is suspended (the disconnect    *)
(* listener wakes a parked one), and an overflow of the handler queue ends *)
(* a notification iterator with the error.                                 *)
WaitingLoopsEnd ==
    /\ kind = "queue" /\ conn = "closed" ~> pc \in {"idle", "yielded", "ended"}
    /\ kind = "iterator" /\ sub = "failed" ~> pc \in {"yielded", "ended"}

(* "This helper follows reconnects until cancellation or permanent client  *)
(* closure": reserveWhenAvailable() fails only when the client is closed.  *)
FollowsReconnects ==
    [][kind = "queue" /\ pc = "sent" /\ pc' = "closing" /\ reason' = "error"
          => conn' = "closed"]_cVars

(* close() ends a following stream read, as it ends the queue's loop.      *)
CloseEndsFollow ==
    kind = "follow" /\ conn = "closed" ~> pc \in {"idle", "yielded", "ended"}
=============================================================================
