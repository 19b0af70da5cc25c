------------------------------ MODULE Inventory ------------------------------
(***************************************************************************)
(* observeInventory() of src/domains/lease/client.ts: a view of all leases *)
(* that match a pattern, kept by a subscription whose notifications only   *)
(* say "list again", by LIST passes, by a recovery loop and by a periodic  *)
(* pass, across disconnects.                                               *)
(*                                                                         *)
(* The broker's inventory is a version number.  A LIST takes Pages         *)
(* requests; the broker serves them all from the snapshot of the first.    *)
(* What subscribe() does on the wire is one step, because everything that  *)
(* arrives before it resolves only sets reconcileRequested, which is set.  *)
(***************************************************************************)
EXTENDS Naturals, Sequences

CONSTANTS
    Pages,          \* requests of one LIST
    MaxVersion,     \* changes of the inventory
    MaxFaults       \* disconnects, failed requests and overflows

ASSUME InventoryAssumption ==
    Pages \in Nat \ {0} /\ MaxVersion \in Nat /\ MaxFaults \in Nat

VARIABLES
    truth,        \* broker: the inventory's version
    registered,   \* broker: the subscription exists in this session
    wire,         \* frames from the broker: "notify" and "page"
    link,         \* "up", "down" or "restoring" (reconnect listeners run)
    faults,
    phase,        \* the call of observeInventory() and the observer it returns
    aborted,      \* options.signal
    view, ready,
    sub, gen,     \* subscriptionReady, subscriptionGeneration
    requested,    \* reconcileRequested
    pass,         \* activeReconcile: "none", "listing" or "backoff"
    passGen,      \* passSubscriptionGeneration
    list,         \* the LIST request of the pass: state, page and snapshot, and
                  \* whether the bootstrap's connection was lost between its pages
    recovery,     \* activeRecovery: "none", "subscribe", "relist" or "sleep"
    listener,     \* whether the reconnect listener awaits a pass
    passLost      \* history: a pass failed and none has been installed since, or the
                  \* view was listed across a loss that the observer did not hear of

service == <<truth, registered>>
observer == <<view, ready, requested, pass, passGen, list, passLost>>
vars == <<service, wire, link, faults, phase, aborted, observer, sub, gen, recovery, listener>>

NoList == [at |-> "none", page |-> 1, snapshot |-> 0, crossed |-> FALSE]
FirstPage == [NoList EXCEPT !.at = "waiting"]
Over == phase \in {"closing", "closed"}     \* closed
Fault == faults < MaxFaults /\ faults' = faults + 1

Init ==
    /\ truth = 0 /\ registered = FALSE /\ wire = <<>>
    /\ link = "up" /\ faults = 0
    /\ phase = "subscribing" /\ aborted = FALSE
    /\ view = 0 /\ ready = FALSE
    /\ sub = FALSE /\ gen = 0
    /\ requested = TRUE
    /\ pass = "none" /\ passGen = 0 /\ list = NoList
    /\ recovery = "none" /\ listener = FALSE /\ passLost = FALSE

------------------------------------------------------------------------------
(* requestReconcile() *)

\* A variant that leaves the invalidation to the pass that is running already.
RequestReconcileCoalesced(gap, hasSub, g) ==
    /\ ready' = (ready /\ ~gap /\ ~aborted)
    /\ IF aborted \/ ~hasSub \/ Over \/ pass # "none"
         THEN UNCHANGED <<pass, passGen, list, requested>>
         ELSE requested' = FALSE /\ pass' = "listing" /\ passGen' = g /\ list' = FirstPage
    /\ UNCHANGED <<view, passLost>>

\* Note the request; start a pass unless one runs.  hasSub and g are the values
\* of subscriptionReady and subscriptionGeneration at the time.
RequestReconcile(gap, hasSub, g) ==
    /\ ready' = (ready /\ ~gap /\ ~aborted)
    /\ IF aborted \/ ~hasSub \/ Over \/ pass # "none"
         THEN requested' = TRUE /\ UNCHANGED <<pass, passGen, list>>
         ELSE requested' = FALSE /\ pass' = "listing" /\ passGen' = g /\ list' = FirstPage
    /\ UNCHANGED <<view, passLost>>

\* The pass is over; the finally block starts the next one if one is requested.
\* Those who await it go on: the bootstrap, the reconnect listener, the recovery.
PassEnds(failed, req) ==
    /\ IF req /\ sub /\ ~Over /\ ~aborted
         THEN pass' = "listing" /\ passGen' = gen /\ list' = FirstPage /\ requested' = FALSE
         ELSE pass' = "none" /\ passGen' = passGen /\ list' = NoList /\ requested' = req
    /\ phase' = IF phase # "bootstrapping" THEN phase ELSE IF failed THEN "failed" ELSE "running"
    /\ listener' = FALSE
    /\ recovery' = IF recovery = "relist" \/ (listener /\ failed /\ recovery = "none" /\ ~Over)
                     THEN IF recovery = "relist" /\ ~failed /\ sub /\ ready' THEN "none" ELSE "sleep"
                     ELSE recovery

\* A LIST is complete: discard it after a gap, repeat it after an invalidation,
\* install it otherwise.
PassReturns(candidate) ==
    \/ /\ Over
       /\ UNCHANGED <<view, ready, passLost>>
       /\ PassEnds(FALSE, requested)
    \/ /\ ~Over /\ (~sub \/ gen # passGen)
       /\ UNCHANGED <<view, ready, passLost>>
       /\ PassEnds(FALSE, TRUE)
    \/ /\ ~Over /\ sub /\ gen = passGen /\ requested
       /\ pass' = "backoff" /\ list' = NoList
       /\ UNCHANGED <<view, ready, passLost, requested, passGen, phase, listener, recovery>>
    \/ /\ ~Over /\ sub /\ gen = passGen /\ ~requested
       /\ view' = candidate /\ ready' = TRUE /\ passLost' = list.crossed
       /\ PassEnds(FALSE, FALSE)

\* The backoff of a raced pass is over: list again, or give up.
BackoffEnds ==
    /\ pass = "backoff"
    /\ IF Over \/ ~sub \/ aborted
         THEN UNCHANGED <<view, ready, passLost>> /\ PassEnds(FALSE, requested)
         ELSE /\ requested' = FALSE /\ pass' = "listing" /\ passGen' = gen /\ list' = FirstPage
              /\ UNCHANGED <<view, ready, passLost, phase, listener, recovery>>
    /\ UNCHANGED <<service, wire, link, faults, aborted, sub, gen>>

------------------------------------------------------------------------------
(* list() *)

\* A page request is sent once the connection is ready; the first one makes the
\* broker take the snapshot.
SendPage ==
    /\ list.at = "waiting" /\ link = "up"
    /\ list' = [list EXCEPT !.at = "sent", !.snapshot = IF list.page = 1 THEN truth ELSE @]
    /\ wire' = Append(wire, "page")
    /\ UNCHANGED <<service, link, faults, phase, aborted, view, ready, passLost, requested, pass, passGen,
                   sub, gen, recovery, listener>>

ReceivePage ==
    /\ wire # <<>> /\ Head(wire) = "page"
    /\ wire' = Tail(wire)
    /\ \/ /\ list.page < Pages
          /\ list' = [list EXCEPT !.at = "waiting", !.page = @ + 1]
          /\ UNCHANGED <<view, ready, passLost, requested, pass, passGen, phase, listener, recovery>>
       \/ /\ list.page = Pages
          /\ PassReturns(list.snapshot)
    /\ UNCHANGED <<service, link, faults, aborted, sub, gen>>

\* The LIST rejects: refused, timed out, or its snapshot is gone.  A bootstrap
\* that fails unsubscribes; nothing tells a recovery that may be under way.
PassFails ==
    /\ list.at # "none"
    /\ IF phase = "bootstrapping"
         THEN wire' = <<>> /\ registered' = FALSE
         ELSE wire' = SelectSeq(wire, LAMBDA f : f # "page") /\ registered' = registered
    /\ passLost' = TRUE
    /\ UNCHANGED <<truth, link, aborted, view, ready, sub, gen>>
    /\ PassEnds(TRUE, requested)

ListFails == Fault /\ PassFails

\* A request that waits for readiness gives up after requestTimeoutMs.
ReadinessTimeout == list.at = "waiting" /\ link # "up" /\ PassFails /\ faults' = faults

------------------------------------------------------------------------------
(* The subscription *)

\* The first subscribe(); the bootstrap pass starts when it resolves.
Subscribes ==
    /\ phase = "subscribing" /\ link = "up" /\ ~aborted
    /\ \/ /\ registered' = TRUE /\ sub' = TRUE /\ gen' = gen + 1
          /\ phase' = "bootstrapping"
          /\ RequestReconcile(TRUE, TRUE, gen + 1)
          /\ faults' = faults
       \/ /\ Fault
          /\ phase' = "failed"
          /\ UNCHANGED <<registered, sub, gen, observer>>
    /\ UNCHANGED <<truth, wire, link, aborted, recovery, listener>>

\* preDispatch of a notification: invalidate().
Notified ==
    /\ wire # <<>> /\ Head(wire) = "notify"
    /\ wire' = Tail(wire)
    /\ IF sub THEN RequestReconcile(FALSE, sub, gen) ELSE UNCHANGED observer
    /\ UNCHANGED <<service, link, faults, phase, aborted, sub, gen, recovery, listener>>

\* A variant without watchSubscriptionCompletion(): nobody subscribes again.
SubscriptionFailsUnwatched ==
    /\ wire # <<>> /\ Head(wire) = "notify" /\ sub /\ ~Over /\ ~aborted
    /\ Fault
    /\ wire' = Tail(wire)
    /\ registered' = FALSE
    /\ sub' = FALSE /\ ready' = FALSE /\ requested' = TRUE
    /\ UNCHANGED <<truth, link, phase, aborted, view, passLost, pass, passGen, list, gen, recovery,
                   listener>>

\* A notification overflows the handler queue: the local subscription fails, its
\* UNSUBSCRIBE goes out, watchSubscriptionCompletion() starts the recovery.
SubscriptionFails ==
    /\ wire # <<>> /\ Head(wire) = "notify" /\ sub /\ ~Over /\ ~aborted
    /\ Fault
    /\ wire' = Tail(wire)
    /\ registered' = FALSE
    /\ sub' = FALSE /\ gen' = gen + 1
    /\ ready' = FALSE /\ requested' = TRUE
    /\ recovery' = IF recovery = "none" THEN "subscribe" ELSE recovery
    /\ UNCHANGED <<truth, link, phase, aborted, view, passLost, pass, passGen, list, listener>>

\* recoverSubscription(): subscribe() again, then requestReconcile(true).
RecoverySubscribes ==
    /\ recovery = "subscribe" /\ link = "up"
    /\ \/ /\ Over \/ aborted
          /\ recovery' = "none"
          /\ UNCHANGED <<registered, sub, gen, observer, faults>>
       \/ /\ ~Over /\ ~aborted
          /\ registered' = TRUE /\ sub' = TRUE /\ gen' = gen + 1
          /\ recovery' = "relist"
          /\ RequestReconcile(TRUE, TRUE, gen + 1)
          /\ faults' = faults
       \/ /\ Fault
          /\ recovery' = "sleep"
          /\ UNCHANGED <<registered, sub, gen, observer>>
    /\ UNCHANGED <<truth, wire, link, phase, aborted, listener>>

\* Its backoff is over.
RecoveryWakes ==
    /\ recovery = "sleep"
    /\ IF Over \/ aborted
         THEN recovery' = "none" /\ UNCHANGED observer
         ELSE IF sub THEN recovery' = "relist" /\ RequestReconcile(TRUE, sub, gen)
                     ELSE recovery' = "subscribe" /\ UNCHANGED observer
    /\ UNCHANGED <<service, wire, link, faults, phase, aborted, sub, gen, listener>>

------------------------------------------------------------------------------
(* The connection, the application and the broker *)

\* A request in flight is retried (replayable_read) once the connection is back.  The
\* reconnect listener is registered after the bootstrap only: a loss during it is
\* not heard of.  (Disconnects after the end of the observer are left out.)
Disconnect ==
    /\ link # "down" /\ Fault
    /\ phase \in {"subscribing", "bootstrapping", "running", "closing"}
    /\ link' = "down"
    /\ wire' = <<>> /\ registered' = FALSE
    /\ list' = [list EXCEPT !.at = IF @ = "sent" THEN "waiting" ELSE @,
                            !.crossed = @ \/ (phase = "bootstrapping" /\ list.page > 1)]
    /\ listener' = FALSE
    /\ UNCHANGED <<truth, phase, aborted, view, ready, passLost, requested, pass, passGen, sub, gen, recovery>>

\* The reconnect listeners run before the connection reports readiness: first the
\* client's own, which restores the subscription (or fails to), then the observer's,
\* which awaits requestReconcile(true).
Reconnect ==
    /\ link = "down"
    /\ registered' \in {FALSE, sub /\ ~aborted}
    /\ IF phase = "running"
         THEN /\ RequestReconcile(TRUE, sub, gen)
              /\ listener' = (sub /\ ~aborted)
              /\ link' = IF listener' THEN "restoring" ELSE "up"
         ELSE link' = "up" /\ UNCHANGED <<observer, listener>>
    /\ UNCHANGED <<truth, wire, faults, phase, aborted, sub, gen, recovery>>

Restored ==
    /\ link = "restoring" /\ ~listener
    /\ link' = "up"
    /\ UNCHANGED <<service, wire, faults, phase, aborted, observer, sub, gen, recovery, listener>>

\* The periodic pass.
Periodic ==
    /\ phase = "running" /\ ~aborted /\ pass = "none"
    /\ RequestReconcile(FALSE, sub, gen)
    /\ UNCHANGED <<service, wire, link, faults, phase, aborted, sub, gen, recovery, listener>>

\* options.signal aborts: a LIST rejects, the subscription unsubscribes.
Abort ==
    /\ ~aborted /\ phase \in {"bootstrapping", "running"}
    /\ aborted' = TRUE /\ ready' = FALSE
    /\ registered' = FALSE
    /\ wire' = SelectSeq(wire, LAMBDA f : f # "page")
    /\ pass' = "none" /\ list' = NoList
    /\ phase' = IF phase = "bootstrapping" THEN IF pass = "listing" THEN "failed" ELSE "running" ELSE phase
    /\ listener' = FALSE
    /\ recovery' = IF recovery = "relist" THEN "sleep" ELSE recovery
    /\ UNCHANGED <<truth, link, faults, view, passLost, requested, passGen, sub, gen>>

\* close() ...
Close ==
    /\ phase = "running"
    /\ phase' = "closing"
    /\ UNCHANGED <<service, wire, link, faults, aborted, observer, sub, gen, recovery, listener>>

\* A variant of close() that does not wait for the recovery loop.
CloseEndsEarly ==
    /\ phase = "closing" /\ pass = "none"
    /\ phase' = "closed"
    /\ sub' = FALSE /\ registered' = FALSE
    /\ UNCHANGED <<truth, wire, link, faults, aborted, observer, gen, recovery, listener>>

\* ... waits for the pass and the recovery, then unsubscribes.
CloseEnds ==
    /\ phase = "closing" /\ pass = "none" /\ recovery = "none"
    /\ phase' = "closed"
    /\ sub' = FALSE /\ registered' = FALSE
    /\ UNCHANGED <<truth, wire, link, faults, aborted, observer, gen, recovery, listener>>

\* A lease comes or goes (external).
Change ==
    /\ truth < MaxVersion
    /\ truth' = truth + 1
    /\ wire' = IF registered /\ link # "down" THEN Append(wire, "notify") ELSE wire
    /\ UNCHANGED <<registered, link, faults, phase, aborted, observer, sub, gen, recovery, listener>>

------------------------------------------------------------------------------
Progress ==
    \/ BackoffEnds \/ SendPage \/ ReceivePage \/ ReadinessTimeout
    \/ Subscribes \/ Notified \/ RecoverySubscribes
    \/ CloseEnds

Next ==
    \/ BackoffEnds \/ SendPage \/ ReceivePage \/ ListFails \/ ReadinessTimeout
    \/ Subscribes \/ Notified \/ SubscriptionFails \/ RecoverySubscribes \/ RecoveryWakes
    \/ Disconnect \/ Reconnect \/ Restored
    \/ Periodic \/ Abort \/ Close \/ CloseEnds \/ Change

Spec == Init /\ [][Next]_vars

(***************************************************************************)
(* Requests are answered or time out, timers fire, the reconnect loop      *)
(* succeeds.                                                               *)
(***************************************************************************)
FairSpec == Spec /\ WF_vars(Progress) /\ WF_vars(Reconnect) /\ WF_vars(Restored)
                    /\ WF_vars(RecoveryWakes) /\ WF_vars(Periodic)

------------------------------------------------------------------------------
(* Properties *)

\* The variables have their types.
TypeOK ==
    /\ truth \in 0..MaxVersion /\ view \in 0..MaxVersion /\ faults \in 0..MaxFaults
    /\ wire \in Seq({"notify", "page"})
    /\ link \in {"up", "down", "restoring"}
    /\ phase \in {"subscribing", "bootstrapping", "running", "failed", "closing", "closed"}
    /\ {registered, aborted, ready, sub, requested, listener, passLost} \subseteq BOOLEAN
    /\ gen \in Nat /\ passGen \in Nat
    /\ pass \in {"none", "listing", "backoff"}
    /\ list \in [at : {"none", "waiting", "sent"}, page : 1..Pages, snapshot : 0..MaxVersion,
                crossed : BOOLEAN]
    /\ recovery \in {"none", "subscribe", "relist", "sleep"}

Stale == view # truth
Underway == requested \/ pass # "none" \/ \E i \in DOMAIN wire : wire[i] = "notify"

\* A view that calls itself ready can be trusted: its subscription is alive, no
\* reconnect is being restored, and if it lags behind the broker although the
\* subscription is registered there, it is about to be renewed.  No change slips
\* through between the acknowledgement, the pages of a LIST and the installation
\* of the view, with two exceptions, which the periodic pass makes up for: a pass
\* that fails forgets the change it was for, and a view whose bootstrap was
\* disconnected between two pages misses what changed while nothing was registered,
\* because the reconnect listener comes after the bootstrap.
ReadyMeansCurrent ==
    phase = "running" /\ ready =>
        /\ sub /\ link # "restoring"
        /\ registered /\ Stale => Underway \/ passLost

\* Once close() has returned no pass and no recovery runs on and nothing is
\* registered, whatever was under way when it was called.
ClosedIsQuiet ==
    phase = "closed" => pass = "none" /\ recovery = "none" /\ ~sub /\ ~registered

\* observeInventory() resolves with a ready observer, as its comment says.
ResolvesReady == [][phase = "bootstrapping" /\ phase' = "running" => ready']_vars

\* When changes and faults cease, the view of an observer that is neither closed
\* nor aborted ends up current and ready, whatever was missed on the way.
ViewCatchesUp == <>[](phase # "running" \/ aborted \/ (ready /\ ~Stale))

==============================================================================
