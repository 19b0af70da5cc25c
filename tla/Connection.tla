------------------------------- MODULE Connection ------------------------------
(***************************************************************************)
(* The connection of src/client/connection.ts with its reconnect scheduler *)
(* (internal/reconnect.ts), HELLO negotiation (internal/negotiation.ts)    *)
(* and heartbeat loop (internal/heartbeat.ts).                             *)
(*                                                                         *)
(* Two strands run openAndAuthenticate(): the caller's connect() (strand   *)
(* "connect") and the background reconnect loop (strand "reconnect").      *)
(* Each dial makes a new transport, numbered in the order of creation;     *)
(* transport 0 is null.  A receive loop per transport delivers frames and  *)
(* failures; close(), the caller's abort, the HELLO timeout and the        *)
(* heartbeat timer come in at any point.                                   *)
(*                                                                         *)
(* An action is the code between two awaits.  Promise continuations run    *)
(* before timers, so a timer never fires while a handshake result waits to *)
(* be picked up (Continuations below); frames that are buffered already    *)
(* may be handled first.                                                   *)
(***************************************************************************)
EXTENDS Integers, FiniteSets

CONSTANTS
    MaxDials,          \* bound on the number of transports the model creates
    MaxAttempts,       \* reconnect.maxAttempts
    ReconnectEnabled,  \* reconnect.enabled
    Probes             \* the transport answers heartbeats (Node WebSocket); TCP
                       \* and the browser WebSocket do not

ASSUME DialsAssumption == MaxDials \in Nat \ {0} /\ MaxAttempts \in Nat \ {0}
ASSUME FlagsAssumption == ReconnectEnabled \in BOOLEAN /\ Probes \in BOOLEAN

VARIABLES
    state,                  \* ConnectionState
    transport,              \* the current transport, 0 for null
    dials,                  \* transports created so far
    conn,                   \* each transport's socket
    reading,                \* transports whose receive loop runs
    receiveLoopAbort,
    closeRequested,
    closePromise,           \* close() was called
    reconnectPromise,       \* reconnectPromise is not null
    authOutcome,            \* the strand whose handshake authOutcome belongs to, or "none"
    outcome,                \* what a strand's handshake promise is settled with: Promise.all of
                            \* sendConnect() and authOutcome, so its first rejection wins
    authRejected,
    sessionConfirmed,
    hasEstablishedSession,
    reconnectExhausted,
    muxConnected,           \* the multiplexer is connected
    helloSeen,              \* the multiplexer knows the negotiated version
    gateOpen,               \* the current request gate is not closed
    heartbeat,              \* the transport the heartbeat loop watches, or 0
    pc,                     \* where each strand of openAndAuthenticate is
    tr,                     \* its activeTransport
    failure,                \* the error it is failing with
    unconfirmed,            \* its unconfirmedAtCatch
    attempts,               \* attempts of the running reconnect loop
    connectSent,            \* transports on which CONNECT was sent
    helloOn,                \* transports on which HELLO was accepted
    everAuthenticated       \* some session reached AUTHENTICATED

sessionVars == <<authRejected, sessionConfirmed, hasEstablishedSession, reconnectExhausted>>
usabilityVars == <<muxConnected, helloSeen, gateOpen>>
historyVars == <<connectSent, helloOn, everAuthenticated>>
vars == <<state, transport, dials, conn, reading, receiveLoopAbort, closeRequested,
          closePromise, reconnectPromise, authOutcome, outcome, sessionVars, usabilityVars,
          heartbeat, pc, tr, failure, unconfirmed, attempts, historyVars>>

Strands == {"connect", "reconnect"}
Transports == 1..MaxDials
States == {"Disconnected", "Connecting", "Connected", "Authenticating", "Authenticated",
           "Reconnecting", "Closed"}
\* The kinds of error the code tells apart: an AuthenticationError, the ProtocolError
\* with code 50, the caller's abort, and the rest.
Errors == {"auth", "version", "abort", "other"}
\* What CONNECT_REJECTED may carry.
Rejections == {"auth", "version", "other"}

Init ==
    /\ state = "Disconnected"
    /\ transport = 0
    /\ dials = 0
    /\ conn = [t \in Transports |-> "unused"]
    /\ reading = {}
    /\ receiveLoopAbort = FALSE
    /\ closeRequested = FALSE /\ closePromise = FALSE
    /\ reconnectPromise = FALSE
    /\ authOutcome = "none"
    /\ outcome = [p \in Strands |-> "pending"]
    /\ authRejected = FALSE
    /\ sessionConfirmed = FALSE
    /\ hasEstablishedSession = FALSE
    /\ reconnectExhausted = FALSE
    /\ muxConnected = FALSE
    /\ helloSeen = FALSE
    /\ gateOpen = TRUE
    /\ heartbeat = 0
    /\ pc = [p \in Strands |-> "idle"]
    /\ tr = [p \in Strands |-> 0]
    /\ failure = [p \in Strands |-> "other"]
    /\ unconfirmed = [p \in Strands |-> FALSE]
    /\ attempts = 0
    /\ connectSent = {}
    /\ helloOn = {}
    /\ everAuthenticated = FALSE

CanWaitForReconnect ==
    ReconnectEnabled /\ hasEstablishedSession /\ ~reconnectExhausted /\ ~authRejected

\* A handshake result is waiting to be picked up by its strand.
HandshakeDecided(p) ==
    /\ pc[p] = "auth"
    /\ outcome[p] \in Errors \/ (outcome[p] = "hello" /\ tr[p] \in connectSent)

\* No continuation is due: timers may fire.
Continuations == \E p \in Strands : HandshakeDecided(p)

--------------------------------------------------------------------------------
(* openAndAuthenticate *)

\* Its synchronous beginning, up to the dial.  The previous transport, if any, is
\* dropped here without being closed.
Open(p) ==
    /\ dials < MaxDials
    /\ dials' = dials + 1
    /\ transport' = dials + 1
    /\ tr' = [tr EXCEPT ![p] = dials + 1]
    /\ conn' = [conn EXCEPT ![dials + 1] = "dialing"]
    /\ pc' = [pc EXCEPT ![p] = "dialing"]
    /\ receiveLoopAbort' = FALSE
    /\ sessionConfirmed' = FALSE
    /\ hasEstablishedSession' = (p = "reconnect" /\ hasEstablishedSession)
    /\ gateOpen' = TRUE
    /\ heartbeat' = 0
    /\ state' = IF p = "reconnect" THEN "Reconnecting" ELSE "Connecting"
    /\ UNCHANGED <<reading, closeRequested, closePromise, reconnectPromise, authOutcome, outcome,
                   muxConnected, helloSeen, failure, unconfirmed, attempts, historyVars>>

\* The synchronous beginning of the catch block, up to activeTransport.close().
Fail(p, e) ==
    /\ pc' = [pc EXCEPT ![p] = "closing"]
    /\ failure' = [failure EXCEPT ![p] = e]
    /\ unconfirmed' = [unconfirmed EXCEPT ![p] = ~sessionConfirmed /\ state = "Authenticating"]
    /\ authOutcome' = "none"
    /\ heartbeat' = 0
    /\ receiveLoopAbort' = TRUE

\* connect() waits for the attempt that is under way or expected.
WaitsForReady ==
    \/ reconnectPromise
    \/ state \in {"Connecting", "Connected", "Authenticating", "Reconnecting"}
    \/ state = "Disconnected" /\ CanWaitForReconnect

\* connect(): return, join the pending connect(), wait, or dial.  Only the last
\* changes state.
Connect ==
    /\ ~closeRequested
    /\ state # "Authenticated"
    /\ pc["connect"] = "idle"
    /\ ~WaitsForReady
    /\ authRejected' = FALSE
    /\ reconnectExhausted' = FALSE
    /\ Open("connect")

\* transport.connect() rejects (or the dial is cut short by close()).
DialFails(p) ==
    /\ pc[p] = "dialing"
    /\ conn' = [conn EXCEPT ![tr[p]] = "closed"]
    /\ Fail(p, "other")
    /\ UNCHANGED <<state, transport, dials, tr, reading, closeRequested, closePromise,
                   reconnectPromise, outcome, sessionVars, usabilityVars, attempts,
                   historyVars>>

\* transport.connect() resolves: start the receive loop and the handshake.
DialSucceeds(p) ==
    /\ pc[p] = "dialing"
    /\ conn[tr[p]] = "dialing"
    /\ ~closeRequested
    /\ conn' = [conn EXCEPT ![tr[p]] = "open"]
    /\ reading' = IF receiveLoopAbort \/ transport # tr[p] THEN reading ELSE reading \cup {tr[p]}
    /\ state' = "Authenticating"
    /\ authOutcome' = p
    /\ outcome' = [outcome EXCEPT ![p] = "pending"]
    /\ pc' = [pc EXCEPT ![p] = "auth"]
    /\ UNCHANGED <<transport, dials, tr, receiveLoopAbort, closeRequested, closePromise,
                   reconnectPromise, sessionVars, usabilityVars, heartbeat, failure,
                   unconfirmed, attempts, historyVars>>

\* sendConnect(): the token is there, the transport is still the current one.
SendConnect(p) ==
    /\ pc[p] = "auth"
    /\ tr[p] \notin connectSent
    /\ transport = tr[p]
    /\ conn[tr[p]] = "open"
    /\ connectSent' = connectSent \cup {tr[p]}
    /\ UNCHANGED <<state, transport, dials, conn, reading, receiveLoopAbort, closeRequested,
                   closePromise, reconnectPromise, authOutcome, outcome, sessionVars,
                   usabilityVars, heartbeat, pc, tr, failure, unconfirmed, attempts, helloOn,
                   everAuthenticated>>

\* sendConnect() rejects: no token, the connection changed meanwhile, send failed.
SendConnectFails(p) ==
    /\ pc[p] = "auth"
    /\ tr[p] \notin connectSent
    /\ outcome[p] \notin Errors
    /\ outcome' = [outcome EXCEPT ![p] = "other"]
    /\ UNCHANGED <<state, transport, dials, conn, reading, receiveLoopAbort, closeRequested,
                   closePromise, reconnectPromise, authOutcome, sessionVars, usabilityVars,
                   heartbeat, pc, tr, failure, unconfirmed, attempts, historyVars>>

\* The strand picks up the rejection of its handshake, or HELLO does not come in time.
HandshakeFails(p) ==
    /\ pc[p] = "auth"
    /\ \/ ~Continuations /\ Fail(p, "other")
       \/ outcome[p] \in Errors /\ Fail(p, outcome[p])
    /\ UNCHANGED <<state, transport, dials, conn, tr, reading, closeRequested, closePromise,
                   reconnectPromise, outcome, sessionVars, usabilityVars, attempts, historyVars>>

\* The caller of connect() aborts the dial or the handshake.
AbortConnect ==
    /\ pc["connect"] \in {"dialing", "auth"}
    /\ Fail("connect", "abort")
    /\ UNCHANGED <<state, transport, dials, conn, tr, reading, closeRequested, closePromise,
                   reconnectPromise, outcome, sessionVars, usabilityVars, attempts, historyVars>>

\* waitForHello() resolves when CONNECT was sent and HELLO came.
HelloSettled(p) == pc[p] = "auth" /\ outcome[p] = "hello" /\ tr[p] \in connectSent

\* The handshake is complete.  connect() reports AUTHENTICATED at once, the
\* reconnect loop first restores subscriptions and workers.
HandshakeSucceeds(p) ==
    /\ HelloSettled(p)
    /\ \/ /\ closeRequested \/ (p = "connect" /\ authRejected)
          /\ Fail(p, IF closeRequested THEN "other" ELSE "auth")
          /\ UNCHANGED <<state, muxConnected, reconnectExhausted, everAuthenticated>>
       \/ /\ ~closeRequested /\ p = "connect" /\ ~authRejected
          /\ authOutcome' = "none"
          /\ reconnectExhausted' = FALSE
          /\ state' = "Authenticated"
          /\ everAuthenticated' = TRUE
          /\ heartbeat' = tr[p]
          /\ muxConnected' = TRUE
          /\ pc' = [pc EXCEPT ![p] = "idle"]
          /\ UNCHANGED <<failure, unconfirmed, receiveLoopAbort>>
       \/ /\ ~closeRequested /\ p = "reconnect"
          /\ authOutcome' = "none"
          /\ muxConnected' = TRUE
          /\ pc' = [pc EXCEPT ![p] = "restore"]
          /\ UNCHANGED <<state, reconnectExhausted, everAuthenticated, heartbeat, failure,
                         unconfirmed, receiveLoopAbort>>
    /\ UNCHANGED <<transport, dials, conn, tr, reading, closeRequested, closePromise,
                   reconnectPromise, outcome, authRejected, sessionConfirmed,
                   hasEstablishedSession, helloSeen, gateOpen, attempts, connectSent, helloOn>>

\* restoreReconnectState() is over, with or without listener failures: the loop
\* reports AUTHENTICATED.  Nothing looks at the transport again.
RestoreDone ==
    /\ pc["reconnect"] = "restore"
    /\ \/ /\ closeRequested
          /\ Fail("reconnect", "other")
          /\ UNCHANGED <<state, reconnectExhausted, everAuthenticated>>
       \/ /\ ~closeRequested
          /\ reconnectExhausted' = FALSE
          /\ state' = "Authenticated"
          /\ everAuthenticated' = TRUE
          /\ heartbeat' = tr["reconnect"]
          /\ pc' = [pc EXCEPT !["reconnect"] = "ended"]
          /\ UNCHANGED <<failure, unconfirmed, receiveLoopAbort, authOutcome>>
    /\ UNCHANGED <<transport, dials, conn, tr, reading, closeRequested, closePromise,
                   reconnectPromise, outcome, authRejected, sessionConfirmed,
                   hasEstablishedSession, usabilityVars, attempts, connectSent, helloOn>>

--------------------------------------------------------------------------------
(* The rest of the catch block, and what the reconnect loop makes of the error *)

InferredAuthFailure(p) == ~closeRequested /\ failure[p] # "abort" /\ unconfirmed[p]

RejectedAuth(p) == InferredAuthFailure(p) \/ failure[p] = "auth"

\* The catch block after activeTransport.close() settled: the state it leaves.
StateAfterFailure(p) ==
    IF state = "Closed" \/ closeRequested \/ RejectedAuth(p) THEN "Closed" ELSE "Disconnected"

\* Its other effects.
FinishFailure(p) ==
    /\ pc[p] = "closing"
    /\ conn' = [conn EXCEPT ![tr[p]] = "closed"]
    /\ transport' = IF transport = tr[p] THEN 0 ELSE transport
    /\ authRejected' = (authRejected \/ RejectedAuth(p))
    /\ muxConnected' = (muxConnected /\ (state = "Closed" \/ closeRequested))
    /\ helloSeen' = (helloSeen /\ (state = "Closed" \/ closeRequested))

\* connect() rejects.
ConnectFails ==
    /\ FinishFailure("connect")
    /\ state' = StateAfterFailure("connect")
    /\ pc' = [pc EXCEPT !["connect"] = "idle"]
    /\ UNCHANGED <<dials, tr, reading, receiveLoopAbort, closeRequested, closePromise,
                   reconnectPromise, authOutcome, outcome, sessionConfirmed,
                   hasEstablishedSession, reconnectExhausted, gateOpen, heartbeat, failure,
                   unconfirmed, attempts, historyVars>>

\* A variant of the loop that looks at the error only.
AttemptEndsOnRejection(p) == RejectedAuth(p)

\* The loop gives up without retrying: closed, authentication rejected.
AttemptEnds(p) == closeRequested \/ RejectedAuth(p)

AttemptsLeft == attempts < MaxAttempts

\* runLoop: stop, or schedule the next attempt while there are attempts left.
AttemptFails ==
    /\ FinishFailure("reconnect")
    /\ LET retry == ~AttemptEnds("reconnect") /\ failure["reconnect"] # "version"
                      /\ AttemptsLeft
       IN /\ pc' = [pc EXCEPT !["reconnect"] = IF retry THEN "sleep" ELSE "ended"]
          /\ attempts' = IF retry THEN attempts + 1 ELSE attempts
          /\ state' = IF retry THEN "Reconnecting"
                      ELSE IF AttemptEnds("reconnect") THEN "Closed" ELSE "Disconnected"
          /\ reconnectExhausted' =
               (reconnectExhausted \/ (~retry /\ ~AttemptEnds("reconnect")))
    /\ UNCHANGED <<dials, tr, reading, receiveLoopAbort, closeRequested, closePromise,
                   reconnectPromise, authOutcome, outcome, sessionConfirmed,
                   hasEstablishedSession, gateOpen, heartbeat, failure, unconfirmed,
                   historyVars>>

\* The backoff is over: open the next transport, unless close() came first.
LoopWakes ==
    /\ pc["reconnect"] = "sleep"
    /\ ~Continuations
    /\ \/ /\ ~closeRequested
          /\ Open("reconnect")
          /\ UNCHANGED <<authRejected, reconnectExhausted>>
       \/ /\ closeRequested
          /\ pc' = [pc EXCEPT !["reconnect"] = "ended"]
          /\ UNCHANGED <<state, transport, dials, conn, reading, receiveLoopAbort,
                         closeRequested, closePromise, reconnectPromise, authOutcome, outcome,
                         sessionVars, usabilityVars, heartbeat, tr, failure, unconfirmed,
                         attempts, historyVars>>

\* A variant that keeps the promise of a finished loop.
LoopEndsForgotten ==
    /\ pc["reconnect"] = "ended"
    /\ pc' = [pc EXCEPT !["reconnect"] = "idle"]
    /\ UNCHANGED <<state, transport, dials, conn, reading, receiveLoopAbort, closeRequested,
                   closePromise, reconnectPromise, authOutcome, outcome, sessionVars,
                   usabilityVars, heartbeat, tr, failure, unconfirmed, attempts, historyVars>>

\* reconnectPromise is cleared a few promise continuations after the loop returned.
LoopEnds ==
    /\ pc["reconnect"] = "ended"
    /\ pc' = [pc EXCEPT !["reconnect"] = "idle"]
    /\ reconnectPromise' = FALSE
    /\ UNCHANGED <<state, transport, dials, conn, reading, receiveLoopAbort, closeRequested,
                   closePromise, authOutcome, outcome, sessionVars, usabilityVars, heartbeat,
                   tr, failure, unconfirmed, attempts, historyVars>>

--------------------------------------------------------------------------------
(* Loss of the connection *)

\* A variant: the handshake that is under way is not told of the loss.
OutcomeUntold(inferred) == outcome

\* The loss settles the handshake that waits on the lost transport.
OutcomeAfterLoss(inferred) ==
    IF state = "Authenticating" /\ authOutcome # "none" /\ outcome[authOutcome] = "pending"
       THEN [outcome EXCEPT ![authOutcome] = IF inferred THEN "auth" ELSE "other"]
       ELSE outcome

\* handleConnectionLossOnce for the current transport; confirmed is sessionConfirmed
\* at that point.
Loss(confirmed) ==
    LET inferred == ~confirmed /\ state = "Authenticating"
        rejected == authRejected \/ inferred
        start    == ReconnectEnabled /\ ~rejected /\ ~closeRequested /\ ~reconnectPromise
    IN  /\ heartbeat' = 0
        /\ authRejected' = rejected
        /\ muxConnected' = FALSE
        /\ helloSeen' = FALSE
        /\ gateOpen' = FALSE
        /\ outcome' = OutcomeAfterLoss(inferred)
        /\ reconnectExhausted' = (reconnectExhausted /\ (closeRequested \/ rejected))
        /\ state' = IF closeRequested \/ rejected THEN "Closed"
                    ELSE IF start THEN "Reconnecting" ELSE "Disconnected"
        /\ reconnectPromise' = (reconnectPromise \/ start)
        /\ pc' = IF start THEN [pc EXCEPT !["reconnect"] = "sleep"] ELSE pc
        /\ attempts' = IF start THEN 1 ELSE attempts
        /\ UNCHANGED <<transport, dials, receiveLoopAbort, closeRequested, closePromise,
                       authOutcome, tr, failure, unconfirmed, connectSent, everAuthenticated>>

\* The receive loop sees the failure of its transport.
ReceiveFails(t) ==
    /\ t \in reading
    /\ conn[t] \in {"broken", "closed"}
    /\ reading' = reading \ {t}
    /\ \/ /\ ~receiveLoopAbort /\ ~closeRequested /\ transport = t
          /\ Loss(sessionConfirmed)
          /\ UNCHANGED <<conn, sessionConfirmed, hasEstablishedSession, helloOn>>
       \/ /\ receiveLoopAbort \/ closeRequested \/ transport # t
          /\ UNCHANGED <<state, transport, dials, conn, receiveLoopAbort, closeRequested,
                         closePromise, reconnectPromise, authOutcome, outcome, sessionVars,
                         usabilityVars, heartbeat, pc, tr, failure, unconfirmed, attempts,
                         historyVars>>

\* A request fails with a TransportError: it must have passed the gate first.
RequestFails ==
    /\ state = "Authenticated"
    /\ ~closeRequested
    /\ gateOpen
    /\ transport # 0
    /\ conn[transport] # "open"
    /\ Loss(sessionConfirmed)
    /\ UNCHANGED <<conn, reading, sessionConfirmed, hasEstablishedSession, helloOn>>

\* A variant that closes the transport and leaves the rest to the receive loop.
HeartbeatOnlyCloses ==
    /\ Probes
    /\ heartbeat # 0
    /\ ~closeRequested /\ ~receiveLoopAbort
    /\ conn' = [conn EXCEPT ![heartbeat] = "closed"]
    /\ heartbeat' = 0
    /\ UNCHANGED <<state, transport, dials, reading, receiveLoopAbort, closeRequested,
                   closePromise, reconnectPromise, authOutcome, outcome, sessionVars,
                   usabilityVars, pc, tr, failure, unconfirmed, attempts, historyVars>>

\* A heartbeat fails: the transport is closed and the connection counts as lost.
HeartbeatFails ==
    /\ Probes
    /\ heartbeat # 0
    /\ ~Continuations
    /\ ~closeRequested /\ ~receiveLoopAbort
    /\ conn' = [conn EXCEPT ![heartbeat] = "closed"]
    /\ transport = heartbeat
    /\ Loss(sessionConfirmed)
    /\ UNCHANGED <<reading, sessionConfirmed, hasEstablishedSession, helloOn>>

--------------------------------------------------------------------------------
(* Frames.  Data of a transport that is no longer current ends its receive loop. *)

StillReading(t) == IF receiveLoopAbort \/ closeRequested THEN reading \ {t} ELSE reading

StaleFrame(t) ==
    /\ t \in reading
    /\ conn[t] \in {"open", "broken"}
    /\ transport # t
    /\ reading' = reading \ {t}
    /\ UNCHANGED <<state, transport, dials, conn, receiveLoopAbort, closeRequested, closePromise,
                   reconnectPromise, authOutcome, outcome, sessionVars, usabilityVars,
                   heartbeat, pc, tr, failure, unconfirmed, attempts, historyVars>>

\* Frames received before the transport broke are still in its queue.
DataArrives(t) ==
    /\ t \in reading
    /\ conn[t] \in {"open", "broken"}
    /\ transport = t
    /\ UNCHANGED <<transport, dials, conn, receiveLoopAbort, closeRequested, closePromise,
                   authOutcome, tr, failure, unconfirmed, connectSent, everAuthenticated>>

\* A frame of the current transport, whatever it is, confirms the session.
FrameArrives(t) ==
    /\ DataArrives(t)
    /\ sessionConfirmed' = TRUE
    /\ hasEstablishedSession' = TRUE

\* The awaited authOutcome, if it is still undecided, is settled with v.
SettleOutcome(v) ==
    outcome' = IF authOutcome # "none" /\ outcome[authOutcome] = "pending"
                 THEN [outcome EXCEPT ![authOutcome] = v]
                 ELSE outcome

\* An acceptable HELLO: the limits are adopted and a new request gate is made.
\* (The broker answers CONNECT with HELLO or CONNECT_REJECTED, so neither comes
\* before CONNECT was sent.)
HelloFrame(t) ==
    /\ FrameArrives(t)
    /\ t \in connectSent
    /\ ~helloSeen
    /\ helloSeen' = TRUE
    /\ helloOn' = helloOn \cup {t}
    /\ gateOpen' = TRUE
    /\ SettleOutcome("hello")
    /\ reading' = StillReading(t)
    /\ UNCHANGED <<state, reconnectPromise, authRejected, reconnectExhausted, muxConnected,
                   heartbeat, pc, attempts>>

\* CONNECT_REJECTED.
RejectedFrame(t) ==
    /\ FrameArrives(t)
    /\ t \in connectSent \ helloOn
    /\ \E e \in Rejections : /\ authRejected' = (authRejected \/ e = "auth")
                             /\ SettleOutcome(e)
    /\ reading' = StillReading(t)
    /\ UNCHANGED <<state, reconnectPromise, reconnectExhausted, usabilityVars, heartbeat, pc,
                   attempts, helloOn>>

\* GOAWAY, a notification, a response that finds its request.
OtherFrame(t) ==
    /\ FrameArrives(t)
    /\ t \in connectSent
    /\ reading' = StillReading(t)
    /\ UNCHANGED <<state, reconnectPromise, outcome, authRejected, reconnectExhausted,
                   usabilityVars, heartbeat, pc, attempts, helloOn>>

\* The receive loop throws on what it received: the connection is lost, unless the
\* strand that owns the transport is tearing it down.  The transport stays open.
Refuse(t, confirmed) ==
    /\ reading' = reading \ {t}
    /\ helloOn' = helloOn
    /\ \/ ~receiveLoopAbort /\ ~closeRequested /\ Loss(confirmed)
       \/ /\ receiveLoopAbort \/ closeRequested
          /\ UNCHANGED <<state, reconnectPromise, outcome, authRejected, reconnectExhausted,
                         usabilityVars, heartbeat, pc, attempts>>

\* Bytes that do not parse as a frame.
MalformedData(t) ==
    /\ DataArrives(t)
    /\ Refuse(t, sessionConfirmed)
    /\ UNCHANGED <<sessionConfirmed, hasEstablishedSession>>

\* An unsupported or repeated HELLO, a response that nobody waits for.
RefusedFrame(t) ==
    /\ FrameArrives(t)
    /\ Refuse(t, TRUE)

--------------------------------------------------------------------------------
(* close() and the network *)

Close ==
    /\ ~closePromise
    /\ ~(state = "Closed" /\ transport = 0)
    /\ closePromise' = TRUE
    /\ closeRequested' = TRUE
    /\ receiveLoopAbort' = TRUE
    /\ heartbeat' = 0
    /\ state' = "Closed"
    /\ gateOpen' = FALSE
    /\ muxConnected' = FALSE
    /\ helloSeen' = FALSE
    /\ SettleOutcome("other")
    /\ authOutcome' = "none"
    /\ conn' = IF transport = 0 THEN conn ELSE [conn EXCEPT ![transport] = "closed"]
    /\ transport' = 0
    /\ UNCHANGED <<dials, reading, reconnectPromise, sessionVars, pc, tr, failure,
                   unconfirmed, attempts, historyVars>>

\* In CLOSED without a transport (a rejected attempt) close() returns at once, and
\* so do all later ones; a connect() may still follow.
CloseReturnsEarly ==
    /\ ~closePromise
    /\ state = "Closed" /\ transport = 0
    /\ closePromise' = TRUE
    /\ UNCHANGED <<state, transport, dials, conn, reading, receiveLoopAbort, closeRequested,
                   reconnectPromise, authOutcome, outcome, sessionVars, usabilityVars,
                   heartbeat, pc, tr, failure, unconfirmed, attempts, historyVars>>

\* The network or the broker breaks a transport; or a frame stayed incomplete for too
\* long and failPartialFrame() gives the transport up, which its receive loop notices.
TransportBreaks(t) ==
    /\ conn[t] = "open"
    /\ conn' = [conn EXCEPT ![t] = "broken"]
    /\ UNCHANGED <<state, transport, dials, reading, receiveLoopAbort, closeRequested,
                   closePromise, reconnectPromise, authOutcome, outcome, sessionVars,
                   usabilityVars, heartbeat, pc, tr, failure, unconfirmed, attempts,
                   historyVars>>

--------------------------------------------------------------------------------
Next ==
    \/ Connect
    \/ \E p \in Strands : \/ DialFails(p)
                          \/ DialSucceeds(p)
                          \/ SendConnect(p)
                          \/ SendConnectFails(p)
                          \/ HandshakeFails(p)
                          \/ HandshakeSucceeds(p)
    \/ AbortConnect
    \/ RestoreDone
    \/ ConnectFails
    \/ AttemptFails
    \/ LoopWakes
    \/ LoopEnds
    \/ RequestFails
    \/ HeartbeatFails
    \/ Close \/ CloseReturnsEarly
    \/ \E t \in Transports : \/ ReceiveFails(t)
                             \/ StaleFrame(t)
                             \/ HelloFrame(t)
                             \/ RejectedFrame(t)
                             \/ OtherFrame(t)
                             \/ MalformedData(t)
                             \/ RefusedFrame(t)
                             \/ TransportBreaks(t)

Spec == Init /\ [][Next]_vars

(***************************************************************************)
(* Continuations and timers run: dials settle (the transports bound them), *)
(* the HELLO wait is timed, listeners' requests are timed, transports      *)
(* finish close(), a pending receive() of a dead transport rejects, a      *)
(* probing transport's heartbeats to a dead peer fail.  Nothing is assumed *)
(* of the broker, the network or the application.                          *)
(***************************************************************************)
Fairness ==
    /\ \A p \in Strands : /\ WF_vars(DialFails(p) \/ DialSucceeds(p))
                          /\ WF_vars(HandshakeFails(p) \/ HandshakeSucceeds(p))
    /\ WF_vars(RestoreDone)
    /\ WF_vars(ConnectFails)
    /\ WF_vars(AttemptFails)
    /\ WF_vars(LoopWakes)
    /\ WF_vars(LoopEnds)
    /\ \A t \in Transports : WF_vars(ReceiveFails(t))
    /\ WF_vars(HeartbeatFails /\ conn[heartbeat] # "open")

FairSpec == Spec /\ Fairness

--------------------------------------------------------------------------------
(* Properties *)

\* The variables have their types.
TypeOK ==
    /\ state \in States
    /\ transport \in 0..MaxDials
    /\ dials \in 0..MaxDials
    /\ conn \in [Transports -> {"unused", "dialing", "open", "broken", "closed"}]
    /\ reading \in SUBSET Transports
    /\ receiveLoopAbort \in BOOLEAN
    /\ closeRequested \in BOOLEAN /\ closePromise \in BOOLEAN
    /\ reconnectPromise \in BOOLEAN
    /\ authOutcome \in Strands \cup {"none"}
    /\ outcome \in [Strands -> Errors \cup {"pending", "hello"}]
    /\ <<authRejected, sessionConfirmed, hasEstablishedSession, reconnectExhausted>>
         \in BOOLEAN \X BOOLEAN \X BOOLEAN \X BOOLEAN
    /\ <<muxConnected, helloSeen, gateOpen>> \in BOOLEAN \X BOOLEAN \X BOOLEAN
    /\ heartbeat \in 0..MaxDials
    /\ pc \in [Strands -> {"idle", "dialing", "auth", "restore", "closing", "sleep", "ended"}]
    /\ tr \in [Strands -> 0..MaxDials]
    /\ failure \in [Strands -> Errors]
    /\ unconfirmed \in [Strands -> BOOLEAN]
    /\ attempts \in 0..MaxAttempts
    /\ connectSent \in SUBSET Transports
    /\ helloOn \in SUBSET Transports
    /\ everAuthenticated \in BOOLEAN

\* close() is final: whatever strand was dialing, authenticating, restoring or
\* failing when it came, none of them moves the connection out of CLOSED, brings
\* the multiplexer up again or opens a gate.  (A close() that finds the connection
\* CLOSED without a transport, after rejected credentials, returns at once.)
ClosedIsFinal ==
    closeRequested => state = "Closed" /\ transport = 0 /\ ~muxConnected /\ ~gateOpen

\* AUTHENTICATED is only reported for a transport on which CONNECT was sent and
\* an acceptable HELLO came back, never for another strand's transport.
AuthenticatedByHandshake ==
    state = "Authenticated" => transport \in helloOn /\ transport \in connectSent

\* connect() and the reconnect loop never work on two transports at once: a strand
\* dials only when the other has no dial, handshake or restore under way.
OneAttemptAtATime ==
    \A p \in Strands :
      \A q \in Strands \ {p} :
        pc[p] \in {"dialing", "auth", "restore"} =>
          ~(pc[q] \in {"dialing", "restore"} \/ (pc[q] = "auth" /\ outcome[q] = "pending"))

\* The reconnect loop does not dial again after the broker rejected the
\* credentials (the comment in runLoop's catch block).
RejectionStopsLoop ==
    [][pc["reconnect"] = "sleep" /\ dials' > dials => ~authRejected]_vars

\* While a session is AUTHENTICATED, nothing takes away its multiplexer or its
\* gate behind the caller's back: losing them always changes the state.
UsabilityIsNotLostSilently ==
    [][state = "Authenticated" /\ state' = "Authenticated" =>
         (muxConnected => muxConnected') /\ (gateOpen => gateOpen')]_vars

\* After close() both strands come to an end and the loop's promise is cleared.
CloseTerminates ==
    closeRequested ~> (\A p \in Strands : pc[p] = "idle") /\ ~reconnectPromise

\* On a probing transport a session whose transport died does not stay
\* AUTHENTICATED.
DeadSessionNoticed ==
    (state = "Authenticated" /\ conn[transport] # "open") ~>
      ~(state = "Authenticated" /\ conn[transport] # "open")

\* What isConnected() means to a caller (client-core.ts): the connection is
\* authenticated and usable, so requests are let through the gate; at least when
\* no attempt is under way that would replace the transport.
AuthenticatedUsable ==
    /\ state = "Authenticated"
    /\ ~reconnectPromise
    /\ \A p \in Strands : pc[p] = "idle"
    => gateOpen

\* Automatic reconnect belongs to clients that had an authenticated session; the
\* initial connect() is single-shot (PUBLIC_CONTRACT.md).
LoopOnlyAfterSession == reconnectPromise => everAuthenticated

\* After a failed attempt, with nothing under way, a later connect() dials again
\* instead of waiting for a reconnect that nobody runs (OPERATIONS.md).
ConnectMayBeRetried ==
    /\ state = "Disconnected"
    /\ ~reconnectPromise
    /\ \A p \in Strands : pc[p] = "idle"
    => ~CanWaitForReconnect

\* A transport the connection has given up and replaced is closed, or some strand
\* is closing it.
LostTransportClosed ==
    \A t \in Transports :
      t < dials => conn[t] # "open" \/ \E p \in Strands : pc[p] = "closing" /\ tr[p] = t

================================================================================
