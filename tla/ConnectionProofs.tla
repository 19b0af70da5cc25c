--------------------------- MODULE ConnectionProofs ----------------------------
(***************************************************************************)
(* Proofs about Connection, for any number of dials and attempts, with and *)
(* without automatic reconnection and heartbeats.                          *)
(***************************************************************************)
EXTENDS Connection, TLAPS

\* Transports are numbered from 1, so the null transport delivers nothing.
LEMMA NoDataAfterClose ==
    ASSUME ClosedIsFinal, NEW t \in Transports, transport = t
    PROVE  ~closeRequested
BY DEF ClosedIsFinal, Transports

\* The strands of openAndAuthenticate() look at closeRequested after every await.
LEMMA StrandKeepsClosed ==
    ASSUME ClosedIsFinal, NEW p \in Strands,
           \/ DialFails(p) \/ DialSucceeds(p) \/ SendConnect(p) \/ SendConnectFails(p)
           \/ HandshakeFails(p) \/ HandshakeSucceeds(p)
    PROVE  ClosedIsFinal'
<1>1. CASE DialFails(p) \/ SendConnect(p) \/ SendConnectFails(p) \/ HandshakeFails(p)
  BY <1>1 DEF ClosedIsFinal, DialFails, SendConnect, SendConnectFails, HandshakeFails, Fail,
              sessionVars, usabilityVars, historyVars
<1>2. CASE DialSucceeds(p)
  BY <1>2 DEF ClosedIsFinal, DialSucceeds
<1>3. CASE HandshakeSucceeds(p)
  BY <1>3 DEF ClosedIsFinal, HandshakeSucceeds
<1> QED
  BY <1>1, <1>2, <1>3

\* The catch block leaves a closed connection closed, also when transport.close()
\* took until after close().
LEMMA FailureKeepsClosed ==
    ASSUME ClosedIsFinal, ConnectFails \/ AttemptFails
    PROVE  ClosedIsFinal'
<1>1. CASE ConnectFails
  BY <1>1 DEF ClosedIsFinal, ConnectFails, FinishFailure, StateAfterFailure
<1>2. CASE AttemptFails
  BY <1>2 DEF ClosedIsFinal, AttemptFails, FinishFailure, AttemptEnds
<1> QED
  BY <1>1, <1>2

\* The reconnect loop, the restore and an aborted connect().
LEMMA LoopKeepsClosed ==
    ASSUME ClosedIsFinal, Connect \/ AbortConnect \/ RestoreDone \/ LoopWakes \/ LoopEnds
    PROVE  ClosedIsFinal'
<1>1. CASE Connect
  BY <1>1 DEF ClosedIsFinal, Connect, Open
<1>2. CASE AbortConnect \/ LoopEnds
  BY <1>2 DEF ClosedIsFinal, AbortConnect, LoopEnds, Fail, usabilityVars
<1>3. CASE RestoreDone
  BY <1>3 DEF ClosedIsFinal, RestoreDone, usabilityVars
<1>4. CASE LoopWakes
  BY <1>4 DEF ClosedIsFinal, LoopWakes, Open, usabilityVars
<1> QED
  BY <1>1, <1>2, <1>3, <1>4

\* Frames, failures of the transport and losses.
LEMMA ReceiveKeepsClosed ==
    ASSUME ClosedIsFinal, NEW t \in Transports,
           \/ ReceiveFails(t) \/ StaleFrame(t) \/ HelloFrame(t) \/ RejectedFrame(t)
           \/ OtherFrame(t) \/ MalformedData(t) \/ RefusedFrame(t) \/ TransportBreaks(t)
    PROVE  ClosedIsFinal'
<1>1. CASE ReceiveFails(t)
  BY <1>1 DEF ClosedIsFinal, ReceiveFails, Loss, usabilityVars
<1>2. CASE StaleFrame(t) \/ TransportBreaks(t)
  BY <1>2 DEF ClosedIsFinal, StaleFrame, TransportBreaks, usabilityVars
<1>3. CASE HelloFrame(t) \/ RejectedFrame(t) \/ OtherFrame(t) \/ MalformedData(t) \/ RefusedFrame(t)
  <2>1. transport = t /\ UNCHANGED closeRequested
    BY <1>3 DEF HelloFrame, RejectedFrame, OtherFrame, MalformedData, RefusedFrame, FrameArrives,
                DataArrives
  <2> QED
    BY <2>1, NoDataAfterClose DEF ClosedIsFinal
<1> QED
  BY <1>1, <1>2, <1>3

\* close() is final for any interleaving: no dial, handshake, restore, retry, frame,
\* heartbeat or late failure handler brings a closed connection back.
THEOREM ConnectionClosedIsFinal == Spec => []ClosedIsFinal
<1>1. Init => ClosedIsFinal
  BY DEF Init, ClosedIsFinal
<1>2. ClosedIsFinal /\ [Next]_vars => ClosedIsFinal'
  <2> SUFFICES ASSUME ClosedIsFinal, [Next]_vars PROVE ClosedIsFinal'
    OBVIOUS
  <2>1. CASE RequestFails \/ HeartbeatFails
    BY <2>1 DEF ClosedIsFinal, RequestFails, HeartbeatFails, Loss
  <2>2. CASE Close \/ CloseReturnsEarly
    BY <2>2 DEF ClosedIsFinal, Close, CloseReturnsEarly, usabilityVars
  <2>3. CASE UNCHANGED vars
    BY <2>3 DEF ClosedIsFinal, vars, usabilityVars
  <2> QED
    BY <2>1, <2>2, <2>3, StrandKeepsClosed, FailureKeepsClosed, LoopKeepsClosed,
       ReceiveKeepsClosed DEF Next
<1> QED
  BY <1>1, <1>2, PTL DEF Spec

--------------------------------------------------------------------------------
(* The types *)

\* The flags.
FlagTypes ==
    /\ receiveLoopAbort \in BOOLEAN /\ closeRequested \in BOOLEAN
    /\ closePromise \in BOOLEAN /\ reconnectPromise \in BOOLEAN
    /\ authRejected \in BOOLEAN /\ sessionConfirmed \in BOOLEAN
    /\ hasEstablishedSession \in BOOLEAN /\ reconnectExhausted \in BOOLEAN
    /\ muxConnected \in BOOLEAN /\ helloSeen \in BOOLEAN /\ gateOpen \in BOOLEAN
    /\ unconfirmed \in [Strands -> BOOLEAN] /\ everAuthenticated \in BOOLEAN

\* Where a strand has a transport of its own.
Busy == {"dialing", "auth", "restore", "closing"}

\* The rest, with what the code takes for granted: a strand at work has a
\* transport, and only transports that were dialed are read.
DataTypes ==
    /\ state \in States
    /\ dials \in 0..MaxDials /\ transport \in 0..MaxDials /\ heartbeat \in 0..MaxDials
    /\ conn \in [Transports -> {"unused", "dialing", "open", "broken", "closed"}]
    /\ authOutcome \in Strands \cup {"none"}
    /\ outcome \in [Strands -> Errors \cup {"pending", "hello"}]
    /\ pc \in [Strands -> {"idle", "dialing", "auth", "restore", "closing", "sleep", "ended"}]
    /\ tr \in [Strands -> 0..dials] /\ \A p \in Strands : pc[p] \in Busy => tr[p] # 0
    /\ failure \in [Strands -> Errors]
    /\ attempts \in 0..MaxAttempts
    /\ reading \subseteq 1..dials /\ connectSent \subseteq Transports /\ helloOn \subseteq Transports

\* The two strands, and the numbers of transports.
LEMMA Names ==
    /\ Strands = {"connect", "reconnect"} /\ "connect" \in Strands /\ "reconnect" \in Strands
    /\ MaxDials \in Nat \ {0} /\ MaxAttempts \in Nat \ {0} /\ Transports = 1..MaxDials
BY DialsAssumption DEF Strands, Transports

\* openAndAuthenticate() makes a new transport.
LEMMA OpenTypes ==
    ASSUME DataTypes, FlagTypes, NEW p \in Strands, Open(p)
    PROVE  /\ dials' \in 1..MaxDials /\ dials' = dials + 1 /\ transport' = dials'
           /\ tr' \in [Strands -> 0..dials'] /\ tr'[p] = dials'
           /\ \A q \in Strands : q # p => tr'[q] = tr[q]
           /\ pc' \in [Strands -> {"idle", "dialing", "auth", "restore", "closing", "sleep", "ended"}]
           /\ pc'[p] = "dialing" /\ \A q \in Strands : q # p => pc'[q] = pc[q]
           /\ conn' \in [Transports -> {"unused", "dialing", "open", "broken", "closed"}]
           /\ reading' = reading /\ reading \subseteq 1..dials' /\ dials' \notin reading
           /\ state' \in States
<1>1. dials' \in 1..MaxDials /\ dials' = dials + 1 /\ transport' = dials' /\ dials \in Nat
  BY Names DEF Open, DataTypes
<1>2. tr' = [tr EXCEPT ![p] = dials'] /\ tr \in [Strands -> 0..dials]
  BY <1>1 DEF Open, DataTypes
<1>3. 0..dials \subseteq 0..dials' /\ dials' \in 0..dials' /\ 1..dials \subseteq 1..dials' /\ dials' \notin 1..dials
  BY <1>1
<1>4. /\ tr' \in [Strands -> 0..dials'] /\ tr'[p] = dials'
      /\ \A q \in Strands : q # p => tr'[q] = tr[q]
  BY <1>2, <1>3
<1>5. /\ pc' \in [Strands -> {"idle", "dialing", "auth", "restore", "closing", "sleep", "ended"}]
      /\ pc'[p] = "dialing" /\ \A q \in Strands : q # p => pc'[q] = pc[q]
  BY DEF Open, DataTypes
<1>6. conn' \in [Transports -> {"unused", "dialing", "open", "broken", "closed"}]
  BY DEF Open, DataTypes
<1>7. reading' = reading /\ reading \subseteq 1..dials' /\ dials' \notin reading
  BY <1>3 DEF Open, DataTypes
<1> QED
  BY <1>1, <1>4, <1>5, <1>6, <1>7 DEF Open, States

\* The catch block up to transport.close().
LEMMA FailTypes ==
    ASSUME DataTypes, FlagTypes, NEW p \in Strands, NEW e \in Errors, Fail(p, e), pc[p] \in Busy
    PROVE  /\ pc' \in [Strands -> {"idle", "dialing", "auth", "restore", "closing", "sleep", "ended"}]
           /\ pc'[p] = "closing" /\ \A q \in Strands : q # p => pc'[q] = pc[q]
           /\ \A q \in Strands : pc'[q] \in Busy => tr[q] # 0
           /\ failure' \in [Strands -> Errors] /\ unconfirmed' \in [Strands -> BOOLEAN]
           /\ authOutcome' = "none" /\ heartbeat' = 0 /\ receiveLoopAbort' = TRUE
<1>1. /\ pc' \in [Strands -> {"idle", "dialing", "auth", "restore", "closing", "sleep", "ended"}]
      /\ pc'[p] = "closing" /\ \A q \in Strands : q # p => pc'[q] = pc[q]
  BY DEF Fail, DataTypes
<1>2. \A q \in Strands : pc'[q] \in Busy => tr[q] # 0
  BY <1>1 DEF DataTypes
<1>3. unconfirmed' \in [Strands -> BOOLEAN]
  <2>1. (~sessionConfirmed /\ state = "Authenticating") \in BOOLEAN
    OBVIOUS
  <2> QED
    BY <2>1 DEF Fail, FlagTypes
<1> QED
  BY <1>1, <1>2, <1>3 DEF Fail, DataTypes

\* The reaction to a lost connection.
LEMMA LossTypes ==
    ASSUME DataTypes, FlagTypes, NEW confirmed \in BOOLEAN, Loss(confirmed)
    PROVE  /\ pc' \in [Strands -> {"idle", "dialing", "auth", "restore", "closing", "sleep", "ended"}]
           /\ pc' = pc \/ (pc' = [pc EXCEPT !["reconnect"] = "sleep"])
           /\ \A q \in Strands : pc'[q] \in Busy => tr[q] # 0
           /\ outcome' \in [Strands -> Errors \cup {"pending", "hello"}]
           /\ state' \in States /\ attempts' \in 0..MaxAttempts
           /\ authRejected' \in BOOLEAN /\ reconnectExhausted' \in BOOLEAN
           /\ reconnectPromise' \in BOOLEAN
           /\ heartbeat' = 0 /\ muxConnected' = FALSE /\ helloSeen' = FALSE /\ gateOpen' = FALSE
           /\ UNCHANGED <<transport, dials, receiveLoopAbort, closeRequested, closePromise,
                          authOutcome, tr, failure, unconfirmed, connectSent,
                          everAuthenticated>>
<1>1. /\ pc' = pc \/ (pc' = [pc EXCEPT !["reconnect"] = "sleep"])
      /\ pc \in [Strands -> {"idle", "dialing", "auth", "restore", "closing", "sleep", "ended"}]
  BY DEF Loss, DataTypes
<1>2. /\ pc' \in [Strands -> {"idle", "dialing", "auth", "restore", "closing", "sleep", "ended"}]
      /\ \A q \in Strands : pc'[q] \in Busy => tr[q] # 0
  BY <1>1 DEF DataTypes, Busy
<1>3. outcome' \in [Strands -> Errors \cup {"pending", "hello"}]
  BY DEF Loss, OutcomeAfterLoss, DataTypes, Errors
<1>4. state' \in States /\ attempts' \in 0..MaxAttempts
  BY Names DEF Loss, DataTypes, States
<1>5. authRejected' \in BOOLEAN /\ reconnectExhausted' \in BOOLEAN /\ reconnectPromise' \in BOOLEAN
  BY DEF Loss
<1>6. /\ heartbeat' = 0 /\ muxConnected' = FALSE /\ helloSeen' = FALSE /\ gateOpen' = FALSE
      /\ UNCHANGED <<transport, dials, receiveLoopAbort, closeRequested, closePromise,
                     authOutcome, tr, failure, unconfirmed, connectSent, everAuthenticated>>
  BY DEF Loss
<1> QED
  BY <1>1, <1>2, <1>3, <1>4, <1>5, <1>6

\* An action that fails its strand and changes nothing else of the data.
LEMMA FailKeepsData ==
    ASSUME DataTypes, FlagTypes, NEW p \in Strands, NEW e \in Errors, Fail(p, e), pc[p] \in Busy,
           conn' \in [Transports -> {"unused", "dialing", "open", "broken", "closed"}],
           UNCHANGED <<state, transport, dials, tr, reading, outcome, attempts, connectSent,
                       helloOn>>
    PROVE  DataTypes'
<1>1. /\ pc' \in [Strands -> {"idle", "dialing", "auth", "restore", "closing", "sleep", "ended"}]
      /\ \A q \in Strands : pc'[q] \in Busy => tr[q] # 0
      /\ failure' \in [Strands -> Errors] /\ authOutcome' = "none" /\ heartbeat' = 0
  BY FailTypes
<1>2. heartbeat' \in 0..MaxDials
  BY <1>1, Names
<1> QED
  BY <1>1, <1>2 DEF DataTypes

\* And nothing else of the flags.
LEMMA FailKeepsFlags ==
    ASSUME DataTypes, FlagTypes, NEW p \in Strands, NEW e \in Errors, Fail(p, e), pc[p] \in Busy,
           UNCHANGED <<closeRequested, closePromise, reconnectPromise, authRejected,
                       sessionConfirmed, hasEstablishedSession, reconnectExhausted,
                       muxConnected, helloSeen, gateOpen, everAuthenticated>>
    PROVE  FlagTypes'
<1>1. unconfirmed' \in [Strands -> BOOLEAN] /\ receiveLoopAbort' = TRUE
  BY FailTypes
<1> QED
  BY <1>1 DEF FlagTypes

\* The strands keep the types.
LEMMA StrandTypes ==
    ASSUME DataTypes, FlagTypes, NEW p \in Strands,
           \/ DialFails(p) \/ DialSucceeds(p) \/ SendConnect(p) \/ SendConnectFails(p)
           \/ HandshakeFails(p) \/ HandshakeSucceeds(p)
    PROVE  DataTypes' /\ FlagTypes'
<1>0. /\ Errors = {"auth", "version", "abort", "other"} /\ Busy = {"dialing", "auth", "restore", "closing"}
      /\ tr[p] \in 0..dials /\ dials \in 0..MaxDials /\ MaxDials \in Nat
      /\ (pc[p] \in Busy => tr[p] \in 1..dials /\ tr[p] \in Transports)
  BY Names DEF Errors, Busy, DataTypes
<1>1. CASE DialFails(p)
  <2>1. Fail(p, "other") /\ pc[p] \in Busy /\ "other" \in Errors
    BY <1>0, <1>1 DEF DialFails
  <2>2. conn' \in [Transports -> {"unused", "dialing", "open", "broken", "closed"}]
    BY <1>1 DEF DialFails, DataTypes
  <2>3. UNCHANGED <<state, transport, dials, tr, reading, outcome, attempts, connectSent,
                    helloOn, closeRequested, closePromise, reconnectPromise, authRejected,
                    sessionConfirmed, hasEstablishedSession, reconnectExhausted, muxConnected,
                    helloSeen, gateOpen, everAuthenticated>>
    BY <1>1 DEF DialFails, sessionVars, usabilityVars, historyVars
  <2> QED
    BY <2>1, <2>2, <2>3, FailKeepsData, FailKeepsFlags
<1>2. CASE DialSucceeds(p)
  <2>1. conn' \in [Transports -> {"unused", "dialing", "open", "broken", "closed"}]
    BY <1>2 DEF DialSucceeds, DataTypes
  <2>2. reading' \subseteq 1..dials
    BY <1>0, <1>2 DEF DialSucceeds, DataTypes
  <2>3. \A q \in Strands : pc'[q] \in Busy => tr[q] # 0
    BY <1>0, <1>2 DEF DialSucceeds, DataTypes
  <2>4. DataTypes'
    BY <1>2, <2>1, <2>2, <2>3 DEF DialSucceeds, DataTypes, historyVars, States
  <2>5. FlagTypes'
    BY <1>2 DEF DialSucceeds, FlagTypes, sessionVars, usabilityVars, historyVars
  <2> QED
    BY <2>4, <2>5
<1>3. CASE SendConnect(p)
  <2>1. connectSent' \subseteq Transports
    BY <1>0, <1>3 DEF SendConnect, DataTypes
  <2>2. DataTypes'
    BY <1>3, <2>1 DEF SendConnect, DataTypes
  <2>3. FlagTypes'
    BY <1>3 DEF SendConnect, FlagTypes, sessionVars, usabilityVars
  <2> QED
    BY <2>2, <2>3
<1>4. CASE SendConnectFails(p)
  <2>1. DataTypes'
    BY <1>0, <1>4 DEF SendConnectFails, DataTypes, historyVars
  <2>2. FlagTypes'
    BY <1>4 DEF SendConnectFails, FlagTypes, sessionVars, usabilityVars, historyVars
  <2> QED
    BY <2>1, <2>2
<1>5. CASE HandshakeFails(p)
  <2>1. PICK e \in Errors : Fail(p, e)
    BY <1>0, <1>5 DEF HandshakeFails
  <2>2. pc[p] \in Busy
    BY <1>0, <1>5 DEF HandshakeFails
  <2>3. UNCHANGED <<state, transport, dials, conn, tr, reading, outcome, attempts, connectSent,
                    helloOn, closeRequested, closePromise, reconnectPromise, authRejected,
                    sessionConfirmed, hasEstablishedSession, reconnectExhausted, muxConnected,
                    helloSeen, gateOpen, everAuthenticated>>
    BY <1>5 DEF HandshakeFails, sessionVars, usabilityVars, historyVars
  <2>4. conn' \in [Transports -> {"unused", "dialing", "open", "broken", "closed"}]
    BY <2>3 DEF DataTypes
  <2> QED
    BY <2>1, <2>2, <2>3, <2>4, FailKeepsData, FailKeepsFlags
<1>6. CASE HandshakeSucceeds(p)
  <2>0. pc[p] = "auth" /\ pc[p] \in Busy
    BY <1>0, <1>6 DEF HandshakeSucceeds, HelloSettled
  <2>9. /\ UNCHANGED <<transport, dials, conn, tr, reading, closeRequested, closePromise,
                       reconnectPromise, outcome, authRejected, sessionConfirmed,
                       hasEstablishedSession, helloSeen, gateOpen, attempts, connectSent,
                       helloOn>>
        /\ conn' \in [Transports -> {"unused", "dialing", "open", "broken", "closed"}]
    BY <1>6 DEF HandshakeSucceeds, DataTypes
  <2>1. CASE \E e \in Errors : Fail(p, e) /\ UNCHANGED <<state, muxConnected,
                                                         reconnectExhausted, everAuthenticated>>
    <3>1. PICK e \in Errors : Fail(p, e) /\ UNCHANGED <<state, muxConnected, reconnectExhausted,
                                                        everAuthenticated>>
      BY <2>1
    <3> QED
      BY <2>0, <2>9, <3>1, FailKeepsData, FailKeepsFlags
  <2>2. CASE /\ authOutcome' = "none" /\ reconnectExhausted' = FALSE /\ state' = "Authenticated"
             /\ everAuthenticated' = TRUE /\ heartbeat' = tr[p] /\ muxConnected' = TRUE
             /\ pc' = [pc EXCEPT ![p] = "idle"]
             /\ UNCHANGED <<failure, unconfirmed, receiveLoopAbort>>
    <3>1. \A q \in Strands : pc'[q] \in Busy => tr[q] # 0
      BY <1>0, <2>2 DEF DataTypes
    <3>2. heartbeat' \in 0..MaxDials
      BY <1>0, <2>2
    <3>3. DataTypes'
      BY <2>9, <2>2, <3>1, <3>2 DEF DataTypes, States
    <3>4. FlagTypes'
      BY <2>9, <2>2 DEF FlagTypes
    <3> QED
      BY <3>3, <3>4
  <2>3. CASE /\ authOutcome' = "none" /\ muxConnected' = TRUE
             /\ pc' = [pc EXCEPT ![p] = "restore"]
             /\ UNCHANGED <<state, reconnectExhausted, everAuthenticated, heartbeat, failure,
                            unconfirmed, receiveLoopAbort>>
    <3>1. \A q \in Strands : pc'[q] \in Busy => tr[q] # 0
      BY <1>0, <2>0, <2>3 DEF DataTypes
    <3>2. DataTypes'
      BY <2>9, <2>3, <3>1 DEF DataTypes
    <3>3. FlagTypes'
      BY <2>9, <2>3 DEF FlagTypes
    <3> QED
      BY <3>2, <3>3
  <2> QED
    BY <1>0, <1>6, <2>1, <2>2, <2>3 DEF HandshakeSucceeds
<1> QED
  BY <1>1, <1>2, <1>3, <1>4, <1>5, <1>6

\* connect(), its abort, and the loop keep the types.
LEMMA LoopTypes ==
    ASSUME DataTypes, FlagTypes,
           \/ Connect \/ AbortConnect \/ RestoreDone \/ LoopWakes \/ LoopEnds
           \/ ConnectFails \/ AttemptFails
    PROVE  DataTypes' /\ FlagTypes'
<1>0. /\ Errors = {"auth", "version", "abort", "other"} /\ Busy = {"dialing", "auth", "restore", "closing"}
      /\ dials \in 0..MaxDials /\ MaxDials \in Nat
  BY Names DEF Errors, Busy, DataTypes
<1>1. ASSUME NEW p \in Strands, Open(p), authRejected' \in BOOLEAN, reconnectExhausted' \in BOOLEAN
      PROVE  DataTypes' /\ FlagTypes'
  <2>1. /\ dials' \in 1..MaxDials /\ transport' = dials'
        /\ tr' \in [Strands -> 0..dials'] /\ tr'[p] = dials'
        /\ \A q \in Strands : q # p => tr'[q] = tr[q]
        /\ pc' \in [Strands -> {"idle", "dialing", "auth", "restore", "closing", "sleep", "ended"}]
        /\ pc'[p] = "dialing" /\ \A q \in Strands : q # p => pc'[q] = pc[q]
        /\ conn' \in [Transports -> {"unused", "dialing", "open", "broken", "closed"}]
        /\ reading' \subseteq 1..dials' /\ state' \in States
    BY <1>1, OpenTypes
  <2>2. \A q \in Strands : pc'[q] \in Busy => tr'[q] # 0
    BY <1>0, <2>1 DEF DataTypes
  <2>3. dials' \in 0..MaxDials /\ transport' \in 0..MaxDials /\ heartbeat' \in 0..MaxDials
    BY <1>0, <1>1, <2>1 DEF Open
  <2>4. UNCHANGED <<authOutcome, outcome, failure, attempts, connectSent, helloOn>>
    BY <1>1 DEF Open, historyVars
  <2>5. DataTypes'
    BY <2>1, <2>2, <2>3, <2>4 DEF DataTypes
  <2>6. FlagTypes'
    BY <1>1 DEF Open, FlagTypes, historyVars
  <2> QED
    BY <2>5, <2>6
<1>2. CASE Connect
  BY <1>1, <1>2, Names DEF Connect
<1>3. CASE AbortConnect
  <2>1. Fail("connect", "abort") /\ pc["connect"] \in Busy /\ "abort" \in Errors
    BY <1>0, <1>3 DEF AbortConnect
  <2>2. UNCHANGED <<state, transport, dials, conn, tr, reading, outcome, attempts, connectSent,
                    helloOn, closeRequested, closePromise, reconnectPromise, authRejected,
                    sessionConfirmed, hasEstablishedSession, reconnectExhausted, muxConnected,
                    helloSeen, gateOpen, everAuthenticated>>
    BY <1>3 DEF AbortConnect, sessionVars, usabilityVars, historyVars
  <2>3. conn' \in [Transports -> {"unused", "dialing", "open", "broken", "closed"}]
    BY <2>2 DEF DataTypes
  <2> QED
    BY <2>1, <2>2, <2>3, FailKeepsData, FailKeepsFlags, Names
<1>4. CASE RestoreDone
  <2>9. /\ UNCHANGED <<transport, dials, conn, tr, reading, closeRequested, closePromise,
                       reconnectPromise, outcome, authRejected, sessionConfirmed,
                       hasEstablishedSession, muxConnected, helloSeen, gateOpen, attempts,
                       connectSent, helloOn>>
        /\ conn' \in [Transports -> {"unused", "dialing", "open", "broken", "closed"}]
    BY <1>4 DEF RestoreDone, DataTypes, usabilityVars
  <2>1. CASE Fail("reconnect", "other") /\ UNCHANGED <<state, reconnectExhausted,
                                                       everAuthenticated>>
    <3>1. pc["reconnect"] \in Busy /\ "other" \in Errors
      BY <1>0, <1>4 DEF RestoreDone
    <3> QED
      BY <2>1, <2>9, <3>1, FailKeepsData, FailKeepsFlags, Names
  <2>2. CASE /\ reconnectExhausted' = FALSE /\ state' = "Authenticated" /\ everAuthenticated' = TRUE
             /\ heartbeat' = tr["reconnect"] /\ pc' = [pc EXCEPT !["reconnect"] = "ended"]
             /\ UNCHANGED <<failure, unconfirmed, receiveLoopAbort, authOutcome>>
    <3>1. \A q \in Strands : pc'[q] \in Busy => tr[q] # 0
      BY <1>0, <2>2 DEF DataTypes
    <3>2. heartbeat' \in 0..MaxDials
      BY <1>0, <2>2, Names DEF DataTypes
    <3>3. DataTypes'
      BY <2>9, <2>2, <3>1, <3>2 DEF DataTypes, States
    <3>4. FlagTypes'
      BY <2>9, <2>2 DEF FlagTypes
    <3> QED
      BY <3>3, <3>4
  <2> QED
    BY <1>4, <2>1, <2>2 DEF RestoreDone
<1>5. CASE LoopWakes
  <2>1. CASE Open("reconnect") /\ UNCHANGED <<authRejected, reconnectExhausted>>
    BY <1>1, <2>1, Names DEF FlagTypes
  <2>2. CASE /\ pc' = [pc EXCEPT !["reconnect"] = "ended"]
             /\ UNCHANGED <<state, transport, dials, conn, reading, receiveLoopAbort,
                            closeRequested, closePromise, reconnectPromise, authOutcome,
                            outcome, sessionVars, usabilityVars, heartbeat, tr, failure,
                            unconfirmed, attempts, historyVars>>
    <3>1. /\ pc' \in [Strands -> {"idle", "dialing", "auth", "restore", "closing", "sleep", "ended"}]
          /\ \A q \in Strands : pc'[q] \in Busy => tr[q] # 0
      BY <1>0, <2>2 DEF DataTypes
    <3>2. DataTypes'
      BY <2>2, <3>1 DEF DataTypes, historyVars
    <3>3. FlagTypes'
      BY <2>2 DEF FlagTypes, sessionVars, usabilityVars, historyVars
    <3> QED
      BY <3>2, <3>3
  <2> QED
    BY <1>5, <2>1, <2>2 DEF LoopWakes
<1>6. CASE LoopEnds
  <2>1. /\ pc' \in [Strands -> {"idle", "dialing", "auth", "restore", "closing", "sleep", "ended"}]
        /\ \A q \in Strands : pc'[q] \in Busy => tr[q] # 0
    BY <1>0, <1>6 DEF LoopEnds, DataTypes
  <2>2. DataTypes'
    BY <1>6, <2>1 DEF LoopEnds, DataTypes, historyVars
  <2>3. FlagTypes'
    BY <1>6 DEF LoopEnds, FlagTypes, sessionVars, usabilityVars, historyVars
  <2> QED
    BY <2>2, <2>3
<1>7. ASSUME NEW p \in Strands, FinishFailure(p)
      PROVE  /\ conn' \in [Transports -> {"unused", "dialing", "open", "broken", "closed"}]
             /\ transport' \in 0..MaxDials
             /\ authRejected' \in BOOLEAN /\ muxConnected' \in BOOLEAN /\ helloSeen' \in BOOLEAN
  <2>1. conn' \in [Transports -> {"unused", "dialing", "open", "broken", "closed"}]
    BY <1>7 DEF FinishFailure, DataTypes
  <2>2. transport' \in 0..MaxDials
    BY <1>7, Names DEF FinishFailure, DataTypes
  <2> QED
    BY <1>7, <2>1, <2>2 DEF FinishFailure
<1>8. CASE ConnectFails
  <2>0. /\ conn' \in [Transports -> {"unused", "dialing", "open", "broken", "closed"}]
        /\ transport' \in 0..MaxDials
        /\ authRejected' \in BOOLEAN /\ muxConnected' \in BOOLEAN /\ helloSeen' \in BOOLEAN
    BY <1>7, <1>8, Names DEF ConnectFails
  <2>1. /\ pc' \in [Strands -> {"idle", "dialing", "auth", "restore", "closing", "sleep", "ended"}]
        /\ \A q \in Strands : pc'[q] \in Busy => tr[q] # 0
    BY <1>0, <1>8 DEF ConnectFails, DataTypes
  <2>2. state' \in States
    BY <1>8 DEF ConnectFails, StateAfterFailure, States
  <2>3. DataTypes'
    BY <1>8, <2>0, <2>1, <2>2 DEF ConnectFails, DataTypes, historyVars
  <2>4. FlagTypes'
    BY <1>8, <2>0 DEF ConnectFails, FlagTypes, historyVars
  <2> QED
    BY <2>3, <2>4
<1>9. CASE AttemptFails
  <2>0. /\ conn' \in [Transports -> {"unused", "dialing", "open", "broken", "closed"}]
        /\ transport' \in 0..MaxDials
        /\ authRejected' \in BOOLEAN /\ muxConnected' \in BOOLEAN /\ helloSeen' \in BOOLEAN
    BY <1>7, <1>9, Names DEF AttemptFails
  <2>1. PICK c \in {"sleep", "ended"} : pc' = [pc EXCEPT !["reconnect"] = c]
    BY <1>9 DEF AttemptFails
  <2>2. /\ pc' \in [Strands -> {"idle", "dialing", "auth", "restore", "closing", "sleep", "ended"}]
        /\ \A q \in Strands : pc'[q] \in Busy => tr[q] # 0
    BY <1>0, <2>1 DEF DataTypes
  <2>3. attempts' \in 0..MaxAttempts
    BY <1>9, Names DEF AttemptFails, AttemptsLeft, DataTypes
  <2>4. state' \in States
    BY <1>9 DEF AttemptFails, States
  <2>5. reconnectExhausted' \in BOOLEAN
    BY <1>9 DEF AttemptFails
  <2>6. UNCHANGED <<dials, tr, reading, receiveLoopAbort, closeRequested, closePromise,
                    reconnectPromise, authOutcome, outcome, sessionConfirmed,
                    hasEstablishedSession, gateOpen, heartbeat, failure, unconfirmed,
                    connectSent, helloOn, everAuthenticated>>
    BY <1>9 DEF AttemptFails, historyVars
  <2>7. DataTypes'
    BY <2>0, <2>2, <2>3, <2>4, <2>6 DEF DataTypes
  <2>8. FlagTypes'
    BY <2>0, <2>5, <2>6 DEF FlagTypes
  <2> QED
    BY <2>7, <2>8
<1> QED
  BY <1>2, <1>3, <1>4, <1>5, <1>6, <1>8, <1>9

\* A loss keeps the types, whatever else its action does.
LEMMA LossKeepsTypes ==
    ASSUME DataTypes, FlagTypes, NEW confirmed \in BOOLEAN, Loss(confirmed),
           conn' \in [Transports -> {"unused", "dialing", "open", "broken", "closed"}],
           reading' \subseteq reading, helloOn' = helloOn,
           sessionConfirmed' \in BOOLEAN, hasEstablishedSession' \in BOOLEAN
    PROVE  DataTypes' /\ FlagTypes'
<1>1. /\ pc' \in [Strands -> {"idle", "dialing", "auth", "restore", "closing", "sleep", "ended"}]
      /\ \A q \in Strands : pc'[q] \in Busy => tr[q] # 0
      /\ outcome' \in [Strands -> Errors \cup {"pending", "hello"}]
      /\ state' \in States /\ attempts' \in 0..MaxAttempts
      /\ authRejected' \in BOOLEAN /\ reconnectExhausted' \in BOOLEAN
      /\ reconnectPromise' \in BOOLEAN
      /\ heartbeat' = 0 /\ muxConnected' = FALSE /\ helloSeen' = FALSE /\ gateOpen' = FALSE
      /\ UNCHANGED <<transport, dials, receiveLoopAbort, closeRequested, closePromise,
                     authOutcome, tr, failure, unconfirmed, connectSent, everAuthenticated>>
  BY LossTypes
<1>2. heartbeat' \in 0..MaxDials
  BY <1>1, Names
<1>3. DataTypes'
  BY <1>1, <1>2 DEF DataTypes
<1>4. FlagTypes'
  BY <1>1 DEF FlagTypes
<1> QED
  BY <1>3, <1>4

\* Settling the awaited handshake keeps the outcomes' type.
LEMMA SettleTypes ==
    ASSUME DataTypes, NEW v \in Errors \cup {"pending", "hello"}, SettleOutcome(v)
    PROVE  outcome' \in [Strands -> Errors \cup {"pending", "hello"}]
BY DEF SettleOutcome, DataTypes

\* Frames, failures of the transport, close() and the network keep the types.
LEMMA FrameTypes ==
    ASSUME DataTypes, FlagTypes, NEW t \in Transports,
           \/ ReceiveFails(t) \/ StaleFrame(t) \/ HelloFrame(t) \/ RejectedFrame(t)
           \/ OtherFrame(t) \/ MalformedData(t) \/ RefusedFrame(t) \/ TransportBreaks(t)
    PROVE  DataTypes' /\ FlagTypes'
<1>0. /\ conn \in [Transports -> {"unused", "dialing", "open", "broken", "closed"}]
      /\ sessionConfirmed \in BOOLEAN /\ hasEstablishedSession \in BOOLEAN /\ TRUE \in BOOLEAN
  BY DEF DataTypes, FlagTypes
<1>1. CASE ReceiveFails(t)
  <2>1. CASE Loss(sessionConfirmed) /\ UNCHANGED <<conn, sessionConfirmed,
                                                   hasEstablishedSession, helloOn>>
    <3>1. reading' \subseteq reading
      BY <1>1 DEF ReceiveFails
    <3> QED
      BY <1>0, <2>1, <3>1, LossKeepsTypes
  <2>2. CASE UNCHANGED <<state, transport, dials, conn, receiveLoopAbort, closeRequested,
                         closePromise, reconnectPromise, authOutcome, outcome, sessionVars, usabilityVars,
                         heartbeat, pc, tr, failure, unconfirmed, attempts, historyVars>>
    <3>1. reading' \subseteq reading
      BY <1>1 DEF ReceiveFails
    <3>2. DataTypes'
      BY <2>2, <3>1 DEF DataTypes, historyVars
    <3>3. FlagTypes'
      BY <2>2 DEF FlagTypes, sessionVars, usabilityVars, historyVars
    <3> QED
      BY <3>2, <3>3
  <2> QED
    BY <1>1, <2>1, <2>2 DEF ReceiveFails
<1>2. CASE StaleFrame(t)
  <2>1. reading' \subseteq reading
    BY <1>2 DEF StaleFrame
  <2>2. DataTypes'
    BY <1>2, <2>1 DEF StaleFrame, DataTypes, historyVars
  <2>3. FlagTypes'
    BY <1>2 DEF StaleFrame, FlagTypes, sessionVars, usabilityVars, historyVars
  <2> QED
    BY <2>2, <2>3
<1>3. CASE TransportBreaks(t)
  <2>1. conn' \in [Transports -> {"unused", "dialing", "open", "broken", "closed"}]
    BY <1>0, <1>3 DEF TransportBreaks
  <2>2. DataTypes'
    BY <1>3, <2>1 DEF TransportBreaks, DataTypes, historyVars
  <2>3. FlagTypes'
    BY <1>3 DEF TransportBreaks, FlagTypes, sessionVars, usabilityVars, historyVars
  <2> QED
    BY <2>2, <2>3
<1>4. CASE HelloFrame(t)
  <2>1. outcome' \in [Strands -> Errors \cup {"pending", "hello"}]
    <3>1. SettleOutcome("hello") /\ "hello" \in Errors \cup {"pending", "hello"}
      BY <1>4 DEF HelloFrame
    <3> QED
      BY <3>1, SettleTypes
  <2>2. reading' \subseteq reading /\ helloOn' \subseteq Transports
    BY <1>4 DEF HelloFrame, StillReading, DataTypes
  <2>3. DataTypes'
    BY <1>4, <2>1, <2>2 DEF HelloFrame, FrameArrives, DataArrives, DataTypes
  <2>4. FlagTypes'
    BY <1>4 DEF HelloFrame, FrameArrives, DataArrives, FlagTypes
  <2> QED
    BY <2>3, <2>4
<1>5. CASE RejectedFrame(t)
  <2>1. PICK e \in Rejections : authRejected' = (authRejected \/ e = "auth") /\ SettleOutcome(e)
    BY <1>5 DEF RejectedFrame
  <2>2. outcome' \in [Strands -> Errors \cup {"pending", "hello"}]
    <3>1. e \in Errors \cup {"pending", "hello"}
      BY DEF Rejections, Errors
    <3> QED
      BY <2>1, <3>1, SettleTypes
  <2>3. reading' \subseteq reading
    BY <1>5 DEF RejectedFrame, StillReading
  <2>4. DataTypes'
    BY <1>5, <2>2, <2>3 DEF RejectedFrame, FrameArrives, DataArrives, DataTypes
  <2>5. authRejected' \in BOOLEAN
    BY <2>1
  <2>6. FlagTypes'
    BY <1>5, <2>5 DEF RejectedFrame, FrameArrives, DataArrives, FlagTypes, usabilityVars
  <2> QED
    BY <2>4, <2>6
<1>6. CASE OtherFrame(t)
  <2>1. reading' \subseteq reading
    BY <1>6 DEF OtherFrame, StillReading
  <2>2. DataTypes'
    BY <1>6, <2>1 DEF OtherFrame, FrameArrives, DataArrives, DataTypes
  <2>3. FlagTypes'
    BY <1>6 DEF OtherFrame, FrameArrives, DataArrives, FlagTypes, usabilityVars
  <2> QED
    BY <2>2, <2>3
<1>7. ASSUME NEW confirmed \in BOOLEAN, DataArrives(t), Refuse(t, confirmed),
             sessionConfirmed' \in BOOLEAN, hasEstablishedSession' \in BOOLEAN
      PROVE  DataTypes' /\ FlagTypes'
  <2>1. /\ reading' \subseteq reading /\ helloOn' = helloOn
        /\ UNCHANGED <<transport, dials, conn, receiveLoopAbort, closeRequested, closePromise,
                       authOutcome, tr, failure, unconfirmed, connectSent, everAuthenticated>>
    BY <1>7 DEF Refuse, DataArrives
  <2>2. CASE Loss(confirmed)
    BY <1>0, <1>7, <2>1, <2>2, LossKeepsTypes
  <2>3. CASE UNCHANGED <<state, reconnectPromise, outcome, authRejected, reconnectExhausted,
                         usabilityVars, heartbeat, pc, attempts>>
    <3>1. DataTypes'
      BY <2>1, <2>3 DEF DataTypes
    <3>2. FlagTypes'
      BY <1>7, <2>1, <2>3 DEF FlagTypes, usabilityVars
    <3> QED
      BY <3>1, <3>2
  <2> QED
    BY <1>7, <2>2, <2>3 DEF Refuse
<1>8. CASE MalformedData(t)
  BY <1>0, <1>7, <1>8 DEF MalformedData
<1>9. CASE RefusedFrame(t)
  BY <1>0, <1>7, <1>9 DEF RefusedFrame, FrameArrives
<1> QED
  BY <1>1, <1>2, <1>3, <1>4, <1>5, <1>6, <1>8, <1>9

\* The types are kept by every step.
LEMMA TypesStep ==
    ASSUME DataTypes, FlagTypes, [Next]_vars
    PROVE  DataTypes' /\ FlagTypes'
<1>0. /\ conn \in [Transports -> {"unused", "dialing", "open", "broken", "closed"}]
      /\ sessionConfirmed \in BOOLEAN /\ hasEstablishedSession \in BOOLEAN
  BY DEF DataTypes, FlagTypes
<1>1. CASE RequestFails
  BY <1>0, <1>1, LossKeepsTypes DEF RequestFails
<1>2. CASE HeartbeatFails
  <2>1. /\ conn' \in [Transports -> {"unused", "dialing", "open", "broken", "closed"}]
        /\ reading' \subseteq reading /\ helloOn' = helloOn
        /\ sessionConfirmed' \in BOOLEAN /\ hasEstablishedSession' \in BOOLEAN
        /\ Loss(sessionConfirmed)
    BY <1>0, <1>2 DEF HeartbeatFails
  <2> QED
    BY <1>0, <2>1, LossKeepsTypes
<1>3. CASE Close
  <2>1. outcome' \in [Strands -> Errors \cup {"pending", "hello"}]
    <3>1. SettleOutcome("other") /\ "other" \in Errors \cup {"pending", "hello"}
      BY <1>3 DEF Close, Errors
    <3> QED
      BY <3>1, SettleTypes
  <2>2. conn' \in [Transports -> {"unused", "dialing", "open", "broken", "closed"}]
    BY <1>0, <1>3 DEF Close
  <2>3. transport' \in 0..MaxDials /\ heartbeat' \in 0..MaxDials /\ state' \in States
    BY <1>3, Names DEF Close, States
  <2>4. DataTypes'
    BY <1>3, <2>1, <2>2, <2>3 DEF Close, DataTypes, historyVars
  <2>5. FlagTypes'
    BY <1>3 DEF Close, FlagTypes, sessionVars, historyVars
  <2> QED
    BY <2>4, <2>5
<1>5. CASE CloseReturnsEarly
  <2>1. DataTypes'
    BY <1>5 DEF CloseReturnsEarly, DataTypes, historyVars
  <2>2. FlagTypes'
    BY <1>5 DEF CloseReturnsEarly, FlagTypes, sessionVars, usabilityVars, historyVars
  <2> QED
    BY <2>1, <2>2
<1>4. CASE UNCHANGED vars
  <2>1. DataTypes'
    BY <1>4 DEF DataTypes, vars, historyVars
  <2>2. FlagTypes'
    BY <1>4 DEF FlagTypes, vars, sessionVars, usabilityVars, historyVars
  <2> QED
    BY <2>1, <2>2
<1> QED
  BY <1>1, <1>2, <1>3, <1>4, <1>5, StrandTypes, LoopTypes, FrameTypes DEF Next

\* Initially nothing was dialed.
LEMMA TypesInit == Init => DataTypes /\ FlagTypes
<1> SUFFICES ASSUME Init PROVE DataTypes /\ FlagTypes
  OBVIOUS
<1>1. DataTypes
  BY Names DEF Init, DataTypes, States, Errors, Busy
<1>2. FlagTypes
  BY DEF Init, FlagTypes
<1> QED
  BY <1>1, <1>2

\* Every variable of the connection keeps its type, in particular the loop counts no
\* more attempts than reconnect.maxAttempts.
THEOREM ConnectionTypeCorrect == Spec => []TypeOK
<1>1. DataTypes /\ FlagTypes /\ [Next]_vars => (DataTypes /\ FlagTypes)'
  BY TypesStep
<1>2. DataTypes /\ FlagTypes => TypeOK
  <2> SUFFICES ASSUME DataTypes, FlagTypes PROVE TypeOK
    OBVIOUS
  <2>1. /\ <<authRejected, sessionConfirmed, hasEstablishedSession, reconnectExhausted>>
             \in BOOLEAN \X BOOLEAN \X BOOLEAN \X BOOLEAN
        /\ <<muxConnected, helloSeen, gateOpen>> \in BOOLEAN \X BOOLEAN \X BOOLEAN
    BY DEF FlagTypes
  <2>2. /\ receiveLoopAbort \in BOOLEAN /\ closeRequested \in BOOLEAN
        /\ closePromise \in BOOLEAN /\ reconnectPromise \in BOOLEAN /\ everAuthenticated \in BOOLEAN
        /\ unconfirmed \in [Strands -> BOOLEAN]
    BY DEF FlagTypes
  <2>3. tr \in [Strands -> 0..MaxDials] /\ reading \in SUBSET Transports
    BY Names DEF DataTypes
  <2>4. /\ state \in States /\ transport \in 0..MaxDials /\ dials \in 0..MaxDials
        /\ conn \in [Transports -> {"unused", "dialing", "open", "broken", "closed"}]
        /\ authOutcome \in Strands \cup {"none"}
        /\ outcome \in [Strands -> Errors \cup {"pending", "hello"}]
        /\ heartbeat \in 0..MaxDials
        /\ pc \in [Strands -> {"idle", "dialing", "auth", "restore", "closing", "sleep", "ended"}]
        /\ failure \in [Strands -> Errors] /\ attempts \in 0..MaxAttempts
        /\ connectSent \in SUBSET Transports /\ helloOn \in SUBSET Transports
    BY DEF DataTypes
  <2> QED
    BY <2>1, <2>2, <2>3, <2>4 DEF TypeOK
<1> QED
  BY <1>1, <1>2, TypesInit, PTL DEF Spec

--------------------------------------------------------------------------------
(* Whose turn it is *)

\* The loop runs exactly while its promise is set.
LoopPart == pc["reconnect"] # "idle" <=> reconnectPromise

\* While the loop runs, connect() has no attempt of its own: it failed one at most,
\* or its handshake is decided and the loop still sleeps.
TurnPart ==
    /\ pc["connect"] \in {"idle", "dialing", "auth", "closing"}
    /\ pc["reconnect"] # "idle" =>
         \/ pc["connect"] \in {"idle", "closing"}
         \/ pc["reconnect"] = "sleep" /\ HandshakeDecided("connect")

\* connect() works on the current transport, unless close() took it away; while it
\* dials, neither receive loop nor heartbeat can report a loss, nor a request.
DialPart ==
    /\ pc["connect"] \in {"dialing", "auth"} => transport \in {0, tr["connect"]}
    /\ pc["connect"] = "dialing" =>
          /\ tr["connect"] \notin reading /\ heartbeat = 0
          /\ state \in {"Connecting", "Closed"}

\* A handshake of connect() that is still undecided is the one a loss would settle.
HandshakePart ==
    pc["connect"] = "auth" =>
       /\ outcome["connect"] = "hello" => tr["connect"] \in connectSent
       /\ outcome["connect"] = "pending" => state = "Authenticating" /\ authOutcome = "connect"

TurnInv == LoopPart /\ TurnPart /\ DialPart /\ HandshakePart

\* Nothing to show of connect() while it does not work on a transport.
LEMMA QuietTurn ==
    ASSUME pc'["connect"] \in {"idle", "closing"}, LoopPart'
    PROVE  TurnInv'
BY DEF TurnInv, TurnPart, DialPart, HandshakePart

\* A loop past its backoff has the connection to itself.
LEMMA LoopsTurn ==
    ASSUME TurnInv, pc["reconnect"] \notin {"idle", "sleep"}
    PROVE  pc["connect"] \in {"idle", "closing"}
BY DEF TurnInv, TurnPart

\* While connect() dials the loop is not running.
LEMMA DialersTurn ==
    ASSUME TurnInv, pc["connect"] = "dialing"
    PROVE  pc["reconnect"] = "idle"
BY DEF TurnInv, TurnPart, HandshakeDecided

\* A loss decides the handshake that connect() waits for, so the loop that it may
\* start does not dial before connect() has picked the result up.
LEMMA LossTurn ==
    ASSUME DataTypes, TurnInv, NEW confirmed, Loss(confirmed), pc["connect"] # "dialing"
    PROVE  TurnInv'
<1>1. /\ "connect" \in Strands /\ "reconnect" \in Strands
      /\ pc \in [Strands -> {"idle", "dialing", "auth", "restore", "closing", "sleep", "ended"}]
      /\ outcome \in [Strands -> Errors \cup {"pending", "hello"}]
      /\ Errors = {"auth", "version", "abort", "other"}
      /\ authOutcome \in Strands \cup {"none"}
  BY Names DEF DataTypes, Errors
<1>2. /\ pc'["connect"] = pc["connect"]
      /\ pc'["reconnect"] \in {pc["reconnect"], "sleep"}
  BY <1>1 DEF Loss
<1>3. LoopPart'
  BY <1>1 DEF Loss, LoopPart, TurnInv
<1>4. UNCHANGED <<transport, tr, connectSent, authOutcome>>
  BY DEF Loss
<1>5. CASE pc["connect"] = "auth"
  <2>1. outcome'["connect"] # "pending"
    BY <1>1, <1>5 DEF Loss, OutcomeAfterLoss, TurnInv, HandshakePart
  <2>2. outcome'["connect"] \in Errors \cup {outcome["connect"]}
    BY <1>1 DEF Loss, OutcomeAfterLoss
  <2>3. HandshakeDecided("connect")'
    BY <1>1, <1>2, <1>4, <1>5, <2>1, <2>2 DEF HandshakeDecided, TurnInv, HandshakePart
  <2>4. pc["reconnect"] \in {"idle", "sleep"}
    BY <1>5, LoopsTurn
  <2>5. TurnPart'
    BY <1>2, <1>5, <2>3, <2>4 DEF TurnPart
  <2>6. DialPart'
    BY <1>2, <1>4, <1>5 DEF DialPart, TurnInv
  <2>7. HandshakePart'
    BY <1>1, <1>4, <1>5, <2>1, <2>2 DEF HandshakePart, TurnInv
  <2> QED
    BY <1>3, <2>5, <2>6, <2>7 DEF TurnInv
<1>6. CASE pc["connect"] # "auth"
  <2>1. pc'["connect"] \in {"idle", "closing"}
    BY <1>2, <1>6 DEF TurnInv, TurnPart
  <2> QED
    BY <1>3, <2>1, QuietTurn
<1> QED
  BY <1>5, <1>6

\* What the receive loop of a transport reports cannot come while connect() dials.
LEMMA NoDataWhileDialing ==
    ASSUME DataTypes, TurnInv, NEW t \in Transports, t \in reading, transport = t
    PROVE  pc["connect"] # "dialing"
BY Names DEF TurnInv, DialPart

\* Settling the awaited handshake: connect() learns of it.
LEMMA SettleTurn ==
    ASSUME DataTypes, TurnInv, NEW v \in Errors \cup {"hello"}, SettleOutcome(v),
           pc["connect"] = "auth" /\ v = "hello" => tr["connect"] \in connectSent,
           UNCHANGED <<pc, tr, connectSent, reconnectPromise>>,
           pc["connect"] # "dialing" \/ (state' = "Closed" /\ heartbeat' = 0 /\ reading' = reading),
           transport' \in {0, transport}
    PROVE  TurnInv'
<1>1. /\ "connect" \in Strands
      /\ outcome \in [Strands -> Errors \cup {"pending", "hello"}]
      /\ Errors = {"auth", "version", "abort", "other"}
      /\ authOutcome \in Strands \cup {"none"}
  BY Names DEF DataTypes, Errors
<1>2. LoopPart'
  BY DEF LoopPart, TurnInv
<1>3. CASE pc["connect"] = "auth"
  <2>1. outcome'["connect"] # "pending"
    BY <1>1, <1>3 DEF SettleOutcome, TurnInv, HandshakePart
  <2>2. outcome'["connect"] \in {v, outcome["connect"]}
    BY <1>1 DEF SettleOutcome
  <2>3. HandshakeDecided("connect")'
    BY <1>1, <1>3, <2>1, <2>2 DEF HandshakeDecided, TurnInv, HandshakePart
  <2>4. pc["reconnect"] \in {"idle", "sleep"}
    BY <1>3, LoopsTurn
  <2>5. TurnPart'
    BY <1>3, <2>3, <2>4 DEF TurnPart
  <2>6. DialPart'
    BY <1>3 DEF DialPart, TurnInv
  <2>7. HandshakePart'
    BY <1>1, <1>3, <2>1, <2>2 DEF HandshakePart, TurnInv
  <2> QED
    BY <1>2, <2>5, <2>6, <2>7 DEF TurnInv
<1>4. CASE pc["connect"] = "dialing"
  <2>1. pc["reconnect"] = "idle"
    BY <1>4, DialersTurn
  <2>2. TurnPart'
    BY <1>4, <2>1 DEF TurnPart
  <2>3. DialPart'
    BY <1>4 DEF DialPart, TurnInv
  <2>4. HandshakePart'
    BY <1>4 DEF HandshakePart
  <2> QED
    BY <1>2, <2>2, <2>3, <2>4 DEF TurnInv
<1>5. CASE pc["connect"] \notin {"auth", "dialing"}
  BY <1>2, <1>5, QuietTurn DEF TurnInv, TurnPart
<1> QED
  BY <1>3, <1>4, <1>5

\* An action that touches nothing that the invariant is about, except that receive
\* loops may end.
LEMMA SameTurn ==
    ASSUME TurnInv, UNCHANGED <<pc, tr, outcome, authOutcome, state, heartbeat, transport,
                                connectSent, reconnectPromise>>,
           reading' \subseteq reading
    PROVE  TurnInv'
BY DEF TurnInv, LoopPart, TurnPart, DialPart, HandshakePart, HandshakeDecided

\* The strands.
LEMMA StrandTurn ==
    ASSUME DataTypes, TurnInv, NEW p \in Strands,
           \/ DialFails(p) \/ DialSucceeds(p) \/ SendConnect(p) \/ SendConnectFails(p)
           \/ HandshakeFails(p) \/ HandshakeSucceeds(p)
    PROVE  TurnInv'
<1>0. /\ Strands = {"connect", "reconnect"}
      /\ pc \in [Strands -> {"idle", "dialing", "auth", "restore", "closing", "sleep", "ended"}]
      /\ outcome \in [Strands -> Errors \cup {"pending", "hello"}]
      /\ Errors = {"auth", "version", "abort", "other"}
  BY Names DEF DataTypes, Errors
<1>1. reconnectPromise' = reconnectPromise
  BY DEF DialFails, DialSucceeds, SendConnect, SendConnectFails, HandshakeFails, HandshakeSucceeds
<1>2. pc[p] \in {"dialing", "auth"}
  BY DEF DialFails, DialSucceeds, SendConnect, SendConnectFails, HandshakeFails, HandshakeSucceeds,
         HelloSettled
<1>3. \E c \in {"dialing", "auth", "closing", "idle", "restore"} :
        /\ pc' = [pc EXCEPT ![p] = c]
        /\ c = "idle" => p = "connect"
  <2>1. CASE DialFails(p)
    BY <2>1 DEF DialFails, Fail
  <2>2. CASE DialSucceeds(p)
    BY <2>2 DEF DialSucceeds
  <2>3. CASE SendConnect(p) \/ SendConnectFails(p)
    <3>1. pc' = pc /\ pc[p] = "auth"
      BY <2>3 DEF SendConnect, SendConnectFails
    <3>2. pc = [pc EXCEPT ![p] = "auth"]
      BY <1>0, <3>1
    <3> QED
      BY <3>1, <3>2
  <2>4. CASE HandshakeFails(p)
    BY <2>4 DEF HandshakeFails, Fail
  <2>5. CASE HandshakeSucceeds(p)
    BY <2>5 DEF HandshakeSucceeds, Fail
  <2> QED
    BY <2>1, <2>2, <2>3, <2>4, <2>5
<1>4. PICK c \in {"dialing", "auth", "closing", "idle", "restore"} :
        /\ pc' = [pc EXCEPT ![p] = c]
        /\ c = "idle" => p = "connect"
  BY <1>3
<1>5. LoopPart'
  BY <1>0, <1>1, <1>2, <1>4 DEF LoopPart, TurnInv
<1>6. CASE p = "reconnect"
  <2>1. pc["connect"] \in {"idle", "closing"}
    BY <1>2, <1>6, LoopsTurn
  <2>2. pc'["connect"] = pc["connect"]
    BY <1>0, <1>4, <1>6
  <2> QED
    BY <1>5, <2>1, <2>2, QuietTurn
<1>7. CASE p = "connect" /\ (DialFails(p) \/ HandshakeFails(p) \/ HandshakeSucceeds(p))
  <2>1. pc'["connect"] \in {"idle", "closing"}
    BY <1>0, <1>7 DEF DialFails, HandshakeFails, HandshakeSucceeds, Fail
  <2> QED
    BY <1>5, <2>1, QuietTurn
<1>8. CASE p = "connect" /\ DialSucceeds(p)
  <2>1. pc["connect"] = "dialing" /\ pc["reconnect"] = "idle"
    BY <1>8, DialersTurn DEF DialSucceeds
  <2>2. /\ pc'["connect"] = "auth" /\ pc'["reconnect"] = "idle"
        /\ outcome'["connect"] = "pending" /\ state' = "Authenticating" /\ authOutcome' = "connect"
        /\ UNCHANGED <<transport, tr>>
    BY <1>0, <1>8, <2>1 DEF DialSucceeds
  <2> QED
    BY <1>5, <2>1, <2>2 DEF TurnInv, TurnPart, DialPart, HandshakePart
<1>9. CASE p = "connect" /\ SendConnect(p)
  <2>1. /\ UNCHANGED <<pc, tr, outcome, authOutcome, state, heartbeat, transport, reading>>
        /\ connectSent \subseteq connectSent'
    BY <1>9 DEF SendConnect
  <2>2. TurnPart'
    BY <2>1 DEF TurnInv, TurnPart, HandshakeDecided
  <2>3. DialPart' /\ HandshakePart'
    BY <2>1 DEF TurnInv, DialPart, HandshakePart
  <2> QED
    BY <1>5, <2>2, <2>3 DEF TurnInv
<1>10. CASE p = "connect" /\ SendConnectFails(p)
  <2>1. /\ UNCHANGED <<pc, tr, authOutcome, state, heartbeat, transport, reading, connectSent>>
        /\ outcome'["connect"] = "other" /\ pc["connect"] = "auth"
    BY <1>0, <1>10 DEF SendConnectFails, historyVars
  <2>2. HandshakeDecided("connect")' /\ pc["reconnect"] \in {"idle", "sleep"}
    BY <1>0, <2>1, LoopsTurn DEF HandshakeDecided
  <2>3. TurnPart'
    BY <2>1, <2>2 DEF TurnPart
  <2>4. DialPart' /\ HandshakePart'
    BY <2>1 DEF TurnInv, DialPart, HandshakePart
  <2> QED
    BY <1>5, <2>3, <2>4 DEF TurnInv
<1> QED
  BY <1>0, <1>6, <1>7, <1>8, <1>9, <1>10

\* connect(), its abort and its failure, and the steps of the loop.
LEMMA LoopTurn ==
    ASSUME DataTypes, FlagTypes, TurnInv,
           \/ Connect \/ AbortConnect \/ RestoreDone \/ LoopWakes \/ LoopEnds
           \/ ConnectFails \/ AttemptFails
    PROVE  TurnInv'
<1>0. /\ "connect" \in Strands /\ "reconnect" \in Strands
      /\ pc \in [Strands -> {"idle", "dialing", "auth", "restore", "closing", "sleep", "ended"}]
  BY Names DEF DataTypes
<1>1. CASE Connect
  <2>1. Open("connect") /\ ~reconnectPromise
    BY <1>1 DEF Connect, WaitsForReady
  <2>2. /\ transport' = dials' /\ tr'["connect"] = dials' /\ pc'["connect"] = "dialing"
        /\ \A q \in Strands : q # "connect" => pc'[q] = pc[q]
        /\ reading' = reading /\ dials' \notin reading
    BY <1>0, <2>1, OpenTypes
  <2>3. heartbeat' = 0 /\ state' = "Connecting" /\ reconnectPromise' = reconnectPromise
    BY <2>1 DEF Open
  <2>4. pc["reconnect"] = "idle" /\ pc'["reconnect"] = "idle"
    BY <1>0, <2>1, <2>2 DEF TurnInv, LoopPart
  <2>5. LoopPart' /\ TurnPart'
    BY <2>1, <2>2, <2>3, <2>4 DEF LoopPart, TurnPart
  <2>6. DialPart' /\ HandshakePart'
    BY <2>2, <2>3 DEF DialPart, HandshakePart
  <2> QED
    BY <2>5, <2>6 DEF TurnInv
<1>2. CASE AbortConnect
  <2>1. /\ pc'["connect"] = "closing" /\ pc'["reconnect"] = pc["reconnect"]
        /\ reconnectPromise' = reconnectPromise
    BY <1>0, <1>2 DEF AbortConnect, Fail
  <2> QED
    BY <2>1, QuietTurn DEF TurnInv, LoopPart
<1>3. CASE RestoreDone
  <2>1. pc["reconnect"] = "restore" /\ reconnectPromise' = reconnectPromise
    BY <1>3 DEF RestoreDone
  <2>2. pc'["connect"] = pc["connect"] /\ pc'["reconnect"] \in {"closing", "ended"}
    BY <1>0, <1>3 DEF RestoreDone, Fail
  <2> QED
    BY <2>1, <2>2, LoopsTurn, QuietTurn DEF TurnInv, LoopPart
<1>4. CASE LoopWakes
  <2>1. pc["reconnect"] = "sleep" /\ ~HandshakeDecided("connect")
    BY <1>0, <1>4 DEF LoopWakes, Continuations
  <2>2. pc["connect"] \in {"idle", "closing"}
    BY <2>1 DEF TurnInv, TurnPart
  <2>3. /\ pc'["connect"] = pc["connect"] /\ pc'["reconnect"] \in {"dialing", "ended"}
        /\ reconnectPromise' = reconnectPromise
    BY <1>0, <1>4 DEF LoopWakes, Open
  <2> QED
    BY <2>1, <2>2, <2>3, QuietTurn DEF TurnInv, LoopPart
<1>5. CASE LoopEnds
  <2>1. /\ pc["reconnect"] = "ended" /\ pc'["connect"] = pc["connect"] /\ pc'["reconnect"] = "idle"
        /\ reconnectPromise' = FALSE
    BY <1>0, <1>5 DEF LoopEnds
  <2> QED
    BY <2>1, LoopsTurn, QuietTurn DEF LoopPart
<1>6. CASE ConnectFails
  <2>1. /\ pc'["connect"] = "idle" /\ pc'["reconnect"] = pc["reconnect"]
        /\ reconnectPromise' = reconnectPromise
    BY <1>0, <1>6 DEF ConnectFails
  <2> QED
    BY <2>1, QuietTurn DEF TurnInv, LoopPart
<1>7. CASE AttemptFails
  <2>1. pc["reconnect"] = "closing" /\ reconnectPromise' = reconnectPromise
    BY <1>7 DEF AttemptFails, FinishFailure
  <2>2. pc'["connect"] = pc["connect"] /\ pc'["reconnect"] \in {"sleep", "ended"}
    BY <1>0, <1>7 DEF AttemptFails
  <2> QED
    BY <2>1, <2>2, LoopsTurn, QuietTurn DEF TurnInv, LoopPart
<1> QED
  BY <1>1, <1>2, <1>3, <1>4, <1>5, <1>6, <1>7

\* What the receive loops and the network report.
LEMMA FrameTurn ==
    ASSUME DataTypes, TurnInv, NEW t \in Transports,
           \/ ReceiveFails(t) \/ StaleFrame(t) \/ HelloFrame(t) \/ RejectedFrame(t)
           \/ OtherFrame(t) \/ MalformedData(t) \/ RefusedFrame(t) \/ TransportBreaks(t)
    PROVE  TurnInv'
<1>1. CASE ReceiveFails(t)
  <2>1. CASE Loss(sessionConfirmed) /\ transport = t
    BY <1>1, <2>1, LossTurn, NoDataWhileDialing DEF ReceiveFails
  <2>2. CASE ~(Loss(sessionConfirmed) /\ transport = t)
    <3>1. /\ UNCHANGED <<pc, tr, outcome, authOutcome, state, heartbeat, transport, connectSent,
                         reconnectPromise>>
          /\ reading' \subseteq reading
      BY <1>1, <2>2 DEF ReceiveFails, historyVars
    <3> QED
      BY <3>1, SameTurn
  <2> QED
    BY <2>1, <2>2
<1>2. CASE StaleFrame(t) \/ TransportBreaks(t)
  <2>1. /\ UNCHANGED <<pc, tr, outcome, authOutcome, state, heartbeat, transport, connectSent,
                       reconnectPromise>>
        /\ reading' \subseteq reading
    BY <1>2 DEF StaleFrame, TransportBreaks, historyVars
  <2> QED
    BY <2>1, SameTurn
<1>3. ASSUME DataArrives(t)
      PROVE  /\ pc["connect"] # "dialing" /\ t # 0 /\ transport = t
             /\ UNCHANGED <<transport, authOutcome, tr, connectSent>>
             /\ pc["connect"] = "auth" => tr["connect"] = t
  <2>1. t \in reading /\ transport = t /\ UNCHANGED <<transport, authOutcome, tr, connectSent>>
    BY <1>3 DEF DataArrives
  <2>2. pc["connect"] # "dialing" /\ t # 0
    BY <2>1, NoDataWhileDialing, Names
  <2> QED
    BY <2>1, <2>2 DEF TurnInv, DialPart
<1>4. CASE HelloFrame(t)
  <2>1. /\ DataArrives(t) /\ SettleOutcome("hello") /\ t \in connectSent
        /\ UNCHANGED <<pc, reconnectPromise>>
    BY <1>4 DEF HelloFrame, FrameArrives
  <2> QED
    BY <1>3, <2>1, SettleTurn
<1>5. CASE RejectedFrame(t)
  <2>1. PICK e \in Rejections : SettleOutcome(e)
    BY <1>5 DEF RejectedFrame
  <2>2. DataArrives(t) /\ UNCHANGED <<pc, reconnectPromise>>
    BY <1>5 DEF RejectedFrame, FrameArrives
  <2>3. e \in Errors \cup {"hello"} /\ e # "hello"
    BY DEF Rejections, Errors
  <2> QED
    BY <1>3, <2>1, <2>2, <2>3, SettleTurn
<1>6. CASE OtherFrame(t)
  <2>1. /\ UNCHANGED <<pc, tr, outcome, authOutcome, state, heartbeat, transport, connectSent,
                       reconnectPromise>>
        /\ reading' \subseteq reading
    BY <1>6 DEF OtherFrame, FrameArrives, DataArrives, StillReading
  <2> QED
    BY <2>1, SameTurn
<1>7. ASSUME NEW confirmed, DataArrives(t), Refuse(t, confirmed)
      PROVE  TurnInv'
  <2>1. CASE Loss(confirmed)
    BY <1>3, <1>7, <2>1, LossTurn
  <2>2. CASE ~Loss(confirmed)
    <3>1. /\ UNCHANGED <<pc, tr, outcome, authOutcome, state, heartbeat, transport, connectSent,
                         reconnectPromise>>
          /\ reading' \subseteq reading
      BY <1>7, <2>2 DEF Refuse, DataArrives
    <3> QED
      BY <3>1, SameTurn
  <2> QED
    BY <2>1, <2>2
<1>8. CASE MalformedData(t) \/ RefusedFrame(t)
  BY <1>7, <1>8 DEF MalformedData, RefusedFrame, FrameArrives
<1> QED
  BY <1>1, <1>2, <1>4, <1>5, <1>6, <1>8

\* Every step keeps the turns.
LEMMA TurnStep ==
    ASSUME DataTypes, FlagTypes, TurnInv, [Next]_vars
    PROVE  TurnInv'
<1>1. CASE RequestFails
  <2>1. state = "Authenticated" /\ Loss(sessionConfirmed)
    BY <1>1 DEF RequestFails
  <2>2. pc["connect"] # "dialing"
    BY <2>1 DEF TurnInv, DialPart
  <2> QED
    BY <2>1, <2>2, LossTurn
<1>2. CASE HeartbeatFails
  <2>1. heartbeat # 0 /\ Loss(sessionConfirmed)
    BY <1>2 DEF HeartbeatFails
  <2>2. pc["connect"] # "dialing"
    BY <2>1 DEF TurnInv, DialPart
  <2> QED
    BY <2>1, <2>2, LossTurn
<1>3. CASE Close
  <2>1. /\ SettleOutcome("other") /\ UNCHANGED <<pc, tr, connectSent, reconnectPromise, reading>>
        /\ state' = "Closed" /\ heartbeat' = 0 /\ transport' = 0 /\ "other" \in Errors
    BY <1>3 DEF Close, historyVars, Errors
  <2> QED
    BY <2>1, SettleTurn
<1>5. CASE CloseReturnsEarly
  <2>1. UNCHANGED <<pc, tr, outcome, authOutcome, state, heartbeat, transport, connectSent,
                    reconnectPromise, reading>>
    BY <1>5 DEF CloseReturnsEarly, historyVars
  <2> QED
    BY <2>1, SameTurn
<1>4. CASE UNCHANGED vars
  <2>1. UNCHANGED <<pc, tr, outcome, authOutcome, state, heartbeat, transport, connectSent,
                    reconnectPromise, reading>>
    BY <1>4 DEF vars, historyVars
  <2> QED
    BY <2>1, SameTurn
<1> QED
  BY <1>1, <1>2, <1>3, <1>4, <1>5, StrandTurn, LoopTurn, FrameTurn DEF Next

\* The types and the turns are an inductive invariant of the connection.
THEOREM ConnectionCorrect == Spec => [](DataTypes /\ FlagTypes /\ TurnInv)
<1>1. Init => TurnInv
  <2> SUFFICES ASSUME Init PROVE TurnInv
    OBVIOUS
  <2>1. pc["connect"] = "idle" /\ pc["reconnect"] = "idle" /\ ~reconnectPromise
    BY Names DEF Init
  <2> QED
    BY <2>1 DEF TurnInv, LoopPart, TurnPart, DialPart, HandshakePart
<1>2. DataTypes /\ FlagTypes /\ TurnInv /\ [Next]_vars => (DataTypes /\ FlagTypes /\ TurnInv)'
  BY TypesStep, TurnStep
<1> QED
  BY <1>1, <1>2, TypesInit, PTL DEF Spec

\* connect() and the reconnect loop never work on two transports at once: the loop
\* starts when a session is lost, which decides the handshake connect() waits for,
\* and connect() starts only when no loop is pending.
THEOREM ConnectionOneAttempt == Spec => []OneAttemptAtATime
<1>1. DataTypes /\ TurnInv => OneAttemptAtATime
  <2> SUFFICES ASSUME DataTypes, TurnInv PROVE OneAttemptAtATime
    OBVIOUS
  <2>1. pc["connect"] \in {"dialing", "auth", "restore"} =>
          ~(pc["reconnect"] \in {"dialing", "restore", "auth"})
    BY LoopsTurn
  <2>2. pc["reconnect"] \in {"dialing", "auth", "restore"} =>
          ~(pc["connect"] \in {"dialing", "restore", "auth"})
    BY LoopsTurn
  <2> QED
    BY <2>1, <2>2, Names DEF OneAttemptAtATime
<1> QED
  BY <1>1, ConnectionCorrect, PTL

================================================================================
