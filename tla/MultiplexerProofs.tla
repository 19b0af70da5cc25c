--------------------------- MODULE MultiplexerProofs ---------------------------
(***************************************************************************)
(* Proofs about Multiplexer, for every set of requests and calls, any      *)
(* number of sessions and any size of the id space.                        *)
(***************************************************************************)
EXTENDS Multiplexer, FiniteSetTheorems, TLAPS

--------------------------------------------------------------------------------
(* The inductive invariant of ids and slots *)

\* A request that has a frame has an id, belongs to a session that has begun and is
\* not new; one that has none has no id.  A live request and one whose send() was
\* called have a frame.
Lifecycle ==
    \A r \in Requests :
      /\ frame[r] = "none" => corr[r] = 0
      /\ frame[r] # "none" => corr[r] \in Ids /\ sess[r] <= session /\ phase[r] # "new"
      /\ phase[r] \in {"live", "sendFailed"} => frame[r] # "none"
      /\ sending[r] # "none" => frame[r] # "none"

\* The ids given out in this session are below the next one.
IdsBelowNext ==
    \A r \in Requests :
      frame[r] # "none" /\ sess[r] = session =>
        nextCorrelationId = 0 \/ corr[r] < nextCorrelationId

\* The slot of a request of this session is its own or empty.
SlotCurrent ==
    \A r \in Requests :
      frame[r] # "none" /\ sess[r] = session =>
        pendingByCorrelation[corr[r]] \in {r, NoRequest}

\* A request that left a tombstone has failed.
TombstonesSettled == \A r \in discardResponse : phase[r] = "failed"

MuxInv ==
    /\ TypeOK
    /\ Lifecycle
    /\ IdsBelowNext
    /\ SlotCurrent
    /\ TombstonesSettled
    /\ RequestIdsUnique
    /\ SlotOwnership
    /\ ResponseToOwner

LEMMA MuxInit == Init => MuxInv
<1> SUFFICES ASSUME Init PROVE MuxInv
  OBVIOUS
<1> USE DEF Init, Ids
<1>1. TypeOK
  <2>1. session \in 0..MaxSession /\ nextCorrelationId \in 0..MaxId
    BY MaxIdAssumption, MaxSessionAssumption
  <2>2. /\ corr \in [Requests -> 0..MaxId] /\ sess \in [Requests -> 0..MaxSession]
        /\ callId \in [Calls -> 0..MaxId] /\ callSess \in [Calls -> 0..MaxSession]
    BY MaxIdAssumption, MaxSessionAssumption
  <2> QED
    BY <2>1, <2>2 DEF TypeOK, Settled
<1>2. Lifecycle /\ IdsBelowNext /\ SlotCurrent /\ TombstonesSettled
  BY DEF Lifecycle, IdsBelowNext, SlotCurrent, TombstonesSettled
<1>3. RequestIdsUnique /\ SlotOwnership /\ ResponseToOwner
  BY DEF RequestIdsUnique, SlotOwnership, ResponseToOwner
<1> QED
  BY <1>1, <1>2, <1>3 DEF MuxInv

\* allocateCorrelationId() moves to a larger id or to 0.
LEMMA IdAfterProperties ==
    ASSUME NEW i \in Ids
    PROVE  IdAfter(i) \in 0..MaxId /\ (IdAfter(i) = 0 \/ IdAfter(i) > i)
BY MaxIdAssumption DEF IdAfter, Ids

LEMMA SetConnectedStep ==
    ASSUME MuxInv, SetConnected
    PROVE  MuxInv'
<1> USE DEF MuxInv, SetConnected, requestVars, callVars, Ids
<1>1. TypeOK'
  BY MaxIdAssumption, MaxSessionAssumption DEF TypeOK
<1>2. \A r \in Requests : frame[r] # "none" => sess[r] # session'
  BY MaxSessionAssumption DEF TypeOK, Lifecycle
<1>3. Lifecycle' /\ IdsBelowNext' /\ SlotCurrent' /\ TombstonesSettled'
  BY <1>2, MaxSessionAssumption
     DEF TypeOK, Lifecycle, IdsBelowNext, SlotCurrent, TombstonesSettled
<1>4. RequestIdsUnique' /\ SlotOwnership' /\ ResponseToOwner'
  BY DEF RequestIdsUnique, SlotOwnership, ResponseToOwner
<1> QED
  BY <1>1, <1>3, <1>4

\* cancelAll() leaves a state in which the invariant holds.
LEMMA CancelAllStep ==
    ASSUME MuxInv, CancelAll, connected' \in BOOLEAN,
           UNCHANGED <<session, nextCorrelationId, discardResponse, requestVars, sending,
                       got, callVars>>,
           frame' \in [Requests -> {"none", "out", "answered"}],
           \A r \in Requests : frame'[r] = "none" <=> frame[r] = "none"
    PROVE  MuxInv'
<1> USE DEF MuxInv, CancelAll, requestVars, callVars, Ids
<1>1. TypeOK'
  BY DEF TypeOK, Settled
<1>2. \A r \in Requests : /\ phase'[r] = phase[r] \/ (phase[r] = "live" /\ phase'[r] = "failed")
                          /\ phase'[r] # "new" <=> phase[r] # "new"
  BY DEF TypeOK
<1>3. Lifecycle'
  BY <1>2 DEF Lifecycle
<1>4. IdsBelowNext' /\ SlotCurrent'
  BY DEF IdsBelowNext, SlotCurrent, Lifecycle
<1>5. TombstonesSettled'
  BY <1>2 DEF TombstonesSettled, TypeOK
<1>6. RequestIdsUnique' /\ SlotOwnership' /\ ResponseToOwner'
  BY DEF RequestIdsUnique, SlotOwnership, ResponseToOwner
<1> QED
  BY <1>1, <1>3, <1>4, <1>5, <1>6

LEMMA SetDisconnectedStep ==
    ASSUME MuxInv, SetDisconnected
    PROVE  MuxInv'
BY CancelAllStep DEF SetDisconnected, MuxInv, TypeOK

LEMMA IssueRequestStep ==
    ASSUME MuxInv, NEW r \in Requests, IssueRequest(r)
    PROVE  MuxInv'
<1> USE DEF MuxInv, requestVars, callVars
<1> DEFINE i == nextCorrelationId
<1>1. /\ phase[r] = "new"
      /\ i \in Ids
      /\ corr' = [corr EXCEPT ![r] = i]
      /\ sess' = [sess EXCEPT ![r] = session]
      /\ nextCorrelationId' = IdAfter(i)
      /\ pendingByCorrelation' = [pendingByCorrelation EXCEPT ![i] = r]
      /\ timeoutEntries' = timeoutEntries \cup {r}
      /\ late' = IF connected THEN late ELSE late \cup {r}
      /\ phase' = [phase EXCEPT ![r] = "live"]
      /\ sending' = [sending EXCEPT ![r] = "pending"]
      /\ frame' = [frame EXCEPT ![r] = "out"]
      /\ UNCHANGED <<connected, session, discardResponse, got, callId, callSess>>
  BY DEF IssueRequest, TypeOK, Ids
<1>2. frame[r] = "none"
  BY <1>1 DEF Lifecycle, TypeOK
<1>3. nextCorrelationId' \in 0..MaxId /\ (nextCorrelationId' = 0 \/ nextCorrelationId' > i)
  BY <1>1, IdAfterProperties
<1>4. TypeOK'
  BY <1>1, <1>3, MaxIdAssumption DEF TypeOK, Ids, Settled
<1>5. Lifecycle'
  BY <1>1, MaxSessionAssumption DEF Lifecycle, TypeOK
<1>6. \A q \in Requests : frame[q] # "none" /\ sess[q] = session => corr[q] < i /\ corr[q] # i
  BY <1>1, MaxIdAssumption DEF IdsBelowNext, TypeOK, Ids
<1>7. IdsBelowNext'
  BY <1>1, <1>2, <1>3, <1>6, MaxIdAssumption DEF IdsBelowNext, TypeOK, Ids
<1>8. SlotCurrent'
  BY <1>1, <1>6 DEF SlotCurrent, TypeOK, Lifecycle
<1>9. TombstonesSettled'
  BY <1>1 DEF TombstonesSettled, TypeOK
<1>10. RequestIdsUnique'
  <2> SUFFICES ASSUME NEW p \in Requests, NEW q \in Requests,
                      frame'[p] # "none", frame'[q] # "none", sess'[p] = sess'[q]
               PROVE  corr'[p] # 0 /\ (corr'[p] = corr'[q] => p = q)
    BY DEF RequestIdsUnique
  <2>1. CASE p = r /\ q = r
    BY <1>1, <2>1, MaxIdAssumption DEF TypeOK, Ids
  <2>2. CASE p = r /\ q # r
    BY <1>1, <1>6, <2>2, MaxIdAssumption DEF TypeOK, Ids
  <2>3. CASE p # r /\ q = r
    BY <1>1, <1>6, <2>3, MaxIdAssumption DEF TypeOK, Lifecycle, Ids
  <2>4. CASE p # r /\ q # r
    BY <1>1, <2>4 DEF TypeOK, RequestIdsUnique
  <2> QED
    BY <2>1, <2>2, <2>3, <2>4
<1>11. SlotOwnership'
  <2> SUFFICES ASSUME NEW j \in Ids, pendingByCorrelation'[j] # NoRequest
               PROVE  LET q == pendingByCorrelation'[j]
                      IN  corr'[q] = j /\ (phase'[q] = "live" \/ q \in discardResponse')
    BY DEF SlotOwnership
  <2>1. CASE j = i
    BY <1>1, <2>1 DEF TypeOK
  <2>2. CASE j # i
    <3>1. /\ pendingByCorrelation'[j] = pendingByCorrelation[j]
          /\ pendingByCorrelation[j] \in Requests
      BY <1>1, <2>2 DEF TypeOK
    <3>2. pendingByCorrelation[j] # r
      BY <1>1, <3>1 DEF SlotOwnership, TombstonesSettled
    <3> QED
      BY <1>1, <3>1, <3>2 DEF SlotOwnership, TypeOK
  <2> QED
    BY <2>1, <2>2
<1>12. ResponseToOwner'
  BY <1>1 DEF ResponseToOwner
<1> QED
  BY <1>4, <1>5, <1>7, <1>8, <1>9, <1>10, <1>11, <1>12

LEMMA IssueFailsStep ==
    ASSUME MuxInv, NEW r \in Requests, IssueFails(r)
    PROVE  MuxInv'
<1> USE DEF MuxInv, IssueFails, requestVars, callVars
<1>1. TypeOK'
  BY DEF TypeOK, Settled
<1>2. Lifecycle' /\ TombstonesSettled'
  BY DEF TypeOK, Lifecycle, TombstonesSettled
<1>3. IdsBelowNext' /\ SlotCurrent' /\ RequestIdsUnique' /\ ResponseToOwner'
  BY DEF IdsBelowNext, SlotCurrent, RequestIdsUnique, ResponseToOwner
<1>4. SlotOwnership'
  BY DEF TypeOK, SlotOwnership, TombstonesSettled
<1> QED
  BY <1>1, <1>2, <1>3, <1>4

\* failRequest() keeps the invariant, whatever becomes of the promise of send().
LEMMA TombstoneStep ==
    ASSUME MuxInv, NEW r \in Requests, phase[r] = "live", Tombstone(r),
           UNCHANGED <<connected, session, nextCorrelationId, requestVars, frame, got, callVars>>,
           sending' = sending \/ sending' = [sending EXCEPT ![r] = "sent"]
    PROVE  MuxInv'
<1> USE DEF MuxInv, Tombstone, requestVars, callVars
<1>1. TypeOK'
  BY DEF TypeOK, Settled
<1>2. Lifecycle'
  BY DEF TypeOK, Lifecycle
<1>3. TombstonesSettled'
  BY DEF TypeOK, TombstonesSettled
<1>4. IdsBelowNext' /\ SlotCurrent' /\ RequestIdsUnique' /\ ResponseToOwner'
  BY DEF IdsBelowNext, SlotCurrent, RequestIdsUnique, ResponseToOwner
<1>5. SlotOwnership'
  BY DEF TypeOK, SlotOwnership
<1> QED
  BY <1>1, <1>2, <1>3, <1>4, <1>5

LEMMA SendResolvesStep ==
    ASSUME MuxInv, NEW r \in Requests, SendResolves(r)
    PROVE  MuxInv'
<1>1. CASE Finalizes(r) /\ Tombstone(r)
  BY <1>1, TombstoneStep DEF SendResolves, Finalizes
<1>2. CASE UNCHANGED <<pendingByCorrelation, timeoutEntries, phase,
                       discardResponse>>
  <2> USE <1>2 DEF MuxInv, SendResolves, requestVars, callVars
  <2>1. TypeOK' /\ Lifecycle'
    BY DEF TypeOK, Lifecycle
  <2>2. IdsBelowNext' /\ SlotCurrent' /\ RequestIdsUnique' /\ ResponseToOwner'
    BY DEF IdsBelowNext, SlotCurrent, RequestIdsUnique, ResponseToOwner
  <2>3. SlotOwnership' /\ TombstonesSettled'
    BY DEF SlotOwnership, TombstonesSettled
  <2> QED
    BY <2>1, <2>2, <2>3
<1> QED
  BY <1>1, <1>2 DEF SendResolves

LEMMA SendRejectsStep ==
    ASSUME MuxInv, NEW r \in Requests, SendRejects(r)
    PROVE  MuxInv'
<1> USE DEF MuxInv, requestVars, callVars
<1>0. /\ sending[r] = "pending"
      /\ sending' = [sending EXCEPT ![r] = "rejected"]
      /\ UNCHANGED <<connected, session, nextCorrelationId, corr, sess, late,
                     discardResponse, frame, got, callId, callSess>>
  BY DEF SendRejects
<1>1. frame[r] # "none" /\ corr[r] \in Ids
  BY <1>0 DEF Lifecycle, TypeOK
<1>2. CASE /\ phase[r] = "live"
           /\ phase' = [phase EXCEPT ![r] = "sendFailed"]
           /\ pendingByCorrelation' = [pendingByCorrelation EXCEPT ![corr[r]] = NoRequest]
           /\ timeoutEntries' = timeoutEntries \ {r}
  <2>1. TypeOK'
    BY <1>0, <1>1, <1>2 DEF TypeOK, Settled
  <2>2. Lifecycle'
    BY <1>0, <1>2 DEF TypeOK, Lifecycle
  <2>3. TombstonesSettled'
    BY <1>0, <1>2 DEF TypeOK, TombstonesSettled
  <2>4. IdsBelowNext' /\ RequestIdsUnique' /\ ResponseToOwner'
    BY <1>0 DEF IdsBelowNext, RequestIdsUnique, ResponseToOwner
  <2>5. SlotCurrent'
    BY <1>0, <1>1, <1>2 DEF TypeOK, SlotCurrent, Lifecycle
  <2>6. SlotOwnership'
    BY <1>0, <1>1, <1>2 DEF TypeOK, SlotOwnership
  <2> QED
    BY <2>1, <2>2, <2>3, <2>4, <2>5, <2>6
<1>3. CASE UNCHANGED <<phase, pendingByCorrelation, timeoutEntries>>
  <2> USE <1>0, <1>3
  <2>1. TypeOK' /\ Lifecycle'
    BY DEF TypeOK, Lifecycle
  <2>2. IdsBelowNext' /\ SlotCurrent' /\ RequestIdsUnique' /\ ResponseToOwner'
    BY DEF IdsBelowNext, SlotCurrent, RequestIdsUnique, ResponseToOwner
  <2>3. SlotOwnership' /\ TombstonesSettled'
    BY DEF SlotOwnership, TombstonesSettled
  <2> QED
    BY <2>1, <2>2, <2>3
<1> QED
  BY <1>2, <1>3 DEF SendRejects, Finalizes, ClearSlot

LEMMA DispatchFinalStep ==
    ASSUME MuxInv, NEW r \in Requests, DispatchFinal(r)
    PROVE  MuxInv'
<1> USE DEF MuxInv, requestVars, callVars
<1>0. /\ frame[r] = "out" /\ sess[r] = session
      /\ frame' = [frame EXCEPT ![r] = "answered"]
      /\ UNCHANGED <<session, nextCorrelationId, corr, sess, late, sending, callId, callSess>>
  BY DEF DispatchFinal, MayAnswer
<1>1. /\ frame' \in [Requests -> {"none", "out", "answered"}]
      /\ \A q \in Requests : frame'[q] = "none" <=> frame[q] = "none"
  BY <1>0 DEF TypeOK
<1>2. corr[r] \in Ids /\ SlotOf(r) \in {r, NoRequest}
  BY <1>0 DEF Lifecycle, SlotCurrent, SlotOf
<1>3. CASE connected' = FALSE /\ CancelAll /\ UNCHANGED <<discardResponse, got>>
  BY <1>0, <1>1, <1>3, CancelAllStep
<1>4. CASE /\ pendingByCorrelation' = ClearSlot(corr[r])
           /\ UNCHANGED <<connected, timeoutEntries, phase, discardResponse, got>>
  <2> USE <1>0, <1>1, <1>2, <1>4 DEF ClearSlot
  <2>1. TypeOK'
    BY DEF TypeOK
  <2>2. Lifecycle' /\ TombstonesSettled' /\ IdsBelowNext' /\ RequestIdsUnique' /\ ResponseToOwner'
    BY DEF Lifecycle, TombstonesSettled, IdsBelowNext, RequestIdsUnique, ResponseToOwner
  <2>3. SlotCurrent'
    BY DEF TypeOK, SlotCurrent, Lifecycle
  <2>4. SlotOwnership'
    BY DEF TypeOK, SlotOwnership
  <2> QED
    BY <2>1, <2>2, <2>3, <2>4
<1>5. CASE /\ SlotOf(r) = r /\ r \notin discardResponse
           /\ pendingByCorrelation' = ClearSlot(corr[r])
           /\ phase' = [phase EXCEPT ![r] = "resolved"]
           /\ got' = [got EXCEPT ![r] = r]
           /\ timeoutEntries' = timeoutEntries \ {r}
           /\ UNCHANGED <<connected, discardResponse>>
  <2> USE <1>0, <1>1, <1>2, <1>5 DEF ClearSlot
  <2>1. TypeOK'
    BY DEF TypeOK, Settled
  <2>2. Lifecycle'
    BY DEF TypeOK, Lifecycle
  <2>3. TombstonesSettled'
    BY DEF TypeOK, TombstonesSettled
  <2>4. IdsBelowNext' /\ RequestIdsUnique'
    BY DEF IdsBelowNext, RequestIdsUnique
  <2>5. ResponseToOwner'
    BY DEF TypeOK, ResponseToOwner
  <2>6. SlotCurrent'
    BY DEF TypeOK, SlotCurrent, Lifecycle
  <2>7. SlotOwnership'
    BY DEF TypeOK, SlotOwnership
  <2> QED
    BY <2>1, <2>2, <2>3, <2>4, <2>5, <2>6, <2>7
<1> QED
  BY <1>2, <1>3, <1>4, <1>5, NoRequestAssumption DEF DispatchFinal

LEMMA CallStep ==
    ASSUME MuxInv, NEW k \in Calls, AllocateForCall(k) \/ TransmitCall(k)
    PROVE  MuxInv'
<1> USE DEF MuxInv, requestVars, callVars
<1>0. UNCHANGED <<connected, session, pendingByCorrelation, timeoutEntries,
                  phase, discardResponse, corr, sess, late, sending, frame, got>>
  BY DEF AllocateForCall, TransmitCall
<1>1. Lifecycle' /\ SlotCurrent' /\ TombstonesSettled' /\ RequestIdsUnique' /\ SlotOwnership'
      /\ ResponseToOwner'
  BY <1>0 DEF Lifecycle, SlotCurrent, TombstonesSettled, RequestIdsUnique, SlotOwnership,
              ResponseToOwner
<1>2. CASE AllocateForCall(k)
  <2>1. /\ nextCorrelationId \in Ids
        /\ nextCorrelationId' = IdAfter(nextCorrelationId)
        /\ callId' = [callId EXCEPT ![k] = nextCorrelationId]
        /\ callSess' = callSess
    BY <1>2 DEF AllocateForCall, TypeOK, Ids
  <2>2. /\ nextCorrelationId' \in 0..MaxId
        /\ nextCorrelationId' = 0 \/ nextCorrelationId' > nextCorrelationId
    BY <2>1, IdAfterProperties
  <2>3. TypeOK'
    BY <1>0, <2>1, <2>2 DEF TypeOK
  <2>4. IdsBelowNext'
    BY <1>0, <2>1, <2>2, MaxIdAssumption DEF IdsBelowNext, TypeOK, Ids
  <2> QED
    BY <1>1, <2>3, <2>4
<1>3. CASE TransmitCall(k)
  <2>1. TypeOK'
    BY <1>0, <1>3 DEF TypeOK, TransmitCall
  <2>2. IdsBelowNext'
    BY <1>0, <1>3 DEF IdsBelowNext, TransmitCall
  <2> QED
    BY <1>1, <2>1, <2>2
<1> QED
  BY <1>2, <1>3

\* Every step of the multiplexer preserves the invariant.
LEMMA MuxNext == MuxInv /\ [Next]_vars => MuxInv'
<1> SUFFICES ASSUME MuxInv, [Next]_vars PROVE MuxInv'
  OBVIOUS
<1>1. CASE SetConnected
  BY <1>1, SetConnectedStep
<1>2. CASE SetDisconnected
  BY <1>2, SetDisconnectedStep
<1>3. ASSUME NEW r \in Requests, IssueRequest(r) PROVE MuxInv'
  BY <1>3, IssueRequestStep
<1>4. ASSUME NEW r \in Requests, IssueFails(r) PROVE MuxInv'
  BY <1>4, IssueFailsStep
<1>5. ASSUME NEW r \in Requests, Timeout(r) \/ Abort(r) PROVE MuxInv'
  BY <1>5, TombstoneStep DEF Timeout, Abort, Finalizes
<1>6. ASSUME NEW r \in Requests, SendResolves(r) PROVE MuxInv'
  BY <1>6, SendResolvesStep
<1>7. ASSUME NEW r \in Requests, SendRejects(r) PROVE MuxInv'
  BY <1>7, SendRejectsStep
<1>8. ASSUME NEW r \in Requests, DispatchFinal(r) PROVE MuxInv'
  BY <1>8, DispatchFinalStep
<1>9. ASSUME NEW r \in Requests, DispatchInterim(r) PROVE MuxInv'
  BY <1>9, SetDisconnectedStep DEF DispatchInterim
<1>10. ASSUME NEW k \in Calls, AllocateForCall(k) \/ TransmitCall(k) PROVE MuxInv'
  BY <1>10, CallStep
<1>11. CASE UNCHANGED vars
  BY <1>11 DEF vars, requestVars, callVars, MuxInv, TypeOK, Lifecycle, IdsBelowNext, SlotCurrent,
               TombstonesSettled, RequestIdsUnique, SlotOwnership, ResponseToOwner
<1> QED
  BY <1>1, <1>2, <1>3, <1>4, <1>5, <1>6, <1>7, <1>8, <1>9, <1>10, <1>11 DEF Next

--------------------------------------------------------------------------------
(* What follows from it *)

\* The inductive invariant holds in every reachable state of the multiplexer.
THEOREM MuxCorrect == Spec => []MuxInv
BY MuxInit, MuxNext, PTL DEF Spec

\* The multiplexer's variables keep their types.
THEOREM MuxTypeCorrect == Spec => []TypeOK
<1>1. MuxInv => TypeOK
  BY DEF MuxInv
<1> QED
  BY MuxCorrect, <1>1, PTL

\* However responses are reordered, delayed across timeouts and aborts, or the ids
\* start over, nobody is resolved with the response to somebody else's frame.
THEOREM MuxResponseToOwner == Spec => []ResponseToOwner
<1>1. MuxInv => ResponseToOwner
  BY DEF MuxInv
<1> QED
  BY MuxCorrect, <1>1, PTL

\* The requests of one session never share a correlation id, not even at the end of
\* the id space.
THEOREM MuxRequestIdsUnique == Spec => []RequestIdsUnique
<1>1. MuxInv => RequestIdsUnique
  BY DEF MuxInv
<1> QED
  BY MuxCorrect, <1>1, PTL

\* A slot of pendingByCorrelation holds the request with its id, live or as a tombstone.
THEOREM MuxSlotOwnership == Spec => []SlotOwnership
<1>1. MuxInv => SlotOwnership
  BY DEF MuxInv
<1> QED
  BY MuxCorrect, <1>1, PTL

\* finalize() takes effect once: nothing changes the outcome of a settled request.
THEOREM MuxSettledOnce == Spec => SettledOnce
<1> DEFINE Once ==
      \A r \in Requests : phase[r] \in Settled => phase'[r] = phase[r] /\ got'[r] = got[r]
<1>1. ASSUME MuxInv, [Next]_vars PROVE [Once]_vars
  <2> SUFFICES ASSUME NEW p \in Requests, phase[p] \in Settled
               PROVE  phase'[p] = phase[p] /\ got'[p] = got[p]
    OBVIOUS
  <2> USE <1>1 DEF Settled
  <2>0. phase \in [Requests -> {"new", "live"} \cup Settled] /\ got \in [Requests -> Requests \cup {NoRequest}]
    BY DEF MuxInv, TypeOK
  <2>1. CASE SetConnected \/ SetDisconnected
    BY <2>0, <2>1 DEF SetConnected, SetDisconnected, CancelAll
  <2>2. ASSUME NEW r \in Requests, IssueRequest(r) \/ IssueFails(r)
        PROVE  phase'[p] = phase[p] /\ got'[p] = got[p]
    BY <2>0, <2>2 DEF IssueRequest, IssueFails
  <2>3. ASSUME NEW r \in Requests, Timeout(r) \/ Abort(r) \/ SendResolves(r) \/ SendRejects(r)
        PROVE  phase'[p] = phase[p] /\ got'[p] = got[p]
    BY <2>0, <2>3 DEF Timeout, Abort, SendResolves, SendRejects, Tombstone, Finalizes
  <2>4. ASSUME NEW r \in Requests, DispatchFinal(r) \/ DispatchInterim(r)
        PROVE  phase'[p] = phase[p] /\ got'[p] = got[p]
    <3>1. CASE CancelAll /\ got' = got
      BY <2>0, <3>1 DEF CancelAll
    <3>2. CASE phase' = phase /\ got' = got
      BY <3>2
    <3>3. ASSUME NEW q, q = SlotOf(r), q # NoRequest, q \notin discardResponse, MayAnswer(r),
                 phase' = [phase EXCEPT ![q] = "resolved"], got' = [got EXCEPT ![q] = r]
          PROVE  phase'[p] = phase[p] /\ got'[p] = got[p]
      <4>1. corr[r] \in Ids
        BY <3>3 DEF MayAnswer, MuxInv, Lifecycle
      <4>2. phase[q] = "live"
        BY <3>3, <4>1 DEF SlotOf, MuxInv, SlotOwnership
      <4>3. p # q
        BY <4>2
      <4> QED
        BY <2>0, <3>3, <4>3
    <3> QED
      BY <2>4, <3>1, <3>2, <3>3 DEF DispatchFinal, DispatchInterim, SetDisconnected
  <2>5. ASSUME NEW k \in Calls, AllocateForCall(k) \/ TransmitCall(k)
        PROVE  phase'[p] = phase[p] /\ got'[p] = got[p]
    BY <2>5 DEF AllocateForCall, TransmitCall
  <2>6. CASE UNCHANGED vars
    BY <2>6 DEF vars
  <2> QED
    BY <2>1, <2>2, <2>3, <2>4, <2>5, <2>6 DEF Next
<1> QED
  BY <1>1, MuxCorrect, PTL DEF Spec, SettledOnce

--------------------------------------------------------------------------------
(* What becomes of the requests of a session when it ends, late ones included *)

\* A late request has a frame.
LateIssued == \A r \in late : frame[r] # "none"

\* A live request is registered in the connected session, unless it is late or has
\* been robbed of its slot.
LiveRegistered ==
    \A r \in Requests :
      phase[r] = "live" =>
        \/ connected /\ sess[r] = session /\ pendingByCorrelation[corr[r]] = r
        \/ r \in late
        \/ Robbed(r)

\* An occupied slot belongs to a request of the connected session or to a late one.
SlotsOfSession ==
    \A i \in Ids :
      LET r == pendingByCorrelation[i]
      IN  r # NoRequest => (connected /\ sess[r] = session) \/ r \in late

SessionInv ==
    /\ MuxInv
    /\ LateIssued
    /\ LiveRegistered
    /\ SlotsOfSession
    /\ AnswerFindsSlot

LEMMA SessionInit == Init => SessionInv
BY MuxInit DEF Init, SessionInv, LateIssued, LiveRegistered, SlotsOfSession, AnswerFindsSlot

\* Two requests with one id belong to different sessions.
LEMMA SameIdOtherSession ==
    ASSUME MuxInv, NEW r \in Requests, NEW q \in Requests, r # q,
           frame[r] # "none", frame[q] # "none", corr[r] = corr[q]
    PROVE  sess[r] < sess[q] \/ sess[q] < sess[r]
<1>1. sess[r] # sess[q]
  BY DEF MuxInv, RequestIdsUnique
<1> QED
  BY <1>1, MaxSessionAssumption DEF MuxInv, TypeOK

\* Once robbed, a request stays robbed.
LEMMA RobbedStays ==
    ASSUME UNCHANGED <<corr, sess>>, late \subseteq late',
           \A p \in Requests : phase[p] = "sendFailed" => phase'[p] = "sendFailed",
           NEW r \in Requests, Robbed(r)
    PROVE  Robbed(r)'
BY DEF Robbed, Clash

\* The rejection of the send() of a live request robs every request whose slot it
\* clears, except itself.
LEMMA RejectionRobs ==
    ASSUME SessionInv, NEW r \in Requests, phase[r] = "live", phase'[r] = "sendFailed",
           UNCHANGED <<corr, sess, late>>,
           \A p \in Requests : phase[p] = "sendFailed" => phase'[p] = "sendFailed",
           NEW q \in Requests, frame[q] # "none", corr[q] = corr[r], sess[r] < sess[q]
    PROVE  Robbed(q)'
<1>1. frame[r] # "none" /\ sess[q] <= session
  BY DEF SessionInv, MuxInv, Lifecycle
<1>2. CASE r \in late
  BY <1>2 DEF Robbed, Clash
<1>3. CASE Robbed(r)
  <2>1. PICK p \in Requests : Clash(p, r) /\ phase[p] = "sendFailed"
    BY <1>3 DEF Robbed
  <2>2. sess[p] < sess[q]
    BY <2>1, MaxSessionAssumption DEF Clash, SessionInv, MuxInv, TypeOK
  <2> QED
    BY <2>1, <2>2 DEF Robbed, Clash
<1>4. r \in late \/ Robbed(r)
  BY <1>1, MaxSessionAssumption DEF SessionInv, LiveRegistered, MuxInv, TypeOK
<1> QED
  BY <1>2, <1>3, <1>4

LEMMA SessionSetConnected ==
    ASSUME SessionInv, SetConnected
    PROVE  SessionInv'
<1> USE DEF SessionInv, SetConnected, requestVars, callVars
<1>1. MuxInv'
  BY SetConnectedStep
<1>2. \A r \in Requests : Robbed(r)' <=> Robbed(r)
  BY DEF Robbed, Clash
<1>3. LateIssued' /\ LiveRegistered' /\ SlotsOfSession'
  BY <1>2 DEF LateIssued, LiveRegistered, SlotsOfSession
<1>4. AnswerFindsSlot'
  BY MaxSessionAssumption DEF AnswerFindsSlot, MuxInv, TypeOK, Lifecycle
<1> QED
  BY <1>1, <1>3, <1>4

\* The disconnect, by whatever it is caused.
LEMMA SessionCancelAll ==
    ASSUME SessionInv, MuxInv', CancelAll, connected' = FALSE,
           UNCHANGED <<session, corr, sess, late>>,
           \A r \in Requests : frame[r] # "none" => frame'[r] # "none"
    PROVE  SessionInv'
<1> USE DEF SessionInv, CancelAll
<1>1. \A r \in Requests : Robbed(r) => Robbed(r)'
  BY RobbedStays DEF MuxInv, TypeOK
<1>2. ASSUME NEW r \in Requests, phase'[r] = "live" PROVE r \in late' \/ Robbed(r)'
  <2>1. phase[r] = "live" /\ ~Registered(r)
    BY <1>2
  <2>2. corr[r] \in Ids
    BY <2>1 DEF MuxInv, Lifecycle
  <2> QED
    BY <1>1, <2>1, <2>2 DEF LiveRegistered, Registered
<1>3. LiveRegistered'
  BY <1>2 DEF LiveRegistered
<1>4. LateIssued' /\ SlotsOfSession' /\ AnswerFindsSlot'
  BY DEF LateIssued, SlotsOfSession, AnswerFindsSlot, Ids, MuxInv, TypeOK
<1> QED
  BY <1>3, <1>4

LEMMA SessionSetDisconnected ==
    ASSUME SessionInv, SetDisconnected
    PROVE  SessionInv'
BY SessionCancelAll, SetDisconnectedStep DEF SetDisconnected, SessionInv, requestVars

LEMMA SessionIssueRequest ==
    ASSUME SessionInv, NEW r \in Requests, IssueRequest(r)
    PROVE  SessionInv'
<1> USE DEF SessionInv, requestVars, callVars
<1> DEFINE i == nextCorrelationId
<1>1. /\ phase[r] = "new"
      /\ i \in Ids
      /\ corr' = [corr EXCEPT ![r] = i]
      /\ sess' = [sess EXCEPT ![r] = session]
      /\ pendingByCorrelation' = [pendingByCorrelation EXCEPT ![i] = r]
      /\ phase' = [phase EXCEPT ![r] = "live"]
      /\ frame' = [frame EXCEPT ![r] = "out"]
      /\ late' = IF connected THEN late ELSE late \cup {r}
      /\ UNCHANGED <<connected, session>>
  BY DEF IssueRequest, MuxInv, TypeOK, Ids
<1>2. MuxInv'
  BY IssueRequestStep
<1>3. frame[r] = "none" /\ corr[r] = 0
  BY <1>1 DEF MuxInv, Lifecycle, TypeOK
<1>4. \A q \in Requests : frame[q] # "none" /\ sess[q] = session => corr[q] # i
  BY <1>1, MaxIdAssumption DEF MuxInv, IdsBelowNext, TypeOK, Ids
<1>5. ASSUME NEW q \in Requests, q # r, Robbed(q) PROVE Robbed(q)'
  BY <1>1, <1>3, <1>5 DEF Robbed, Clash, LateIssued, MuxInv, TypeOK
<1>6. LateIssued'
  BY <1>1 DEF LateIssued, MuxInv, TypeOK
<1>7. LiveRegistered'
  <2> SUFFICES ASSUME NEW q \in Requests, q # r, phase[q] = "live"
               PROVE  \/ /\ connected /\ sess[q] = session
                         /\ pendingByCorrelation'[corr[q]] = q
                      \/ q \in late'
                      \/ Robbed(q)'
    BY <1>1 DEF LiveRegistered, MuxInv, TypeOK
  <2>1. frame[q] # "none" /\ corr[q] \in Ids
    BY DEF MuxInv, Lifecycle
  <2>2. CASE connected /\ sess[q] = session /\ pendingByCorrelation[corr[q]] = q
    BY <1>1, <1>4, <2>1, <2>2 DEF MuxInv, TypeOK
  <2>3. CASE q \in late \/ Robbed(q)
    BY <1>1, <1>5, <2>3
  <2> QED
    BY <2>2, <2>3 DEF LiveRegistered
<1>8. SlotsOfSession'
  BY <1>1 DEF MuxInv, TypeOK, SlotsOfSession
<1>9. AnswerFindsSlot'
  <2> SUFFICES ASSUME NEW q \in Requests, q # r, connected, frame[q] = "out", sess[q] = session
               PROVE  \/ pendingByCorrelation'[corr[q]] = q \/ phase[q] = "sendFailed"
                      \/ Robbed(q)'
    BY <1>1 DEF AnswerFindsSlot, MuxInv, TypeOK
  <2>1. corr[q] \in Ids /\ corr[q] # i
    BY <1>4 DEF MuxInv, Lifecycle
  <2> QED
    BY <1>1, <1>5, <2>1 DEF AnswerFindsSlot, MuxInv, TypeOK
<1> QED
  BY <1>2, <1>6, <1>7, <1>8, <1>9

LEMMA SessionIssueFails ==
    ASSUME SessionInv, NEW r \in Requests, IssueFails(r)
    PROVE  SessionInv'
<1> USE DEF SessionInv, IssueFails, requestVars, callVars
<1>1. MuxInv'
  BY IssueFailsStep
<1>2. \A q \in Requests : Robbed(q) => Robbed(q)'
  BY RobbedStays DEF MuxInv, TypeOK
<1>3. LateIssued' /\ LiveRegistered' /\ SlotsOfSession' /\ AnswerFindsSlot'
  BY <1>2 DEF LateIssued, LiveRegistered, SlotsOfSession, AnswerFindsSlot, MuxInv, TypeOK
<1> QED
  BY <1>1, <1>3

\* failRequest() leaves the slot for the answer.
LEMMA SessionTombstone ==
    ASSUME SessionInv, MuxInv', NEW r \in Requests, phase[r] = "live", Tombstone(r),
           UNCHANGED <<connected, session, corr, sess, frame, late>>
    PROVE  SessionInv'
<1> USE DEF SessionInv, Tombstone
<1>1. \A q \in Requests : Robbed(q) => Robbed(q)'
  BY RobbedStays DEF MuxInv, TypeOK
<1>2. LateIssued' /\ LiveRegistered'
  BY <1>1 DEF LateIssued, LiveRegistered, MuxInv, TypeOK
<1>3. SlotsOfSession' /\ AnswerFindsSlot'
  BY <1>1 DEF SlotsOfSession, AnswerFindsSlot, MuxInv, TypeOK
<1> QED
  BY <1>2, <1>3

\* A step that touches neither slots nor outcomes.
LEMMA SessionUntouched ==
    ASSUME SessionInv, MuxInv',
           UNCHANGED <<connected, session, corr, sess, frame, late, phase, pendingByCorrelation>>
    PROVE  SessionInv'
BY DEF SessionInv, LateIssued, LiveRegistered, SlotsOfSession, AnswerFindsSlot, Robbed, Clash

LEMMA SessionSendResolves ==
    ASSUME SessionInv, NEW r \in Requests, SendResolves(r)
    PROVE  SessionInv'
<1>1. MuxInv' /\ UNCHANGED <<connected, session, corr, sess, frame, late>>
  BY SendResolvesStep DEF SendResolves, SessionInv, requestVars
<1>2. CASE Finalizes(r) /\ Tombstone(r)
  BY <1>1, <1>2, SessionTombstone DEF Finalizes
<1>3. CASE UNCHANGED <<pendingByCorrelation, timeoutEntries, phase, discardResponse>>
  BY <1>1, <1>3, SessionUntouched
<1> QED
  BY <1>2, <1>3 DEF SendResolves

LEMMA SessionSendRejects ==
    ASSUME SessionInv, NEW r \in Requests, SendRejects(r)
    PROVE  SessionInv'
<1> USE DEF SessionInv
<1>0. MuxInv' /\ UNCHANGED <<connected, session, corr, sess, frame, late>>
  BY SendRejectsStep DEF SendRejects, requestVars
<1>1. CASE /\ phase[r] = "live"
           /\ phase' = [phase EXCEPT ![r] = "sendFailed"]
           /\ pendingByCorrelation' = ClearSlot(corr[r])
  <2>0. frame[r] # "none" /\ corr[r] \in Ids /\ phase'[r] = "sendFailed"
    BY <1>1 DEF MuxInv, Lifecycle, TypeOK
  <2>1. \A q \in Requests : phase[q] = "sendFailed" => phase'[q] = "sendFailed"
    BY <1>1 DEF MuxInv, TypeOK
  <2>2. \A q \in Requests : Robbed(q) => Robbed(q)'
    BY <1>0, <2>1, RobbedStays
  <2>3. ASSUME NEW q \in Requests, q # r, frame[q] # "none", sess[q] = session, corr[q] = corr[r]
        PROVE  Robbed(q)'
    <3>1. sess[r] < sess[q]
      BY <2>0, <2>3, SameIdOtherSession, MaxSessionAssumption DEF MuxInv, Lifecycle, TypeOK
    <3> QED
      BY <1>0, <1>1, <2>0, <2>1, <2>3, <3>1, RejectionRobs
  <2>4. LiveRegistered'
    <3> SUFFICES ASSUME NEW q \in Requests, q # r, phase[q] = "live"
                 PROVE  \/ connected /\ sess[q] = session /\ pendingByCorrelation'[corr[q]] = q
                        \/ q \in late
                        \/ Robbed(q)'
      BY <1>0, <1>1 DEF LiveRegistered, MuxInv, TypeOK
    <3>1. frame[q] # "none" /\ corr[q] \in Ids
      BY DEF MuxInv, Lifecycle
    <3> QED
      BY <1>1, <2>2, <2>3, <3>1 DEF LiveRegistered, ClearSlot, MuxInv, TypeOK
  <2>5. SlotsOfSession'
    BY <1>0, <1>1, <2>0 DEF SlotsOfSession, ClearSlot, MuxInv, TypeOK
  <2>6. AnswerFindsSlot'
    <3> SUFFICES ASSUME NEW q \in Requests, q # r, connected, frame[q] = "out", sess[q] = session
                 PROVE  \/ pendingByCorrelation'[corr[q]] = q \/ phase[q] = "sendFailed"
                        \/ Robbed(q)'
      BY <1>0, <1>1 DEF AnswerFindsSlot, MuxInv, TypeOK
    <3>1. corr[q] \in Ids
      BY DEF MuxInv, Lifecycle
    <3> QED
      BY <1>1, <2>2, <2>3, <3>1 DEF AnswerFindsSlot, ClearSlot, MuxInv, TypeOK
  <2>7. LateIssued'
    BY <1>0 DEF LateIssued
  <2> QED
    BY <1>0, <2>4, <2>5, <2>6, <2>7
<1>2. CASE UNCHANGED <<phase, pendingByCorrelation, timeoutEntries>>
  BY <1>0, <1>2, SessionUntouched
<1> QED
  BY <1>1, <1>2 DEF SendRejects, Finalizes

LEMMA SessionDispatchFinal ==
    ASSUME SessionInv, NEW r \in Requests, DispatchFinal(r)
    PROVE  SessionInv'
<1> USE DEF SessionInv
<1>0. /\ MuxInv'
      /\ frame[r] = "out" /\ sess[r] = session
      /\ frame' = [frame EXCEPT ![r] = "answered"]
      /\ UNCHANGED <<session, corr, sess, late>>
  BY DispatchFinalStep DEF DispatchFinal, MayAnswer, requestVars
<1>1. corr[r] \in Ids /\ SlotOf(r) \in {r, NoRequest}
  BY <1>0 DEF MuxInv, Lifecycle, SlotCurrent, SlotOf
<1>2. \A q \in Requests : frame[q] # "none" => frame'[q] # "none"
  BY <1>0 DEF MuxInv, TypeOK
<1>3. CASE connected' = FALSE /\ CancelAll
  BY <1>0, <1>2, <1>3, SessionCancelAll
<1>4. ASSUME SlotOf(r) = r, pendingByCorrelation' = ClearSlot(corr[r]), connected' = connected,
             \/ phase' = phase /\ phase[r] # "live"
             \/ phase[r] = "live" /\ phase' = [phase EXCEPT ![r] = "resolved"]
      PROVE  SessionInv'
  <2>1. \A q \in Requests : phase[q] = "sendFailed" => phase'[q] = "sendFailed"
    BY <1>4 DEF MuxInv, TypeOK
  <2>2. \A q \in Requests : Robbed(q) => Robbed(q)'
    BY <1>0, <2>1, RobbedStays
  <2>3. LiveRegistered'
    <3> SUFFICES ASSUME NEW q \in Requests, q # r, phase[q] = "live"
                 PROVE  \/ connected /\ sess[q] = session /\ pendingByCorrelation'[corr[q]] = q
                        \/ q \in late
                        \/ Robbed(q)'
      BY <1>0, <1>4 DEF LiveRegistered, MuxInv, TypeOK
    <3>1. frame[q] # "none" /\ corr[q] \in Ids
      BY DEF MuxInv, Lifecycle
    <3>2. pendingByCorrelation[corr[q]] = q => corr[q] # corr[r]
      BY <1>4 DEF SlotOf
    <3> QED
      BY <1>4, <2>2, <3>1, <3>2 DEF LiveRegistered, ClearSlot, MuxInv, TypeOK
  <2>4. SlotsOfSession'
    BY <1>0, <1>1, <1>4 DEF SlotsOfSession, ClearSlot, MuxInv, TypeOK
  <2>5. AnswerFindsSlot'
    <3> SUFFICES ASSUME NEW q \in Requests, q # r, connected, frame[q] = "out", sess[q] = session
                 PROVE  \/ pendingByCorrelation'[corr[q]] = q \/ phase'[q] = "sendFailed"
                        \/ Robbed(q)'
      BY <1>0, <1>4 DEF AnswerFindsSlot, MuxInv, TypeOK
    <3>1. corr[q] \in Ids /\ corr[q] # corr[r]
      BY <1>0 DEF MuxInv, Lifecycle, RequestIdsUnique
    <3> QED
      BY <1>4, <2>1, <2>2, <3>1 DEF AnswerFindsSlot, ClearSlot, MuxInv, TypeOK
  <2>6. LateIssued'
    BY <1>0, <1>2 DEF LateIssued, MuxInv, TypeOK
  <2> QED
    BY <1>0, <2>3, <2>4, <2>5, <2>6
<1>5. ASSUME SlotOf(r) = r, r \in discardResponse PROVE phase[r] # "live"
  BY <1>5 DEF MuxInv, TombstonesSettled
<1>6. ASSUME SlotOf(r) = r, r \notin discardResponse PROVE phase[r] = "live"
  BY <1>1, <1>6, NoRequestAssumption DEF SlotOf, MuxInv, SlotOwnership
<1> QED
  BY <1>1, <1>3, <1>4, <1>5, <1>6, NoRequestAssumption DEF DispatchFinal

\* Every step preserves the invariant of sessions.
LEMMA SessionNext == SessionInv /\ [Next]_vars => SessionInv'
<1> SUFFICES ASSUME SessionInv, [Next]_vars PROVE SessionInv'
  OBVIOUS
<1>0. MuxInv'
  BY MuxNext DEF SessionInv
<1>1. CASE SetConnected
  BY <1>1, SessionSetConnected
<1>2. CASE SetDisconnected
  BY <1>2, SessionSetDisconnected
<1>3. ASSUME NEW r \in Requests, IssueRequest(r) PROVE SessionInv'
  BY <1>3, SessionIssueRequest
<1>4. ASSUME NEW r \in Requests, IssueFails(r) PROVE SessionInv'
  BY <1>4, SessionIssueFails
<1>5. ASSUME NEW r \in Requests, Timeout(r) \/ Abort(r) PROVE SessionInv'
  BY <1>0, <1>5, SessionTombstone DEF Timeout, Abort, Finalizes, requestVars
<1>6. ASSUME NEW r \in Requests, SendResolves(r) PROVE SessionInv'
  BY <1>6, SessionSendResolves
<1>7. ASSUME NEW r \in Requests, SendRejects(r) PROVE SessionInv'
  BY <1>7, SessionSendRejects
<1>8. ASSUME NEW r \in Requests, DispatchFinal(r) PROVE SessionInv'
  BY <1>8, SessionDispatchFinal
<1>9. ASSUME NEW r \in Requests, DispatchInterim(r) PROVE SessionInv'
  BY <1>9, SessionSetDisconnected DEF DispatchInterim
<1>calls. CASE (\E k \in Calls : AllocateForCall(k) \/ TransmitCall(k)) \/ UNCHANGED vars
  BY <1>0, <1>calls, SessionUntouched DEF AllocateForCall, TransmitCall, requestVars, vars
<1> QED
  BY <1>1, <1>2, <1>3, <1>4, <1>5, <1>6, <1>7, <1>8, <1>9, <1>calls DEF Next

\* The invariant of sessions holds in every reachable state.
THEOREM SessionCorrect == Spec => []SessionInv
BY SessionInit, SessionNext, PTL DEF Spec

\* No timeout, abort or other traffic turns the answer to a frame of a live session
\* into a protocol error, but the rejected send() of a late request with its id.
THEOREM MuxAnswerFindsSlot == Spec => []AnswerFindsSlot
<1>1. SessionInv => AnswerFindsSlot
  BY DEF SessionInv
<1> QED
  BY SessionCorrect, <1>1, PTL

\* setDisconnected() leaves no request waiting, but late ones and those they robbed.
THEOREM MuxDisconnectFailsAll == Spec => []DisconnectFailsAll
<1>1. SessionInv => DisconnectFailsAll
  BY DEF SessionInv, LiveRegistered, DisconnectFailsAll
<1> QED
  BY SessionCorrect, <1>1, PTL

\* A tombstone stays until its own late response or a disconnect removes it, or a
\* late request and its successor under the same id get into each other's way.
THEOREM MuxTombstonesStay == Spec => TombstonesStay
<1> DEFINE Excused(r) == \/ ~connected'
                         \/ frame[r] = "out" /\ frame'[r] = "answered"
                         \/ Overwritten(r)'
                         \/ Robbed(r)'
           Stay == \A r \in discardResponse, i \in Ids :
                     pendingByCorrelation[i] = r /\ pendingByCorrelation'[i] # r => Excused(r)
<1>1. ASSUME SessionInv, [Next]_vars PROVE [Stay]_vars
  <2> SUFFICES ASSUME NEW p \in discardResponse, NEW i \in Ids,
                      pendingByCorrelation[i] = p, pendingByCorrelation'[i] # p, connected'
               PROVE  Excused(p)
    OBVIOUS
  <2> HIDE DEF Excused
  <2> USE <1>1 DEF SessionInv
  <2>0. /\ p \in Requests /\ corr[p] = i /\ phase[p] = "failed" /\ frame[p] # "none"
        /\ sess[p] <= session
        /\ (connected /\ sess[p] = session) \/ p \in late
    BY NoRequestAssumption, MaxIdAssumption
       DEF MuxInv, TypeOK, SlotOwnership, TombstonesSettled, SlotsOfSession, Lifecycle, Ids
  <2>quiet. CASE \/ SetConnected \/ UNCHANGED vars
                 \/ \E r \in Requests : IssueFails(r) \/ Timeout(r) \/ Abort(r) \/ SendResolves(r)
                 \/ \E k \in Calls : AllocateForCall(k) \/ TransmitCall(k)
    BY <2>quiet DEF SetConnected, vars, IssueFails, Timeout, Abort, SendResolves, Tombstone,
                    AllocateForCall, TransmitCall
  <2>loss. ASSUME SetDisconnected \/ \E r \in Requests : DispatchInterim(r) PROVE FALSE
    BY <2>loss DEF SetDisconnected, DispatchInterim
  <2>issue. ASSUME NEW r \in Requests, IssueRequest(r) PROVE Excused(p)
    <3>1. /\ nextCorrelationId = i /\ connected' = connected
          /\ corr' = [corr EXCEPT ![r] = i] /\ sess' = [sess EXCEPT ![r] = session]
          /\ late \subseteq late' /\ phase[r] = "new"
      BY <2>issue DEF IssueRequest, MuxInv, TypeOK, Ids
    <3>2. sess[p] # session
      BY <2>0, <3>1, MaxIdAssumption DEF MuxInv, IdsBelowNext, TypeOK, Ids
    <3>3. p \in late /\ p # r /\ sess[p] < session
      BY <2>0, <3>1, <3>2, MaxSessionAssumption DEF MuxInv, TypeOK
    <3>4. Clash(p, r)'
      BY <2>0, <3>1, <3>3 DEF Clash, MuxInv, TypeOK
    <3> QED
      BY <3>4 DEF Excused, Overwritten
  <2>reject. ASSUME NEW r \in Requests, SendRejects(r) PROVE Excused(p)
    <3>1. /\ phase[r] = "live" /\ corr[r] = i /\ phase' = [phase EXCEPT ![r] = "sendFailed"]
          /\ UNCHANGED <<connected, corr, sess, late>>
      BY <2>reject DEF SendRejects, Finalizes, ClearSlot, MuxInv, TypeOK, requestVars
    <3>2. /\ frame[r] # "none" /\ r # p /\ sess[r] <= session
          /\ phase'[r] = "sendFailed"
          /\ \A q \in Requests : phase[q] = "sendFailed" => phase'[q] = "sendFailed"
      BY <2>0, <3>1 DEF MuxInv, Lifecycle, TypeOK
    <3>3. CASE sess[r] < sess[p]
      BY <2>0, <3>1, <3>2, <3>3, RejectionRobs DEF Excused
    <3>4. CASE sess[p] < sess[r]
      <4>1. p \in late
        BY <2>0, <3>2, <3>4, MaxSessionAssumption DEF MuxInv, TypeOK
      <4> QED
        BY <2>0, <3>1, <3>4, <4>1 DEF Excused, Overwritten, Clash
    <3> QED
      BY <2>0, <3>1, <3>2, <3>3, <3>4, SameIdOtherSession
  <2>final. ASSUME NEW r \in Requests, DispatchFinal(r) PROVE Excused(p)
    <3>1. /\ frame[r] = "out" /\ sess[r] = session
          /\ frame' = [frame EXCEPT ![r] = "answered"]
          /\ pendingByCorrelation' = ClearSlot(corr[r])
      BY <2>final DEF DispatchFinal, MayAnswer
    <3>2. corr[r] = i
      BY <3>1 DEF ClearSlot, MuxInv, TypeOK
    <3>3. r = p
      BY <2>0, <3>1, <3>2, NoRequestAssumption DEF MuxInv, SlotCurrent
    <3> QED
      BY <3>1, <3>3 DEF Excused, MuxInv, TypeOK
  <2> QED
    BY <2>quiet, <2>loss, <2>issue, <2>reject, <2>final DEF Next
<1> QED
  BY <1>1, SessionCorrect, PTL DEF Spec, TombstonesStay

================================================================================
