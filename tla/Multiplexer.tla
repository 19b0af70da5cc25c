------------------------------ MODULE Multiplexer ------------------------------
(***************************************************************************)
(* The request multiplexer of src/client/multiplexer.ts: requests of one   *)
(* connection share a transport, each labelled with a correlation id, and  *)
(* responses come back in any order.  A request ends by its response, by   *)
(* its timeout, by its caller's abort, by a rejected send() or by the loss *)
(* of the connection; a request that ends while its frame may be on the    *)
(* wire leaves a tombstone in its slot, so that a late response is         *)
(* consumed instead of being taken for an error or for somebody else's.    *)
(*                                                                         *)
(* HELLO is accepted for wire version 3 only (connection.ts), so           *)
(* correlationEnabled is always true when requests are issued: the         *)
(* per-type FIFO and the uncorrelated lanes are dead code and left out.    *)
(*                                                                         *)
(* A session is the life of one authenticated transport: setConnected()    *)
(* starts the next one and restarts the ids at 1.  The broker is the       *)
(* environment: it may answer any frame it was sent in the current         *)
(* session, with interim responses and one final response, in any order,   *)
(* or never, and a frame may reach it although send() was rejected.        *)
(*                                                                         *)
(* A request that was granted its gate slot just before the connection was *)
(* lost is registered just after the loss, under an id of the old session  *)
(* (connection.ts, requestInternal): such late requests, and the requests  *)
(* of the next session that are given the same id, are the exceptions that *)
(* the properties below name.                                              *)
(***************************************************************************)
EXTENDS Integers, FiniteSets

CONSTANTS
    Requests,     \* calls of request(), each made once
    Calls,        \* calls of sendCorrelated() (RPC), each made once
    NoRequest,    \* an empty slot
    MaxId,        \* the largest correlation id; stands for 2^64 - 1
    MaxSession    \* bound on the number of sessions

ASSUME RequestsFinite == IsFiniteSet(Requests)
ASSUME NoRequestAssumption == NoRequest \notin Requests
ASSUME MaxIdAssumption == MaxId \in Nat \ {0}
ASSUME MaxSessionAssumption == MaxSession \in Nat

VARIABLES
    connected,             \* state = Authenticated, as the multiplexer sees it
    session,               \* number of setConnected() calls so far
    nextCorrelationId,     \* 0 once the ids of the session are exhausted
    pendingByCorrelation,  \* slot -> the request registered there, or NoRequest
    timeoutEntries,        \* requests in the timeout heap
    phase,                 \* "new", "live", or how the request was settled
    discardResponse,       \* requests whose slot is a tombstone
    corr,                  \* correlation id of a request, 0 before it has one
    sess,                  \* session whose transport carries the request
    sending,               \* the promise of send(): "none", "pending", "sent", "rejected"
    frame,                 \* "none", "out" (the broker may answer it), "answered"
    got,                   \* the request whose response a request was resolved with
    callId,                \* id that sendCorrelated() took for a call, 0 before
    callSess,              \* session a call's frame was sent in, 0 before
    late                   \* history: requests registered without a connection

vars == <<connected, session, nextCorrelationId, pendingByCorrelation, timeoutEntries, phase, discardResponse, corr, sess, sending, frame, got,
          callId, callSess, late>>

requestVars == <<corr, sess, late>>
callVars == <<callId, callSess>>

Ids == 1..MaxId
Settled == {"resolved", "failed", "sendFailed"}

Init ==
    /\ connected = FALSE
    /\ session = 0
    /\ nextCorrelationId = 1
    /\ pendingByCorrelation = [i \in Ids |-> NoRequest]
    /\ timeoutEntries = {}
    /\ phase = [r \in Requests |-> "new"]
    /\ discardResponse = {}
    /\ corr = [r \in Requests |-> 0]
    /\ sess = [r \in Requests |-> 0]
    /\ sending = [r \in Requests |-> "none"]
    /\ frame = [r \in Requests |-> "none"]
    /\ got = [r \in Requests |-> NoRequest]
    /\ callId = [k \in Calls |-> 0]
    /\ callSess = [k \in Calls |-> 0]
    /\ late = {}

--------------------------------------------------------------------------------
(* Session boundaries *)

\* setConnected(): a new session starts numbering its requests at 1.
SetConnected ==
    /\ ~connected
    /\ session < MaxSession
    /\ connected' = TRUE
    /\ session' = session + 1
    /\ nextCorrelationId' = 1
    /\ UNCHANGED <<pendingByCorrelation, timeoutEntries, phase,
                   discardResponse, requestVars, sending, frame, got, callVars>>

Registered(r) == \E i \in Ids : pendingByCorrelation[i] = r


\* cancelAll(): every registered request that is not settled is rejected, every
\* slot and the timeout heap are emptied.
CancelAll ==
    /\ pendingByCorrelation' = [i \in Ids |-> NoRequest]
    /\ phase' = [r \in Requests |->
                   IF phase[r] = "live" /\ Registered(r) THEN "failed" ELSE phase[r]]
    /\ timeoutEntries' = {}

\* setDisconnected(), called on every loss of the connection, on close and on a
\* failed connection attempt.
SetDisconnected ==
    /\ connected' = FALSE
    /\ CancelAll
    /\ UNCHANGED <<session, nextCorrelationId, discardResponse, requestVars, sending,
                   frame, got, callVars>>

--------------------------------------------------------------------------------
(* Issuing a request *)

\* allocateCorrelationId(): the id after i, 0 when i was the last one.
IdAfter(i) == IF i = MaxId THEN 0 ELSE i + 1

\* request() does not look at the connection's state: its caller checked it before
\* it waited for the gate, and the transport of the last session is still there.
MayIssue == session > 0

\* issueRequest(): take an id, register in its slot and in the timeout heap, and
\* start send(), whose frame goes to the transport of the current session.
IssueRequest(r) ==
    /\ phase[r] = "new"
    /\ MayIssue
    /\ nextCorrelationId # 0
    /\ corr' = [corr EXCEPT ![r] = nextCorrelationId]
    /\ sess' = [sess EXCEPT ![r] = session]
    /\ nextCorrelationId' = IdAfter(nextCorrelationId)
    /\ pendingByCorrelation' = [pendingByCorrelation EXCEPT ![nextCorrelationId] = r]
    /\ timeoutEntries' = timeoutEntries \cup {r}
    /\ phase' = [phase EXCEPT ![r] = "live"]
    /\ sending' = [sending EXCEPT ![r] = "pending"]
    /\ frame' = [frame EXCEPT ![r] = "out"]
    /\ late' = IF connected THEN late ELSE late \cup {r}
    /\ UNCHANGED <<connected, session, discardResponse, got, callVars>>

\* issueRequest() with a signal that is aborted already, or with no id left:
\* it fails before anything is registered.
IssueFails(r) ==
    /\ phase[r] = "new"
    /\ MayIssue
    /\ phase' = [phase EXCEPT ![r] = "failed"]
    /\ UNCHANGED <<connected, session, nextCorrelationId, pendingByCorrelation,
                   timeoutEntries, discardResponse, requestVars, sending, frame, got,
                   callVars>>

--------------------------------------------------------------------------------
(* Ways a request ends without its response *)

\* finalize() settles a request that nothing has settled before.
Finalizes(r) == phase[r] = "live"

\* The slots once the one of id i is cleared.
ClearSlot(i) == [pendingByCorrelation EXCEPT ![i] = NoRequest]

\* A variant of failRequest that clears the slot at once.
TombstoneDropped(r) ==
    /\ phase' = [phase EXCEPT ![r] = "failed"]
    /\ pendingByCorrelation' = ClearSlot(corr[r])
    /\ timeoutEntries' = timeoutEntries \ {r}
    /\ discardResponse' = discardResponse

\* failRequest() and rejectRequest(..., true): settle, keep the slot as a tombstone.
Tombstone(r) ==
    /\ phase' = [phase EXCEPT ![r] = "failed"]
    /\ pendingByCorrelation' = pendingByCorrelation
    /\ timeoutEntries' = timeoutEntries \ {r}
    /\ discardResponse' = discardResponse \cup {r}

\* handleTimeouts(): the request's deadline passed.
Timeout(r) ==
    /\ r \in timeoutEntries
    /\ Finalizes(r)
    /\ Tombstone(r)
    /\ UNCHANGED <<connected, session, nextCorrelationId, requestVars, sending, frame,
                   got, callVars>>

\* The caller's signal aborts.
Abort(r) ==
    /\ Finalizes(r)
    /\ Tombstone(r)
    /\ UNCHANGED <<connected, session, nextCorrelationId, requestVars, sending, frame,
                   got, callVars>>

\* send() resolved; if the connection is gone by then the request fails.
SendResolves(r) ==
    /\ sending[r] = "pending"
    /\ sending' = [sending EXCEPT ![r] = "sent"]
    /\ \/ /\ ~connected /\ Finalizes(r)
          /\ Tombstone(r)
       \/ /\ connected \/ ~Finalizes(r)
          /\ UNCHANGED <<pendingByCorrelation, timeoutEntries, phase, discardResponse>>
    /\ UNCHANGED <<connected, session, nextCorrelationId, requestVars, frame, got, callVars>>

\* A variant without the check that the request is settled already: a rejected
\* send() always unregisters its request.
SendRejectsUnregistering(r) ==
    /\ sending[r] = "pending"
    /\ sending' = [sending EXCEPT ![r] = "rejected"]
    /\ phase' = IF Finalizes(r) THEN [phase EXCEPT ![r] = "sendFailed"] ELSE phase
    /\ pendingByCorrelation' = ClearSlot(corr[r])
    /\ timeoutEntries' = timeoutEntries \ {r}
    /\ UNCHANGED <<connected, session, nextCorrelationId, requestVars, discardResponse, frame,
                   got, callVars>>

\* send() rejected: a request that is settled keeps its tombstone; a live one is
\* unregistered by its id, whoever occupies the slot of that id by now.
SendRejects(r) ==
    /\ sending[r] = "pending"
    /\ sending' = [sending EXCEPT ![r] = "rejected"]
    /\ \/ /\ Finalizes(r)
          /\ phase' = [phase EXCEPT ![r] = "sendFailed"]
          /\ pendingByCorrelation' = ClearSlot(corr[r])
          /\ timeoutEntries' = timeoutEntries \ {r}
       \/ /\ ~Finalizes(r)
          /\ UNCHANGED <<phase, pendingByCorrelation, timeoutEntries>>
    /\ UNCHANGED <<connected, session, nextCorrelationId, requestVars, discardResponse, frame,
                   got, callVars>>

--------------------------------------------------------------------------------
(* Responses *)

\* The request registered under the correlation of r's response.
SlotOf(r) == pendingByCorrelation[corr[r]]

\* A variant of the receive loop that keeps dispatching frames of a transport
\* that has been replaced.
MayAnswerStale(r) == frame[r] = "out"

\* The broker answers frames of the current session; the receive loop drops what
\* an older transport still delivers.
MayAnswer(r) == frame[r] = "out" /\ sess[r] = session

\* dispatch() of a final response to r's frame.
DispatchFinal(r) ==
    /\ MayAnswer(r)
    /\ frame' = [frame EXCEPT ![r] = "answered"]
    /\ LET slot == SlotOf(r) IN
       \/ \* unknown correlation: ProtocolError, which the receive loop turns into a loss
          /\ slot = NoRequest
          /\ connected' = FALSE
          /\ CancelAll
          /\ UNCHANGED <<discardResponse, got>>
       \/ \* tombstone: the late response is consumed
          /\ slot # NoRequest /\ slot \in discardResponse
          /\ pendingByCorrelation' = ClearSlot(corr[r])
          /\ UNCHANGED <<connected, timeoutEntries, phase, discardResponse, got>>
       \/ \* the request's response
          /\ slot # NoRequest /\ slot \notin discardResponse
          /\ pendingByCorrelation' = ClearSlot(corr[r])
          /\ phase' = [phase EXCEPT ![slot] = "resolved"]
          /\ got' = [got EXCEPT ![slot] = r]
          /\ timeoutEntries' = timeoutEntries \ {slot}
          /\ UNCHANGED <<connected, discardResponse>>
    /\ UNCHANGED <<session, nextCorrelationId, requestVars, sending, callVars>>

\* dispatch() of an interim response: it changes nothing, unless nobody waits.
DispatchInterim(r) ==
    /\ MayAnswer(r)
    /\ SlotOf(r) = NoRequest
    /\ SetDisconnected

--------------------------------------------------------------------------------
(* sendCorrelated: the id is taken first, then the call waits until the          *)
(* connection is ready (connection.ts, sendCorrelated and send).                 *)

AllocateForCall(k) ==
    /\ callId[k] = 0
    /\ nextCorrelationId # 0
    /\ callId' = [callId EXCEPT ![k] = nextCorrelationId]
    /\ nextCorrelationId' = IdAfter(nextCorrelationId)
    /\ UNCHANGED <<connected, session, pendingByCorrelation, timeoutEntries, phase,
                   discardResponse, requestVars, sending, frame, got, callSess>>

TransmitCall(k) ==
    /\ callId[k] # 0
    /\ callSess[k] = 0
    /\ connected
    /\ callSess' = [callSess EXCEPT ![k] = session]
    /\ UNCHANGED <<connected, session, nextCorrelationId, pendingByCorrelation,
                   timeoutEntries, phase, discardResponse, requestVars, sending, frame,
                   got, callId>>

--------------------------------------------------------------------------------
Next ==
    \/ SetConnected
    \/ SetDisconnected
    \/ \E r \in Requests : \/ IssueRequest(r)
                           \/ IssueFails(r)
                           \/ Timeout(r)
                           \/ Abort(r)
                           \/ SendResolves(r)
                           \/ SendRejects(r)
                           \/ DispatchFinal(r)
                           \/ DispatchInterim(r)
    \/ \E k \in Calls : AllocateForCall(k) \/ TransmitCall(k)

Spec == Init /\ [][Next]_vars

\* The timers of the event loop fire.
Fairness == \A r \in Requests : WF_vars(Timeout(r))

FairSpec == Spec /\ Fairness

--------------------------------------------------------------------------------
(* Properties *)

\* The variables have their types.
TypeOK ==
    /\ connected \in BOOLEAN
    /\ session \in 0..MaxSession
    /\ nextCorrelationId \in 0..MaxId
    /\ pendingByCorrelation \in [Ids -> Requests \cup {NoRequest}]
    /\ timeoutEntries \in SUBSET Requests
    /\ phase \in [Requests -> {"new", "live"} \cup Settled]
    /\ discardResponse \in SUBSET Requests
    /\ corr \in [Requests -> 0..MaxId]
    /\ sess \in [Requests -> 0..MaxSession]
    /\ sending \in [Requests -> {"none", "pending", "sent", "rejected"}]
    /\ frame \in [Requests -> {"none", "out", "answered"}]
    /\ got \in [Requests -> Requests \cup {NoRequest}]
    /\ callId \in [Calls -> 0..MaxId]
    /\ callSess \in [Calls -> 0..MaxSession]
    /\ late \in SUBSET Requests

\* A caller is only ever resolved with the response to its own frame, although
\* responses overtake each other, ids start over in every session, and slots of
\* requests that gave up are still occupied.
ResponseToOwner == \A r \in Requests : got[r] \in {r, NoRequest}

\* Requests that travel on one transport carry distinct non-zero ids.
RequestIdsUnique ==
    \A r, q \in Requests :
      frame[r] # "none" /\ frame[q] # "none" /\ sess[r] = sess[q] =>
        corr[r] # 0 /\ (corr[r] = corr[q] => r = q)

\* A slot is only occupied by the request that was given its id, and that request
\* is live or has left a tombstone there.
SlotOwnership ==
    \A i \in Ids :
      LET r == pendingByCorrelation[i]
      IN  r # NoRequest => corr[r] = i /\ (phase[r] = "live" \/ r \in discardResponse)

\* The late request p and a request r of a later session were given the same id.
Clash(p, r) == p \in late /\ sess[p] < sess[r] /\ corr[p] = corr[r]

\* r took the slot of the late request p for itself.
Overwritten(p) == \E r \in Requests : Clash(p, r)

\* The send() of a late request was rejected while it was live, and
\* unregisterRequest() cleared the slot by the id it shares with r.
Robbed(r) == \E p \in Requests : Clash(p, r) /\ phase[p] = "sendFailed"

\* As long as the broker may answer a frame on a live session, the slot that
\* absorbs the answer is there: neither a timeout nor an abort nor somebody
\* else's traffic can turn that answer into a protocol error that costs the
\* session.  The exceptions are a request whose own send() was rejected while it
\* was live, and one that shares its id with a late request whose send() was: that
\* rejection takes the slot away from a request of the next session.
AnswerFindsSlot ==
    \A r \in Requests :
      connected /\ frame[r] = "out" /\ sess[r] = session =>
        pendingByCorrelation[corr[r]] = r \/ phase[r] = "sendFailed" \/ Robbed(r)

\* A tombstone is cleared by the response to its own request or by a disconnect
\* (the comment in issueRequest's rejection handler), and by nothing else, but for
\* a late request: its tombstone is overwritten by the next owner of its id, and
\* the rejection of its send() clears a tombstone of that owner.
TombstonesStay ==
    [][\A r \in discardResponse, i \in Ids :
         pendingByCorrelation[i] = r /\ pendingByCorrelation'[i] # r =>
           \/ ~connected'
           \/ frame[r] = "out" /\ frame'[r] = "answered"
           \/ Overwritten(r)'
           \/ Robbed(r)']_vars

\* A request is settled once: no later event changes its outcome or hands it
\* a second response.
SettledOnce ==
    [][\A r \in Requests :
         phase[r] \in Settled => phase'[r] = phase[r] /\ got'[r] = got[r]]_vars

\* Without a connection nobody is left waiting for a response, but the late
\* requests, which registered after the disconnect had failed the others, and a
\* request that such a one has robbed of its slot.
DisconnectFailsAll ==
    ~connected => \A r \in Requests : phase[r] = "live" => r \in late \/ Robbed(r)


================================================================================
