--------------------------- MODULE RpcCallerProofs ---------------------------
(***************************************************************************)
(* Proofs about RpcCaller, for any number of calls, buffers, frames and    *)
(* lost connections.                                                       *)
(***************************************************************************)
EXTENDS RpcCaller, FiniteSetTheorems, SequenceTheorems, TLAPS

-----------------------------------------------------------------------------
(* Which call is in which map *)

\* abandon() has begun and the `cancellation` promise is not settled.
Undecided == {"awaitSent", "waiting", "awaitResult"}

MapTypes ==
    /\ call \in [Calls -> {"idle", "open", "ended", "failed", "cancelled"}]
    /\ can \in [Calls -> {"none", "awaitSent", "waiting", "awaitResult", "settled"}]
    /\ outcome \in [Calls -> Outcomes \cup {None}]
    /\ pending \subseteq Calls /\ abandoned \subseteq Calls /\ cancelling \subseteq Calls

\* One call and the maps: it is registered while it is open, and may stay registered
\* as an abandoned one until its cancellation settles.
MapAt(c) ==
    /\ call[c] = "open" <=> c \in pending /\ c \notin abandoned
    /\ c \in abandoned => c \in pending /\ can[c] \in Undecided
    /\ can[c] \in Undecided => call[c] = "cancelled" /\ outcome[c] = None
    /\ c \in cancelling <=> can[c] \in {"waiting", "awaitResult"}
    /\ call[c] \in {"idle", "open"} => outcome[c] = None

MapInv == MapTypes /\ \A c \in Calls : MapAt(c)

\* A call that an action leaves alone.
LEMMA MapSame ==
    ASSUME NEW d, MapAt(d), call'[d] = call[d], can'[d] = can[d], outcome'[d] = outcome[d],
           d \in pending' <=> d \in pending, d \in abandoned' <=> d \in abandoned,
           d \in cancelling' <=> d \in cancelling
    PROVE  MapAt(d)'
BY DEF MapAt

\* An action about one call.
LEMMA MapOne ==
    ASSUME MapInv, NEW c \in Calls, NEW x, NEW y, NEW z,
           call' = [call EXCEPT ![c] = x], can' = [can EXCEPT ![c] = y],
           outcome' = [outcome EXCEPT ![c] = z],
           x \in {"idle", "open", "ended", "failed", "cancelled"},
           y \in {"none", "awaitSent", "waiting", "awaitResult", "settled"},
           z \in Outcomes \cup {None},
           pending' \subseteq pending \cup {c}, pending \subseteq pending' \cup {c},
           abandoned' \subseteq abandoned \cup {c}, abandoned \subseteq abandoned' \cup {c},
           cancelling' \subseteq cancelling \cup {c}, cancelling \subseteq cancelling' \cup {c},
           x = "open" <=> c \in pending' /\ c \notin abandoned',
           c \in abandoned' => c \in pending' /\ y \in Undecided,
           y \in Undecided => x = "cancelled" /\ z = None,
           c \in cancelling' <=> y \in {"waiting", "awaitResult"},
           x \in {"idle", "open"} => z = None
    PROVE  MapInv'
<1>1. MapTypes'
  BY DEF MapInv, MapTypes
<1>2. call'[c] = x /\ can'[c] = y /\ outcome'[c] = z
  BY DEF MapInv, MapTypes
<1>3. MapAt(c)'
  BY <1>2 DEF MapAt
<1>4. ASSUME NEW d \in Calls, d # c PROVE MapAt(d)'
  <2>1. call'[d] = call[d] /\ can'[d] = can[d] /\ outcome'[d] = outcome[d]
    BY <1>4 DEF MapInv, MapTypes
  <2>2. /\ d \in pending' <=> d \in pending
        /\ d \in abandoned' <=> d \in abandoned
        /\ d \in cancelling' <=> d \in cancelling
    BY <1>4
  <2> QED
    BY <2>1, <2>2, MapSame DEF MapInv
<1> QED
  BY <1>1, <1>3, <1>4 DEF MapInv

\* A function is itself with one value put back.
LEMMA PutBack ==
    ASSUME NEW S, NEW T, NEW f \in [S -> T], NEW c \in S
    PROVE  f = [f EXCEPT ![c] = f[c]]
OBVIOUS

\* iterator.fail for one call.
LEMMA FailOne ==
    ASSUME MapInv, NEW c \in Calls, NEW C, C = {c} \/ C = {}, Fail(C)
    PROVE  IF c \in C /\ call[c] = "open"
             THEN /\ call' = [call EXCEPT ![c] = "failed"]
                  /\ outcome' = [outcome EXCEPT ![c] = "not_requested"]
             ELSE call' = call /\ outcome' = outcome
<1>0. /\ call \in [Calls -> {"idle", "open", "ended", "failed", "cancelled"}]
      /\ outcome \in [Calls -> Outcomes \cup {None}]
  BY DEF MapInv, MapTypes
<1>1. /\ call' = [d \in Calls |-> IF d \in C /\ call[d] = "open" THEN "failed" ELSE call[d]]
      /\ outcome' = [d \in Calls |-> IF d \in C /\ call[d] = "open" THEN "not_requested" ELSE outcome[d]]
  BY DEF Fail
<1>2. CASE c \in C /\ call[c] = "open"
  <2>1. call' = [call EXCEPT ![c] = "failed"]
    BY <1>0, <1>1, <1>2
  <2>2. outcome' = [outcome EXCEPT ![c] = "not_requested"]
    BY <1>0, <1>1, <1>2
  <2> QED
    BY <1>2, <2>1, <2>2
<1>3. CASE ~(c \in C /\ call[c] = "open")
  <2>1. call' = call
    BY <1>0, <1>1, <1>3
  <2>2. outcome' = outcome
    BY <1>0, <1>1, <1>3
  <2> QED
    BY <1>3, <2>1, <2>2
<1> QED
  BY <1>2, <1>3

\* Nothing about the maps changes.
LEMMA MapUnchanged ==
    ASSUME MapInv, UNCHANGED <<call, outcome, can, pending, abandoned, cancelling>>
    PROVE  MapInv'
BY DEF MapInv, MapTypes, MapAt

\* The actions of a call keep the maps right.
LEMMA MapCallStep ==
    ASSUME MapInv, NEW c \in Calls,
           \/ \E b \in Buffers, aborted \in BOOLEAN : Call(c, b, aborted)
           \/ RequestSettles(c) \/ Abandon(c) \/ WriteCancellation(c)
           \/ RecvFrame(c) \/ RecvError(c) \/ NextFrame(c) \/ Cancel(c)
           \/ \E body \in BOOLEAN : RecvEnd(c, body)
           \/ \E r \in Outcomes : SettleCancellationResult(c, r)
    PROVE  MapInv'
<1>0. /\ MapAt(c)
      /\ call \in [Calls -> {"idle", "open", "ended", "failed", "cancelled"}]
      /\ can \in [Calls -> {"none", "awaitSent", "waiting", "awaitResult", "settled"}]
      /\ outcome \in [Calls -> Outcomes \cup {None}]
      /\ call = [call EXCEPT ![c] = call[c]] /\ can = [can EXCEPT ![c] = can[c]]
      /\ outcome = [outcome EXCEPT ![c] = outcome[c]]
      /\ call[c] \in {"idle", "open", "ended", "failed", "cancelled"}
      /\ can[c] \in {"none", "awaitSent", "waiting", "awaitResult", "settled"}
      /\ outcome[c] \in Outcomes \cup {None}
      /\ "not_requested" \in Outcomes
  BY PutBack DEF MapInv, MapTypes, Outcomes
<1>1. ASSUME NEW b \in Buffers, NEW aborted \in BOOLEAN, Call(c, b, aborted) PROVE MapInv'
  <2>1. /\ call[c] = "idle" /\ pending' = pending \cup {c} /\ cancelling' = cancelling
        /\ call' = [call EXCEPT ![c] = IF aborted THEN "cancelled" ELSE "open"]
        /\ can' = [can EXCEPT ![c] = IF aborted THEN "awaitSent" ELSE "none"]
        /\ outcome' = [outcome EXCEPT ![c] = outcome[c]]
        /\ abandoned' = IF aborted THEN abandoned \cup {c} ELSE abandoned
    BY <1>0, <1>1 DEF Call
  <2>2. outcome[c] = None /\ c \notin abandoned /\ c \notin cancelling
    BY <1>0, <2>1 DEF MapAt, Undecided
  <2>3. CASE aborted
    BY <1>0, <2>1, <2>2, <2>3, MapOne DEF Undecided
  <2>4. CASE ~aborted
    BY <1>0, <2>1, <2>2, <2>4, MapOne DEF Undecided
  <2> QED
    BY <2>3, <2>4
<1>2. CASE WriteRequest(c) \/ RequestSent(c) \/ RecvFrame(c) \/ NextFrame(c)
  <2>1. UNCHANGED <<call, outcome, can, pending, abandoned, cancelling>>
    BY <1>2 DEF WriteRequest, RequestSent, RecvFrame, NextFrame, iterVars, mapVars
  <2> QED
    BY <2>1, MapUnchanged
<1>3. ASSUME call[c] = "open", CleanupPendingRpc({c}),
             call' = [call EXCEPT ![c] = "failed"] \/ call' = [call EXCEPT ![c] = "ended"],
             outcome' = [outcome EXCEPT ![c] = "not_requested"], UNCHANGED <<can, cancelling>>
      PROVE  MapInv'
  <2>1. /\ pending' = pending \ {c} /\ abandoned' = abandoned \ ({c} \cap pending)
        /\ can' = [can EXCEPT ![c] = can[c]]
    BY <1>0, <1>3 DEF CleanupPendingRpc
  <2>2. /\ can[c] \notin Undecided /\ c \notin abandoned' /\ c \notin pending' /\ c \notin cancelling
        /\ can[c] \notin {"waiting", "awaitResult"}
    BY <1>0, <1>3, <2>1 DEF MapAt, Undecided
  <2>3. PICK x \in {"failed", "ended"} : call' = [call EXCEPT ![c] = x]
    BY <1>3
  <2> QED
    BY <1>0, <1>3, <2>1, <2>2, <2>3, MapOne
<1>4. ASSUME NEW reached \in BOOLEAN, RequestNotSent(c, reached) PROVE MapInv'
  <2>1. CASE call[c] = "open"
    <3>1. Fail({c}) /\ CleanupPendingRpc({c}) /\ UNCHANGED <<can, cancelling>>
      BY <1>4, <2>1 DEF RequestNotSent
    <3>2. /\ call' = [call EXCEPT ![c] = "failed"]
          /\ outcome' = [outcome EXCEPT ![c] = "not_requested"]
      BY <2>1, <3>1, FailOne
    <3> QED
      BY <1>3, <2>1, <3>1, <3>2
  <2>2. CASE call[c] # "open"
    <3>1. Fail({c}) /\ UNCHANGED <<can, cancelling, pending, abandoned>>
      BY <1>4, <2>2 DEF RequestNotSent
    <3>2. call' = call /\ outcome' = outcome
      BY <2>2, <3>1, FailOne
    <3> QED
      BY <3>1, <3>2, MapUnchanged
  <2> QED
    BY <2>1, <2>2
<1>5. CASE RecvError(c)
  <2>0. Fail(pending \cap {c}) /\ UNCHANGED <<can, cancelling>>
        /\ (pending \cap {c} = {c} \/ pending \cap {c} = {})
    BY <1>5 DEF RecvError
  <2>1. CASE c \in pending /\ call[c] = "open"
    <3>1. CleanupPendingRpc({c})
      BY <1>5, <2>1 DEF RecvError
    <3>2. /\ call' = [call EXCEPT ![c] = "failed"]
          /\ outcome' = [outcome EXCEPT ![c] = "not_requested"]
      BY <2>0, <2>1, FailOne
    <3> QED
      BY <1>3, <2>0, <2>1, <3>1, <3>2
  <2>2. CASE ~(c \in pending /\ call[c] = "open")
    <3>1. UNCHANGED <<pending, abandoned>>
      BY <1>5, <2>2 DEF RecvError
    <3>2. call' = call /\ outcome' = outcome
      BY <2>0, <2>2, FailOne
    <3> QED
      BY <2>0, <3>1, <3>2, MapUnchanged
  <2> QED
    BY <2>1, <2>2
<1>6. ASSUME NEW body \in BOOLEAN, RecvEnd(c, body) PROVE MapInv'
  <2>0. UNCHANGED <<can, cancelling>>
    BY <1>6 DEF RecvEnd
  <2>1. CASE c \notin pending
    BY <1>6, <2>0, <2>1, MapUnchanged DEF RecvEnd, iterVars
  <2>2. CASE c \in pending /\ call[c] = "open"
    <3>1. /\ CleanupPendingRpc({c}) /\ call' = [call EXCEPT ![c] = "ended"]
          /\ outcome' = [outcome EXCEPT ![c] = "not_requested"]
      BY <1>6, <2>2 DEF RecvEnd
    <3> QED
      BY <1>3, <2>0, <2>2, <3>1
  <2>3. CASE c \in pending /\ call[c] # "open"
    <3>1. CleanupPendingRpc({c}) /\ UNCHANGED <<call, outcome>>
      BY <1>6, <2>3 DEF RecvEnd, iterVars
    <3>2. pending' = pending \ {c} /\ abandoned' = abandoned \ ({c} \cap pending)
      BY <3>1 DEF CleanupPendingRpc
    <3>3. c \in abandoned /\ c \notin abandoned' /\ c \notin pending'
      BY <1>0, <2>3, <3>2 DEF MapAt
    <3>4. /\ call' = [call EXCEPT ![c] = call[c]] /\ can' = [can EXCEPT ![c] = can[c]]
          /\ outcome' = [outcome EXCEPT ![c] = outcome[c]] /\ cancelling' = cancelling
      BY <1>0, <2>0, <3>1
    <3>5. /\ can[c] \in Undecided => call[c] = "cancelled" /\ outcome[c] = None
          /\ c \in cancelling <=> can[c] \in {"waiting", "awaitResult"}
          /\ call[c] \in {"idle", "open"} => outcome[c] = None
      BY <1>0 DEF MapAt
    <3> QED
      BY <1>0, <2>3, <3>2, <3>3, <3>4, <3>5, MapOne
  <2> QED
    BY <2>1, <2>2, <2>3
<1>7. CASE Cancel(c)
  <2>1. /\ call[c] = "open" /\ call' = [call EXCEPT ![c] = "cancelled"]
        /\ can' = [can EXCEPT ![c] = "awaitSent"] /\ abandoned' = abandoned \cup {c}
        /\ outcome' = [outcome EXCEPT ![c] = outcome[c]] /\ pending' = pending
        /\ cancelling' = cancelling
    BY <1>0, <1>7 DEF Cancel
  <2>2. c \in pending /\ c \notin cancelling
    BY <1>0, <2>1 DEF MapAt, Undecided
  <2>3. outcome[c] = None
    BY <1>0, <2>1 DEF MapAt
  <2> QED
    BY <1>0, <2>1, <2>2, <2>3, MapOne DEF Undecided
<1>8. ASSUME can[c] \in Undecided, CleanupPendingRpc({c}), can' = [can EXCEPT ![c] = "settled"],
             NEW r \in Outcomes, outcome' = [outcome EXCEPT ![c] = r], call' = call,
             cancelling' = cancelling \ {c}
      PROVE  MapInv'
  <2>1. pending' = pending \ {c} /\ abandoned' = abandoned \ ({c} \cap pending)
    BY <1>8 DEF CleanupPendingRpc
  <2>2. call[c] = "cancelled" /\ (c \in abandoned => c \in pending)
    BY <1>0, <1>8 DEF MapAt
  <2>3. c \notin abandoned' /\ c \notin pending' /\ "settled" \notin Undecided
    BY <2>1, <2>2 DEF Undecided
  <2> QED
    BY <1>0, <1>8, <2>1, <2>2, <2>3, MapOne
<1>9. CASE AbandonLocally(c)
  <2>1. /\ can[c] = "awaitSent" /\ can' = [can EXCEPT ![c] = "settled"]
        /\ \E r \in {"request_not_sent", "unsupported"} : outcome' = [outcome EXCEPT ![c] = r]
        /\ CleanupPendingRpc({c}) /\ UNCHANGED <<call, cancelling>>
    BY <1>9 DEF AbandonLocally
  <2>2. PICK r \in Outcomes : outcome' = [outcome EXCEPT ![c] = r]
    BY <2>1 DEF Outcomes
  <2>3. can[c] \in Undecided /\ cancelling' = cancelling \ {c}
    BY <1>0, <2>1 DEF Undecided, MapAt
  <2> QED
    BY <1>8, <2>1, <2>2, <2>3
<1>10. CASE SendCancellationRequest(c)
  <2>1. /\ can[c] = "awaitSent" /\ can' = [can EXCEPT ![c] = "waiting"]
        /\ cancelling' = cancelling \cup {c} /\ UNCHANGED <<pending, abandoned>>
        /\ call' = [call EXCEPT ![c] = call[c]] /\ outcome' = [outcome EXCEPT ![c] = outcome[c]]
    BY <1>0, <1>10 DEF SendCancellationRequest, iterVars
  <2>2. /\ call[c] = "cancelled" /\ outcome[c] = None /\ (c \in abandoned => c \in pending)
        /\ (call[c] = "open" <=> c \in pending /\ c \notin abandoned)
    BY <1>0, <2>1 DEF MapAt, Undecided
  <2> QED
    BY <1>0, <2>1, <2>2, MapOne DEF Undecided
<1>11. CASE WriteCancellation(c)
  <2>1. /\ can[c] = "waiting" /\ can' = [can EXCEPT ![c] = "awaitResult"]
        /\ UNCHANGED <<pending, abandoned, cancelling>>
        /\ call' = [call EXCEPT ![c] = call[c]] /\ outcome' = [outcome EXCEPT ![c] = outcome[c]]
    BY <1>0, <1>11 DEF WriteCancellation, iterVars, mapVars
  <2>2. /\ call[c] = "cancelled" /\ outcome[c] = None /\ (c \in abandoned => c \in pending)
        /\ (call[c] = "open" <=> c \in pending /\ c \notin abandoned) /\ c \in cancelling
    BY <1>0, <2>1 DEF MapAt, Undecided
  <2> QED
    BY <1>0, <2>1, <2>2, MapOne DEF Undecided
<1>12. ASSUME NEW r \in Outcomes, SettleCancellationResult(c, r) PROVE MapInv'
  <2>1. /\ c \in cancelling /\ can' = [can EXCEPT ![c] = "settled"]
        /\ outcome' = [outcome EXCEPT ![c] = r]
        /\ CleanupPendingRpc({c}) /\ call' = call /\ cancelling' = cancelling \ {c}
    BY <1>12 DEF SettleCancellationResult
  <2>2. can[c] \in Undecided
    BY <1>0, <2>1 DEF MapAt, Undecided
  <2> QED
    BY <1>8, <2>1, <2>2
<1> QED
  BY <1>1, <1>2, <1>4, <1>5, <1>6, <1>7, <1>9, <1>10, <1>11, <1>12
     DEF RequestSettles, Abandon

\* onDisconnect empties the maps and settles what was in them.
LEMMA MapDisconnect ==
    ASSUME MapInv, Disconnect
    PROVE  MapInv'
<1>1. /\ pending' = {} /\ abandoned' = {} /\ cancelling' = {}
      /\ call' = [c \in Calls |-> IF c \in pending /\ call[c] = "open" THEN "failed" ELSE call[c]]
      /\ outcome' = [c \in Calls |->
            IF c \in pending /\ call[c] = "open" THEN "not_requested"
            ELSE IF c \in cancelling THEN "connection_closed" ELSE outcome[c]]
      /\ can' = [c \in Calls |-> IF c \in cancelling THEN "settled" ELSE can[c]]
  BY DEF Disconnect
<1>2. MapTypes'
  <2>1. call' \in [Calls -> {"idle", "open", "ended", "failed", "cancelled"}]
    BY <1>1 DEF MapInv, MapTypes
  <2>2. can' \in [Calls -> {"none", "awaitSent", "waiting", "awaitResult", "settled"}]
    BY <1>1 DEF MapInv, MapTypes
  <2>3. outcome' \in [Calls -> Outcomes \cup {None}]
    BY <1>1 DEF MapInv, MapTypes, Outcomes
  <2> QED
    BY <1>1, <2>1, <2>2, <2>3 DEF MapTypes
<1>3. ASSUME NEW c \in Calls PROVE MapAt(c)'
  <2>1. /\ call'[c] = IF c \in pending /\ call[c] = "open" THEN "failed" ELSE call[c]
        /\ outcome'[c] = IF c \in pending /\ call[c] = "open" THEN "not_requested"
                         ELSE IF c \in cancelling THEN "connection_closed" ELSE outcome[c]
        /\ can'[c] = IF c \in cancelling THEN "settled" ELSE can[c]
    BY <1>1
  <2>2. MapAt(c)
    BY DEF MapInv
  <2> QED
    BY <1>1, <2>1, <2>2 DEF MapAt, Undecided
<1> QED
  BY <1>2, <1>3 DEF MapInv

\* Every step keeps the maps right.
LEMMA MapStep ==
    ASSUME MapInv, [Next]_vars
    PROVE  MapInv'
<1>1. CASE Reconnect \/ UNCHANGED vars
  <2>1. UNCHANGED <<call, outcome, can, pending, abandoned, cancelling>>
    BY <1>1 DEF Reconnect, vars, iterVars, mapVars
  <2> QED
    BY <2>1, MapUnchanged
<1> QED
  BY <1>1, MapCallStep, MapDisconnect DEF Next

\* Initially the maps are empty and no call was made.
LEMMA MapInit == Init => MapInv
<1> SUFFICES ASSUME Init PROVE MapInv
  OBVIOUS
<1>1. MapTypes
  BY DEF Init, MapTypes
<1>2. \A c \in Calls : MapAt(c)
  BY DEF Init, MapAt, Undecided
<1> QED
  BY <1>1, <1>2 DEF MapInv

-----------------------------------------------------------------------------
(* Who holds which buffer *)

\* A call whose buffer is still to be read: by the cleanup that recycles it, or by
\* the encoding of its CANCELLATION frame.
Holds(c) == call[c] = "open" \/ can[c] = "awaitSent"

BufferTypes ==
    /\ buf \in [Calls -> Buffers \cup {None}]
    /\ content \in [Buffers -> Calls \cup {0}]
    /\ pool \subseteq Buffers
    /\ cancels \subseteq Calls \X Calls

\* A held buffer is not in the pool and has its call's id.
HeldPart == \A c \in Calls : Holds(c) => buf[c] \in Buffers \ pool /\ content[buf[c]] = c

\* A buffer has the id of the last call that drew it.
UsedPart ==
    \A b \in Buffers : content[b] # 0 => buf[content[b]] = b /\ call[content[b]] # "idle"

BufferInv == BufferTypes /\ HeldPart /\ UsedPart /\ CancellationNamesItsCall

\* Call identifiers are positive.
LEMMA CallsArePositive == Calls \subseteq Nat /\ 0 \notin Calls
BY CallerAssumption DEF Calls

\* There is a buffer for every call: one that was never used is left while a call
\* has not been made.
LEMMA FreshBuffer ==
    ASSUME BufferInv, NEW c \in Calls, call[c] = "idle"
    PROVE  \E x \in Buffers : content[x] = 0
<1> SUFFICES ASSUME \A x \in Buffers : content[x] # 0 PROVE FALSE
  OBVIOUS
<1>1. content \in [Buffers -> Calls \ {c}]
  BY DEF BufferInv, BufferTypes, UsedPart
<1>2. \A x, y \in Buffers : content[x] = content[y] => x = y
  BY DEF BufferInv, UsedPart
<1>3. MaxCalls \in Nat /\ IsFiniteSet(Buffers) /\ Cardinality(Buffers) >= MaxCalls
  BY CallerAssumption
<1>4. IsFiniteSet(Calls) /\ Cardinality(Calls) = MaxCalls
  <2>1. 1 \in Int /\ MaxCalls \in Int /\ 1..MaxCalls # {} /\ ~(1 > MaxCalls)
    BY <1>3 DEF Calls
  <2>2. IsFiniteSet(1..MaxCalls) /\ Cardinality(1..MaxCalls) = MaxCalls - 1 + 1
    BY <2>1, FS_Interval
  <2> QED
    BY <1>3, <2>2 DEF Calls
<1>5. IsFiniteSet(Calls \ {c}) /\ Cardinality(Calls \ {c}) = MaxCalls - 1
  BY <1>4, FS_RemoveElement
<1>6. Cardinality(Buffers) \in Nat
  BY <1>3, FS_CardinalityType
<1>7. Cardinality(Calls \ {c}) < Cardinality(Buffers)
  BY <1>3, <1>5, <1>6
<1>8. \E x, y \in Buffers : x # y /\ content[x] = content[y]
  BY <1>1, <1>3, <1>5, <1>7, FS_PigeonHole
<1> QED
  BY <1>2, <1>8

\* Two calls never hold the same buffer, and the buffers of the open calls of R may go
\* back to the pool.
LEMMA Release ==
    ASSUME BufferInv, NEW R \in SUBSET Calls, \A c \in R : call[c] = "open",
           pool' = pool \cup {buf[c] : c \in R}, UNCHANGED <<buf, content, cancels>>,
           \A c \in Calls : Holds(c)' => Holds(c) /\ c \notin R,
           \A c \in Calls : call[c] # "idle" => call'[c] # "idle"
    PROVE  BufferInv'
<1>1. \A c \in R : buf[c] \in Buffers /\ content[buf[c]] = c
  BY DEF BufferInv, HeldPart, Holds
<1>2. BufferTypes'
  BY <1>1 DEF BufferInv, BufferTypes
<1>3. HeldPart'
  <2> SUFFICES ASSUME NEW c \in Calls, Holds(c)'
               PROVE  buf[c] \in Buffers \ pool' /\ content[buf[c]] = c
    BY DEF HeldPart
  <2>1. Holds(c) /\ c \notin R
    OBVIOUS
  <2>2. buf[c] \in Buffers /\ buf[c] \notin pool /\ content[buf[c]] = c
    BY <2>1 DEF BufferInv, HeldPart
  <2>3. buf[c] \notin {buf[d] : d \in R}
    BY <1>1, <2>1, <2>2
  <2> QED
    BY <2>2, <2>3
<1>4. UsedPart'
  <2> SUFFICES ASSUME NEW b \in Buffers, content[b] # 0
               PROVE  buf[content[b]] = b /\ call'[content[b]] # "idle"
    BY DEF UsedPart
  <2>1. content[b] \in Calls /\ buf[content[b]] = b /\ call[content[b]] # "idle"
    BY DEF BufferInv, BufferTypes, UsedPart
  <2> QED
    BY <2>1
<1> QED
  BY <1>2, <1>3, <1>4 DEF BufferInv, CancellationNamesItsCall

\* Nothing is released: what holds a buffer afterwards held it before.
LEMMA NoRelease ==
    ASSUME BufferInv, UNCHANGED <<buf, content, pool, cancels>>,
           \A c \in Calls : Holds(c)' => Holds(c),
           \A c \in Calls : call[c] # "idle" => call'[c] # "idle"
    PROVE  BufferInv'
<1> DEFINE R == {}
<1>1. /\ pool' = pool \cup {buf[c] : c \in R} /\ R \in SUBSET Calls
      /\ \A c \in R : call[c] = "open"
      /\ \A c \in Calls : Holds(c)' => Holds(c) /\ c \notin R
  OBVIOUS
<1> HIDE DEF R
<1> QED
  BY <1>1, Release

\* cleanupPendingRpc for a call that is open, and is no longer afterwards.
LEMMA CleanupOpen ==
    ASSUME MapInv, BufferInv, NEW c \in Calls, call[c] = "open", CleanupPendingRpc({c}),
           NEW x, x \notin {"open", "idle"}, call' = [call EXCEPT ![c] = x], UNCHANGED <<can, cancels>>
    PROVE  BufferInv'
<1>1. (({c} \cap pending) \ abandoned) = {c} /\ can[c] # "awaitSent"
  BY DEF MapInv, MapAt, Undecided
<1>2. pool' = pool \cup {buf[d] : d \in {c}} /\ UNCHANGED <<buf, content>>
  BY <1>1 DEF CleanupPendingRpc, Released
<1>3. \A d \in Calls : call'[d] = IF d = c THEN x ELSE call[d]
  BY DEF MapInv, MapTypes
<1>4. \A d \in Calls : Holds(d)' => Holds(d) /\ d \notin {c}
  BY <1>1, <1>3 DEF Holds
<1>5. \A d \in Calls : call[d] # "idle" => call'[d] # "idle"
  BY <1>3
<1> QED
  BY <1>2, <1>4, <1>5, Release

\* cleanupPendingRpc for a call that was abandoned: nothing goes back to the pool.
LEMMA CleanupAbandoned ==
    ASSUME MapInv, BufferInv, NEW c \in Calls, call[c] # "open", CleanupPendingRpc({c}),
           call' = call, \A d \in Calls : can'[d] = "awaitSent" => can[d] = "awaitSent",
           UNCHANGED cancels
    PROVE  BufferInv'
<1>1. (({c} \cap pending) \ abandoned) = {}
  BY DEF MapInv, MapAt
<1>2. UNCHANGED <<pool, buf, content>>
  BY <1>1 DEF CleanupPendingRpc, Released
<1>3. \A d \in Calls : Holds(d)' => Holds(d)
  BY DEF Holds
<1> QED
  BY <1>2, <1>3, NoRelease

\* call() draws a buffer nobody holds.
LEMMA BufferCall ==
    ASSUME MapInv, BufferInv, NEW c \in Calls, NEW b \in Buffers, NEW aborted \in BOOLEAN,
           Call(c, b, aborted)
    PROVE  BufferInv'
<1>1. /\ call[c] = "idle" /\ pool' = pool \ {b} /\ buf' = [buf EXCEPT ![c] = b]
      /\ content' = [content EXCEPT ![b] = c] /\ cancels' = cancels
  BY DEF Call, AcquireId, wireVars
<1>2. /\ \A d \in Calls : d # c => call'[d] = call[d] /\ can'[d] = can[d] /\ buf'[d] = buf[d]
      /\ call'[c] # "idle" /\ buf'[c] = b
      /\ content'[b] = c /\ \A x \in Buffers : x # b => content'[x] = content[x]
  BY <1>1 DEF Call, MapInv, MapTypes, BufferInv, BufferTypes
<1>3. b \in pool \/ content[b] = 0
  <2>1. CASE pool # {}
    BY <2>1 DEF Call, AcquireId
  <2>2. CASE pool = {}
    <3>1. b = CHOOSE x \in Buffers : content[x] = 0
      BY <2>2 DEF Call, AcquireId
    <3>2. \E x \in Buffers : content[x] = 0
      BY <1>1, FreshBuffer
    <3> QED
      BY <3>1, <3>2
  <2> QED
    BY <2>1, <2>2
<1>4. \A d \in Calls : Holds(d) => buf[d] # b
  BY <1>3, CallsArePositive DEF BufferInv, HeldPart
<1>5. BufferTypes'
  BY <1>1 DEF BufferInv, BufferTypes
<1>6. HeldPart'
  <2> SUFFICES ASSUME NEW d \in Calls, Holds(d)'
               PROVE  buf'[d] \in Buffers \ pool' /\ content'[buf'[d]] = d
    BY DEF HeldPart
  <2>1. CASE d = c
    BY <1>1, <1>2, <2>1
  <2>2. CASE d # c
    <3>1. Holds(d) /\ buf'[d] = buf[d]
      BY <1>2, <2>2 DEF Holds
    <3>2. buf[d] # b /\ buf[d] \in Buffers /\ buf[d] \notin pool /\ content[buf[d]] = d
      BY <1>4, <3>1 DEF BufferInv, HeldPart
    <3> QED
      BY <1>1, <1>2, <3>1, <3>2
  <2> QED
    BY <2>1, <2>2
<1>7. UsedPart'
  <2> SUFFICES ASSUME NEW x \in Buffers, content'[x] # 0
               PROVE  buf'[content'[x]] = x /\ call'[content'[x]] # "idle"
    BY DEF UsedPart
  <2>1. CASE x = b
    BY <1>2, <2>1
  <2>2. CASE x # b
    <3>1. /\ content'[x] = content[x] /\ content[x] \in Calls
          /\ buf[content[x]] = x /\ call[content[x]] # "idle"
      BY <1>2, <2>2 DEF BufferInv, BufferTypes, UsedPart
    <3> QED
      BY <1>1, <1>2, <3>1
  <2> QED
    BY <2>1, <2>2
<1> QED
  BY <1>1, <1>5, <1>6, <1>7 DEF BufferInv, CancellationNamesItsCall

\* The other actions of a call.
LEMMA BufferCallStep ==
    ASSUME MapInv, BufferInv, NEW c \in Calls,
           \/ \E b \in Buffers, aborted \in BOOLEAN : Call(c, b, aborted)
           \/ RequestSettles(c) \/ Abandon(c) \/ WriteCancellation(c)
           \/ RecvFrame(c) \/ RecvError(c) \/ NextFrame(c) \/ Cancel(c)
           \/ \E body \in BOOLEAN : RecvEnd(c, body)
           \/ \E r \in Outcomes : SettleCancellationResult(c, r)
    PROVE  BufferInv'
<1>0. /\ call \in [Calls -> {"idle", "open", "ended", "failed", "cancelled"}]
      /\ can \in [Calls -> {"none", "awaitSent", "waiting", "awaitResult", "settled"}]
  BY DEF MapInv, MapTypes
<1>1. CASE WriteRequest(c) \/ RequestSent(c) \/ RecvFrame(c) \/ NextFrame(c)
  <2>1. UNCHANGED <<call, can, buf, content, pool, cancels>>
    BY <1>1 DEF WriteRequest, RequestSent, RecvFrame, NextFrame, iterVars, poolVars, wireVars
  <2> QED
    BY <2>1, NoRelease DEF Holds
<1>2. ASSUME NEW reached \in BOOLEAN, RequestNotSent(c, reached) PROVE BufferInv'
  <2>0. Fail({c}) /\ UNCHANGED <<can, cancels>>
    BY <1>2 DEF RequestNotSent
  <2>1. CASE call[c] = "open"
    <3>1. CleanupPendingRpc({c}) /\ call' = [call EXCEPT ![c] = "failed"]
      BY <1>2, <2>0, <2>1, FailOne DEF RequestNotSent
    <3> QED
      BY <2>0, <2>1, <3>1, CleanupOpen
  <2>2. CASE call[c] # "open"
    <3>1. UNCHANGED <<call, buf, content, pool>>
      BY <1>2, <2>0, <2>2, FailOne DEF RequestNotSent, poolVars
    <3> QED
      BY <2>0, <3>1, NoRelease DEF Holds
  <2> QED
    BY <2>1, <2>2
<1>3. CASE RecvError(c)
  <2>0. /\ Fail(pending \cap {c}) /\ UNCHANGED <<can, cancels>>
        /\ (pending \cap {c} = {c} \/ pending \cap {c} = {})
    BY <1>3 DEF RecvError
  <2>1. CASE c \in pending /\ call[c] = "open"
    <3>1. CleanupPendingRpc({c}) /\ call' = [call EXCEPT ![c] = "failed"]
      BY <1>3, <2>0, <2>1, FailOne DEF RecvError
    <3> QED
      BY <2>0, <2>1, <3>1, CleanupOpen
  <2>2. CASE ~(c \in pending /\ call[c] = "open")
    <3>1. UNCHANGED <<call, buf, content, pool>>
      BY <1>3, <2>0, <2>2, FailOne DEF RecvError, poolVars
    <3> QED
      BY <2>0, <3>1, NoRelease DEF Holds
  <2> QED
    BY <2>1, <2>2
<1>4. ASSUME NEW body \in BOOLEAN, RecvEnd(c, body) PROVE BufferInv'
  <2>0. UNCHANGED <<can, cancels>>
    BY <1>4 DEF RecvEnd
  <2>1. CASE c \notin pending
    <3>1. UNCHANGED <<call, buf, content, pool>>
      BY <1>4, <2>1 DEF RecvEnd, iterVars, poolVars
    <3> QED
      BY <2>0, <3>1, NoRelease DEF Holds
  <2>2. CASE c \in pending /\ call[c] = "open"
    <3>1. CleanupPendingRpc({c}) /\ call' = [call EXCEPT ![c] = "ended"]
      BY <1>4, <2>2 DEF RecvEnd
    <3> QED
      BY <2>0, <2>2, <3>1, CleanupOpen
  <2>3. CASE c \in pending /\ call[c] # "open"
    <3>1. CleanupPendingRpc({c}) /\ call' = call
      BY <1>4, <2>3 DEF RecvEnd, iterVars
    <3> QED
      BY <2>0, <2>3, <3>1, CleanupAbandoned
  <2> QED
    BY <2>1, <2>2, <2>3
<1>5. CASE Cancel(c)
  <2>1. /\ call[c] = "open" /\ call' = [call EXCEPT ![c] = "cancelled"]
        /\ can' = [can EXCEPT ![c] = "awaitSent"] /\ UNCHANGED <<buf, content, pool, cancels>>
    BY <1>5 DEF Cancel, poolVars, wireVars
  <2>2. \A d \in Calls : Holds(d)' => Holds(d)
    BY <1>0, <2>1 DEF Holds
  <2>3. \A d \in Calls : call[d] # "idle" => call'[d] # "idle"
    BY <1>0, <2>1
  <2> QED
    BY <2>1, <2>2, <2>3, NoRelease
<1>6. ASSUME can[c] \in Undecided, CleanupPendingRpc({c}), can' = [can EXCEPT ![c] = "settled"],
             UNCHANGED <<call, cancels>>
      PROVE  BufferInv'
  <2>1. call[c] # "open"
    BY <1>6 DEF MapInv, MapAt
  <2>2. \A d \in Calls : can'[d] = "awaitSent" => can[d] = "awaitSent"
    BY <1>0, <1>6
  <2> QED
    BY <1>6, <2>1, <2>2, CleanupAbandoned
<1>7. CASE AbandonLocally(c)
  BY <1>6, <1>7 DEF AbandonLocally, Undecided, wireVars
<1>8. CASE SendCancellationRequest(c)
  <2>1. /\ can[c] = "awaitSent" /\ can' = [can EXCEPT ![c] = "waiting"]
        /\ cancels' = cancels \cup {<<c, content[buf[c]]>>}
        /\ UNCHANGED <<call, buf, content, pool>>
    BY <1>8 DEF SendCancellationRequest, iterVars, poolVars
  <2>2. content[buf[c]] = c
    BY <2>1 DEF BufferInv, HeldPart, Holds
  <2>3. BufferTypes'
    BY <2>1, <2>2 DEF BufferInv, BufferTypes
  <2>4. \A d \in Calls : Holds(d)' => Holds(d)
    BY <1>0, <2>1 DEF Holds
  <2>5. HeldPart'
    BY <2>1, <2>4 DEF BufferInv, HeldPart
  <2>6. UsedPart'
    BY <2>1 DEF BufferInv, UsedPart
  <2>7. CancellationNamesItsCall'
    BY <2>1, <2>2 DEF BufferInv, CancellationNamesItsCall
  <2> QED
    BY <2>3, <2>5, <2>6, <2>7 DEF BufferInv
<1>9. CASE WriteCancellation(c)
  <2>1. /\ can' = [can EXCEPT ![c] = "awaitResult"] /\ UNCHANGED <<call, buf, content, pool, cancels>>
    BY <1>9 DEF WriteCancellation, iterVars, poolVars, wireVars
  <2>2. \A d \in Calls : Holds(d)' => Holds(d)
    BY <1>0, <2>1 DEF Holds
  <2> QED
    BY <2>1, <2>2, NoRelease
<1>10. ASSUME NEW r \in Outcomes, SettleCancellationResult(c, r) PROVE BufferInv'
  <2>1. can[c] \in Undecided
    BY <1>10 DEF SettleCancellationResult, MapInv, MapAt, Undecided
  <2> QED
    BY <1>6, <1>10, <2>1 DEF SettleCancellationResult, wireVars
<1> QED
  BY <1>1, <1>2, <1>3, <1>4, <1>5, <1>7, <1>8, <1>9, <1>10, BufferCall
     DEF RequestSettles, Abandon

\* A disconnect recycles the buffers of the open calls and of no other.
LEMMA BufferDisconnect ==
    ASSUME MapInv, BufferInv, Disconnect
    PROVE  BufferInv'
<1> DEFINE live == {c \in pending : call[c] = "open"}
<1>1. /\ pool' = pool \cup Released(live) /\ UNCHANGED <<buf, content, cancels>>
      /\ call' = [c \in Calls |-> IF c \in live THEN "failed" ELSE call[c]]
      /\ can' = [c \in Calls |-> IF c \in cancelling THEN "settled" ELSE can[c]]
  BY DEF Disconnect
<1>2. (live \cap pending) \ abandoned = live
  BY DEF MapInv, MapTypes, MapAt
<1>3. pool' = pool \cup {buf[c] : c \in live}
  BY <1>1, <1>2 DEF Released
<1>4. live \in SUBSET Calls /\ \A c \in live : call[c] = "open"
  BY DEF MapInv, MapTypes
<1>5. ASSUME NEW c \in Calls PROVE Holds(c)' => Holds(c) /\ c \notin live
  <2>1. /\ call'[c] = "open" => call[c] = "open" /\ c \notin live
        /\ can'[c] = "awaitSent" => can[c] = "awaitSent"
    BY <1>1
  <2>2. can[c] = "awaitSent" => c \notin live
    BY DEF MapInv, MapAt, Undecided
  <2> QED
    BY <2>1, <2>2 DEF Holds
<1>6. \A c \in Calls : call[c] # "idle" => call'[c] # "idle"
  BY <1>1
<1> HIDE DEF live
<1> QED
  BY <1>1, <1>3, <1>4, <1>5, <1>6, Release

\* Every step keeps the buffers right.
LEMMA BufferStep ==
    ASSUME MapInv, BufferInv, [Next]_vars
    PROVE  BufferInv'
<1>1. CASE Reconnect \/ UNCHANGED vars
  <2>1. UNCHANGED <<call, can, buf, content, pool, cancels>>
    BY <1>1 DEF Reconnect, vars, iterVars, poolVars, wireVars
  <2> QED
    BY <2>1, NoRelease DEF Holds
<1> QED
  BY <1>1, BufferCallStep, BufferDisconnect DEF Next

\* Initially no buffer was used.
LEMMA BufferInit == Init => BufferInv
<1> SUFFICES ASSUME Init PROVE BufferInv
  OBVIOUS
<1>1. BufferTypes
  BY DEF Init, BufferTypes
<1>2. HeldPart
  BY DEF Init, HeldPart, Holds
<1>3. UsedPart /\ CancellationNamesItsCall
  BY DEF Init, UsedPart, CancellationNamesItsCall
<1> QED
  BY <1>1, <1>2, <1>3 DEF BufferInv

-----------------------------------------------------------------------------
(* Which frames next() hands out *)

Frames == 1..(MaxFrames + 1)

OrderTypes ==
    /\ req \in [Calls -> {"none", "waiting", "written", "sent", "unsent"}]
    /\ frames \in [Calls -> Seq(Frames)] /\ got \in [Calls -> Seq(Frames)]
    /\ consumer \in [Calls -> {"idle", "waiting", "finished"}]
    /\ srv \in [Calls -> {"none", "serving", "over"}]
    /\ served \in [Calls -> 0..(MaxFrames + 1)]

\* The sequence 1, 2, 3 and so on.
Counted(s) == s = [i \in 1..Len(s) |-> i]

\* FramesInOrder for one call, and what it rests on: next() waits only when nothing is
\* buffered, and the broker sends nothing before the request nor after the end.
OrderAt(c) ==
    /\ Counted(got[c] \o frames[c])
    /\ call[c] # "cancelled" => Len(got[c] \o frames[c]) = served[c]
    /\ consumer[c] = "waiting" => frames[c] = <<>>
    /\ call[c] = "idle" => req[c] = "none"
    /\ call[c] = "idle" \/ req[c] = "waiting" => srv[c] = "none"
    /\ srv[c] # "over" => served[c] <= MaxFrames

OrderInv == OrderTypes /\ \A c \in Calls : OrderAt(c)

\* One more frame, with the next number.
LEMMA CountedAppend ==
    ASSUME NEW T, NEW s \in Seq(T), Counted(s)
    PROVE  Counted(Append(s, Len(s) + 1)) /\ Len(Append(s, Len(s) + 1)) = Len(s) + 1
<1>1. PICK n \in Nat : Len(s) = n
  OBVIOUS
<1>2. /\ Len(Append(s, n + 1)) = n + 1
      /\ Append(s, n + 1) = [i \in 1..(n + 1) |-> IF i = n + 1 THEN n + 1 ELSE s[i]]
  BY <1>1
<1>3. \A i \in 1..n : s[i] = i
  BY <1>1 DEF Counted
<1>4. Append(s, n + 1) = [i \in 1..(n + 1) |-> i]
  BY <1>2, <1>3
<1> QED
  BY <1>1, <1>2, <1>4 DEF Counted

\* A frame is buffered.
LEMMA PushBuffered ==
    ASSUME NEW T, NEW g \in Seq(T), NEW f \in Seq(T), NEW n \in T
    PROVE  g \o Append(f, n) = Append(g \o f, n) /\ g \o f \in Seq(T)
OBVIOUS

\* A frame goes to the waiting next().
LEMMA PushHandedOut ==
    ASSUME NEW T, NEW g \in Seq(T), NEW n \in T
    PROVE  Append(g, n) \o <<>> = Append(g \o <<>>, n) /\ g \o <<>> \in Seq(T)
OBVIOUS

\* next() takes the oldest buffered frame.
LEMMA NextTakes ==
    ASSUME NEW T, NEW g \in Seq(T), NEW f \in Seq(T), f # <<>>
    PROVE  Append(g, Head(f)) \o Tail(f) = g \o f
OBVIOUS

\* Dropping what is buffered.
LEMMA DropBuffered ==
    ASSUME NEW T, NEW g \in Seq(T), NEW f \in Seq(T), Counted(g \o f)
    PROVE  Counted(g \o <<>>)
<1>1. PICK m \in Nat : Len(g) = m
  OBVIOUS
<1>2. PICK n \in Nat : Len(f) = n
  OBVIOUS
<1>3. /\ Len(g \o f) = m + n /\ \A i \in 1..m : (g \o f)[i] = g[i]
      /\ g \o <<>> = g
  BY <1>1, <1>2
<1>4. \A i \in 1..m : g[i] = i
  <2>1. g \o f = [i \in 1..(m + n) |-> i]
    BY <1>3 DEF Counted
  <2>2. \A i \in 1..m : i \in 1..(m + n)
    OBVIOUS
  <2> QED
    BY <1>3, <2>1, <2>2
<1>5. g = [i \in 1..m |-> g[i]]
  BY <1>1
<1>6. g = [i \in 1..m |-> i]
  BY <1>4, <1>5
<1> QED
  BY <1>1, <1>3, <1>6 DEF Counted

\* A call whose frames an action leaves alone.
LEMMA OrderSame ==
    ASSUME NEW c, OrderAt(c), got'[c] = got[c], frames'[c] = frames[c], served'[c] = served[c],
           call'[c] # "cancelled" => call[c] # "cancelled",
           consumer'[c] = "waiting" => consumer[c] = "waiting",
           call'[c] = "idle" => req'[c] = "none",
           call'[c] = "idle" \/ req'[c] = "waiting" => srv'[c] = "none",
           srv'[c] # "over" => srv[c] # "over"
    PROVE  OrderAt(c)'
BY DEF OrderAt

\* Nothing about the frames changes.
LEMMA OrderUnchanged ==
    ASSUME OrderInv, UNCHANGED <<call, req, frames, got, consumer, srv, served>>
    PROVE  OrderInv'
<1>1. OrderTypes'
  BY DEF OrderInv, OrderTypes
<1>2. \A c \in Calls : OrderAt(c)'
  BY OrderSame DEF OrderInv, OrderAt
<1> QED
  BY <1>1, <1>2 DEF OrderInv

\* iterator.push on an open call.
LEMMA PushOrder ==
    ASSUME OrderInv, NEW c \in Calls, call[c] = "open", served[c] <= MaxFrames,
           Push(c, served[c] + 1)
    PROVE  /\ frames' \in [Calls -> Seq(Frames)] /\ got' \in [Calls -> Seq(Frames)]
           /\ consumer' \in [Calls -> {"idle", "waiting", "finished"}]
           /\ \A d \in Calls : d # c => /\ frames'[d] = frames[d] /\ got'[d] = got[d]
                                        /\ consumer'[d] = consumer[d]
           /\ Counted(got'[c] \o frames'[c]) /\ Len(got'[c] \o frames'[c]) = served[c] + 1
           /\ consumer'[c] # "waiting"
<1>0. MaxFrames \in Nat
  BY CallerAssumption
<1>1. /\ frames \in [Calls -> Seq(Frames)] /\ got \in [Calls -> Seq(Frames)]
      /\ consumer \in [Calls -> {"idle", "waiting", "finished"}]
      /\ got[c] \in Seq(Frames) /\ frames[c] \in Seq(Frames)
  BY DEF OrderInv, OrderTypes
<1>2. served[c] \in Nat /\ served[c] + 1 \in Frames
  BY <1>0 DEF OrderInv, OrderTypes, Frames
<1>3. Counted(got[c] \o frames[c]) /\ Len(got[c] \o frames[c]) = served[c]
  BY DEF OrderInv, OrderAt
<1>4. got[c] \o frames[c] \in Seq(Frames)
  BY <1>1
<1>5. /\ Counted(Append(got[c] \o frames[c], served[c] + 1))
      /\ Len(Append(got[c] \o frames[c], served[c] + 1)) = served[c] + 1
  BY <1>3, <1>4, CountedAppend
<1>6. CASE consumer[c] = "waiting"
  <2>1. /\ consumer' = [consumer EXCEPT ![c] = "idle"]
        /\ got' = [got EXCEPT ![c] = Append(got[c], served[c] + 1)] /\ frames' = frames
    BY <1>6 DEF Push
  <2>2. frames[c] = <<>>
    BY <1>6 DEF OrderInv, OrderAt
  <2>3. Append(got[c], served[c] + 1) \in Seq(Frames)
    BY <1>1, <1>2
  <2>4. /\ got' \in [Calls -> Seq(Frames)] /\ got'[c] = Append(got[c], served[c] + 1)
        /\ \A d \in Calls : d # c => got'[d] = got[d]
    BY <1>1, <2>1, <2>3
  <2>5. got'[c] \o frames'[c] = Append(got[c] \o frames[c], served[c] + 1)
    BY <1>1, <1>2, <2>1, <2>2, <2>4, PushHandedOut
  <2>6. /\ consumer' \in [Calls -> {"idle", "waiting", "finished"}] /\ consumer'[c] = "idle"
        /\ \A d \in Calls : d # c => consumer'[d] = consumer[d]
    BY <1>1, <2>1
  <2> QED
    BY <1>1, <1>5, <2>1, <2>4, <2>5, <2>6
<1>7. CASE consumer[c] # "waiting"
  <2>1. /\ frames' = [frames EXCEPT ![c] = Append(frames[c], served[c] + 1)]
        /\ UNCHANGED <<got, consumer>>
    BY <1>7 DEF Push
  <2>2. Append(frames[c], served[c] + 1) \in Seq(Frames)
    BY <1>1, <1>2
  <2>3. /\ frames' \in [Calls -> Seq(Frames)] /\ frames'[c] = Append(frames[c], served[c] + 1)
        /\ \A d \in Calls : d # c => frames'[d] = frames[d]
    BY <1>1, <2>1, <2>2
  <2>4. got'[c] \o frames'[c] = Append(got[c] \o frames[c], served[c] + 1)
    BY <1>1, <1>2, <2>1, <2>3, PushBuffered
  <2> QED
    BY <1>1, <1>5, <1>7, <2>1, <2>3, <2>4
<1> QED
  BY <1>6, <1>7

\* iterator.fail leaves the frames alone.
LEMMA FailFrames ==
    ASSUME MapInv, OrderInv, NEW C, Fail(C)
    PROVE  /\ UNCHANGED <<got, frames>>
           /\ consumer' \in [Calls -> {"idle", "waiting", "finished"}]
           /\ \A d \in Calls : /\ consumer'[d] = "waiting" => consumer[d] = "waiting"
                               /\ call'[d] = "cancelled" <=> call[d] = "cancelled"
                               /\ call'[d] = "idle" => call[d] = "idle"
<1>1. /\ call' = [d \in Calls |-> IF d \in C /\ call[d] = "open" THEN "failed" ELSE call[d]]
      /\ consumer' = [d \in Calls |->
            IF d \in C /\ call[d] = "open" /\ consumer[d] = "waiting" THEN "finished" ELSE consumer[d]]
      /\ UNCHANGED <<got, frames>>
  BY DEF Fail
<1>2. consumer' \in [Calls -> {"idle", "waiting", "finished"}]
  BY <1>1 DEF OrderInv, OrderTypes
<1> QED
  BY <1>1, <1>2

\* The actions of a call keep its frames in order.
LEMMA OrderCallStep ==
    ASSUME MapInv, OrderInv, NEW c \in Calls,
           \/ \E b \in Buffers, aborted \in BOOLEAN : Call(c, b, aborted)
           \/ RequestSettles(c) \/ Abandon(c) \/ WriteCancellation(c)
           \/ RecvFrame(c) \/ RecvError(c) \/ NextFrame(c) \/ Cancel(c)
           \/ \E body \in BOOLEAN : RecvEnd(c, body)
           \/ \E r \in Outcomes : SettleCancellationResult(c, r)
    PROVE  OrderInv'
<1>0. /\ call \in [Calls -> {"idle", "open", "ended", "failed", "cancelled"}]
      /\ req \in [Calls -> {"none", "waiting", "written", "sent", "unsent"}]
      /\ frames \in [Calls -> Seq(Frames)] /\ got \in [Calls -> Seq(Frames)]
      /\ consumer \in [Calls -> {"idle", "waiting", "finished"}]
      /\ srv \in [Calls -> {"none", "serving", "over"}]
      /\ served \in [Calls -> 0..(MaxFrames + 1)]
      /\ MaxFrames \in Nat
  BY CallerAssumption DEF MapInv, MapTypes, OrderInv, OrderTypes
<1>00. \A d \in Calls : OrderAt(d)
  BY DEF OrderInv
<1>1. ASSUME NEW b \in Buffers, NEW aborted \in BOOLEAN, Call(c, b, aborted) PROVE OrderInv'
  <2>1. /\ call[c] = "idle" /\ UNCHANGED <<frames, consumer, got, srv, served>>
        /\ \E x \in {"cancelled", "open"} : call' = [call EXCEPT ![c] = x]
        /\ \E y \in {"unsent", "waiting"} : req' = [req EXCEPT ![c] = y]
    BY <1>1 DEF Call, wireVars
  <2>2. OrderTypes'
    BY <1>0, <2>1 DEF OrderTypes
  <2>3. srv[c] = "none"
    BY <1>00, <2>1 DEF OrderAt
  <2>4. ASSUME NEW d \in Calls PROVE OrderAt(d)'
    <3>1. /\ call'[d] # "cancelled" => call[d] # "cancelled"
          /\ call'[d] = "idle" => call[d] = "idle" /\ req'[d] = req[d]
          /\ req'[d] = "waiting" => call[d] = "idle" \/ req[d] = "waiting"
      BY <1>0, <2>1
    <3>2. (call[d] = "idle" => req[d] = "none") /\ (call[d] = "idle" \/ req[d] = "waiting" => srv[d] = "none")
      BY <1>00 DEF OrderAt
    <3> QED
      BY <1>00, <2>1, <3>1, <3>2, OrderSame
  <2> QED
    BY <2>2, <2>4 DEF OrderInv
<1>2. CASE WriteRequest(c)
  <2>1. /\ req' = [req EXCEPT ![c] = "written"] /\ srv' = [srv EXCEPT ![c] = "serving"]
        /\ req[c] = "waiting" /\ UNCHANGED <<call, frames, consumer, got, served>>
    BY <1>2 DEF WriteRequest, iterVars
  <2>2. OrderTypes'
    BY <1>0, <2>1 DEF OrderTypes
  <2>3. srv[c] = "none"
    BY <1>00, <2>1 DEF OrderAt
  <2>4. call[c] # "idle"
    BY <1>00, <2>1 DEF OrderAt
  <2>5. ASSUME NEW d \in Calls PROVE OrderAt(d)'
    BY <1>0, <1>00, <2>1, <2>3, <2>4 DEF OrderAt
  <2> QED
    BY <2>2, <2>5 DEF OrderInv
<1>3. CASE RequestSent(c)
  <2>1. /\ req[c] = "written" /\ req' = [req EXCEPT ![c] = "sent"]
        /\ UNCHANGED <<call, frames, consumer, got, served, srv>>
    BY <1>3 DEF RequestSent, iterVars, wireVars
  <2>2. OrderTypes'
    BY <1>0, <2>1 DEF OrderTypes
  <2>3. ASSUME NEW d \in Calls PROVE OrderAt(d)'
    BY <1>0, <1>00, <2>1 DEF OrderAt
  <2> QED
    BY <2>2, <2>3 DEF OrderInv
<1>4. ASSUME NEW reached \in BOOLEAN, RequestNotSent(c, reached) PROVE OrderInv'
  <2>1. /\ req[c] = "waiting" /\ req' = [req EXCEPT ![c] = "unsent"]
        /\ srv' = [srv EXCEPT ![c] = IF reached THEN "serving" ELSE "none"]
        /\ (reached => call[c] = "cancelled") /\ Fail({c}) /\ served' = served
    BY <1>4 DEF RequestNotSent
  <2>2. /\ UNCHANGED <<got, frames>>
        /\ consumer' \in [Calls -> {"idle", "waiting", "finished"}]
        /\ \A d \in Calls : /\ consumer'[d] = "waiting" => consumer[d] = "waiting"
                            /\ call'[d] = "cancelled" <=> call[d] = "cancelled"
                            /\ call'[d] = "idle" => call[d] = "idle"
    BY <2>1, FailFrames
  <2>3. OrderTypes'
    BY <1>0, <2>1, <2>2 DEF OrderTypes
  <2>4. ASSUME NEW d \in Calls PROVE OrderAt(d)'
    <3>1. (call[d] = "idle" => req[d] = "none") /\ (call[d] = "idle" \/ req[d] = "waiting" => srv[d] = "none")
      BY <1>00 DEF OrderAt
    <3>2. (call'[d] = "idle" => req'[d] = "none") /\ (call'[d] = "idle" \/ req'[d] = "waiting" => srv'[d] = "none")
      <4>1. CASE d = c
        BY <1>0, <2>1, <2>2, <3>1, <4>1
      <4>2. CASE d # c
        BY <1>0, <2>1, <2>2, <3>1, <4>2
      <4> QED
        BY <4>1, <4>2
    <3>3. srv'[d] # "over" => srv[d] # "over"
      BY <1>0, <2>1, <3>1
    <3> QED
      BY <1>00, <2>1, <2>2, <3>2, <3>3, OrderSame
  <2> QED
    BY <2>3, <2>4 DEF OrderInv
<1>5. CASE Abandon(c) \/ WriteCancellation(c) \/ \E r \in Outcomes : SettleCancellationResult(c, r)
  <2>1. UNCHANGED <<call, req, frames, got, consumer, srv, served>>
    BY <1>5 DEF Abandon, AbandonLocally, SendCancellationRequest, WriteCancellation,
                SettleCancellationResult, iterVars, wireVars
  <2> QED
    BY <2>1, OrderUnchanged
<1>6. CASE RecvFrame(c)
  <2>1. /\ srv[c] = "serving" /\ served[c] < MaxFrames /\ UNCHANGED <<call, req, srv>>
        /\ served' = [served EXCEPT ![c] = IF call[c] = "open" THEN served[c] + 1 ELSE served[c]]
    BY <1>6 DEF RecvFrame
  <2>2. CASE call[c] = "open"
    <3>1. c \in pending /\ served[c] <= MaxFrames
      BY <1>0, <2>1, <2>2 DEF MapInv, MapAt
    <3>2. Push(c, served[c] + 1)
      BY <1>6, <3>1 DEF RecvFrame
    <3>3. /\ frames' \in [Calls -> Seq(Frames)] /\ got' \in [Calls -> Seq(Frames)]
          /\ consumer' \in [Calls -> {"idle", "waiting", "finished"}]
          /\ \A d \in Calls : d # c => /\ frames'[d] = frames[d] /\ got'[d] = got[d]
                                       /\ consumer'[d] = consumer[d]
          /\ Counted(got'[c] \o frames'[c]) /\ Len(got'[c] \o frames'[c]) = served[c] + 1
          /\ consumer'[c] # "waiting"
      BY <2>2, <3>1, <3>2, PushOrder
    <3>4. /\ served' \in [Calls -> 0..(MaxFrames + 1)] /\ served'[c] = served[c] + 1
          /\ served[c] + 1 <= MaxFrames /\ \A d \in Calls : d # c => served'[d] = served[d]
      BY <1>0, <2>1, <2>2
    <3>5. OrderTypes'
      BY <1>0, <2>1, <3>3, <3>4 DEF OrderTypes
    <3>6. OrderAt(c)'
      <4>1. (call[c] = "idle" => req[c] = "none") /\ (call[c] = "idle" \/ req[c] = "waiting" => srv[c] = "none")
        BY <1>00 DEF OrderAt
      <4> QED
        BY <2>1, <2>2, <3>3, <3>4, <4>1 DEF OrderAt
    <3>7. ASSUME NEW d \in Calls, d # c PROVE OrderAt(d)'
      <4>1. /\ frames'[d] = frames[d] /\ got'[d] = got[d] /\ consumer'[d] = consumer[d]
            /\ served'[d] = served[d]
        BY <3>3, <3>4, <3>7
      <4> QED
        BY <1>00, <2>1, <4>1 DEF OrderAt
    <3> QED
      BY <3>5, <3>6, <3>7 DEF OrderInv
  <2>3. CASE call[c] # "open"
    <3>1. served' = served
      BY <1>0, <2>1, <2>3
    <3>2. UNCHANGED <<frames, got, consumer>>
      BY <1>6, <2>3 DEF RecvFrame, Push
    <3> QED
      BY <2>1, <3>1, <3>2, OrderUnchanged
  <2> QED
    BY <2>2, <2>3
<1>7. CASE RecvError(c)
  <2>1. /\ srv' = [srv EXCEPT ![c] = "over"] /\ srv[c] = "serving"
        /\ Fail(pending \cap {c}) /\ UNCHANGED <<req, served>>
    BY <1>7 DEF RecvError
  <2>2. /\ UNCHANGED <<got, frames>>
        /\ consumer' \in [Calls -> {"idle", "waiting", "finished"}]
        /\ \A d \in Calls : /\ consumer'[d] = "waiting" => consumer[d] = "waiting"
                            /\ call'[d] = "cancelled" <=> call[d] = "cancelled"
                            /\ call'[d] = "idle" => call[d] = "idle"
    BY <2>1, FailFrames
  <2>3. OrderTypes'
    BY <1>0, <2>1, <2>2 DEF OrderTypes
  <2>4. ASSUME NEW d \in Calls PROVE OrderAt(d)'
    <3>1. (call[d] = "idle" => req[d] = "none") /\ (call[d] = "idle" \/ req[d] = "waiting" => srv[d] = "none")
      BY <1>00 DEF OrderAt
    <3>2. (call'[d] = "idle" => req'[d] = "none") /\ (call'[d] = "idle" \/ req'[d] = "waiting" => srv'[d] = "none")
      BY <1>0, <2>1, <2>2, <3>1
    <3>3. srv'[d] # "over" => srv[d] # "over"
      BY <1>0, <2>1
    <3> QED
      BY <1>00, <2>1, <2>2, <3>2, <3>3, OrderSame
  <2> QED
    BY <2>3, <2>4 DEF OrderInv
<1>8. CASE NextFrame(c)
  <2>0. /\ call[c] # "idle" /\ consumer[c] = "idle" /\ UNCHANGED <<call, req, srv, served>>
        /\ got[c] \in Seq(Frames) /\ frames[c] \in Seq(Frames)
    BY <1>0, <1>8 DEF NextFrame, wireVars
  <2>1. CASE frames[c] # <<>>
    <3>1. /\ got' = [got EXCEPT ![c] = Append(got[c], Head(frames[c]))]
          /\ frames' = [frames EXCEPT ![c] = Tail(frames[c])] /\ UNCHANGED consumer
      BY <1>8, <2>1 DEF NextFrame
    <3>2. Append(got[c], Head(frames[c])) \in Seq(Frames) /\ Tail(frames[c]) \in Seq(Frames)
      BY <2>0, <2>1
    <3>3. /\ got' \in [Calls -> Seq(Frames)] /\ frames' \in [Calls -> Seq(Frames)]
          /\ got'[c] = Append(got[c], Head(frames[c])) /\ frames'[c] = Tail(frames[c])
          /\ \A d \in Calls : d # c => got'[d] = got[d] /\ frames'[d] = frames[d]
      BY <1>0, <3>1, <3>2
    <3>4. got'[c] \o frames'[c] = got[c] \o frames[c]
      BY <2>0, <2>1, <3>3, NextTakes
    <3>5. OrderTypes'
      BY <1>0, <2>0, <3>1, <3>3 DEF OrderTypes
    <3>6. OrderAt(c)'
      BY <1>00, <2>0, <3>1, <3>4 DEF OrderAt
    <3>7. ASSUME NEW d \in Calls, d # c PROVE OrderAt(d)'
      BY <1>00, <2>0, <3>1, <3>3, <3>7 DEF OrderAt
    <3> QED
      BY <3>5, <3>6, <3>7 DEF OrderInv
  <2>2. CASE frames[c] = <<>>
    <3>1. /\ \E x \in {"waiting", "finished"} : consumer' = [consumer EXCEPT ![c] = x]
          /\ UNCHANGED <<got, frames>>
      BY <1>8, <2>2 DEF NextFrame
    <3>2. OrderTypes'
      BY <1>0, <2>0, <3>1 DEF OrderTypes
    <3>3. ASSUME NEW d \in Calls PROVE OrderAt(d)'
      <4>1. consumer'[d] = "waiting" => frames'[d] = <<>>
        <5>1. consumer'[d] = "waiting" => consumer[d] = "waiting" \/ d = c
          BY <1>0, <3>1
        <5> QED
          BY <1>00, <2>2, <3>1, <5>1 DEF OrderAt
      <4> QED
        BY <1>00, <2>0, <3>1, <4>1 DEF OrderAt
    <3> QED
      BY <3>2, <3>3 DEF OrderInv
  <2> QED
    BY <2>1, <2>2
<1>9. CASE Cancel(c)
  <2>1. /\ call[c] = "open" /\ call' = [call EXCEPT ![c] = "cancelled"]
        /\ frames' = [frames EXCEPT ![c] = <<>>]
        /\ consumer' = [consumer EXCEPT ![c] = IF consumer[c] = "waiting" THEN "finished" ELSE consumer[c]]
        /\ UNCHANGED <<got, req, srv, served>>
    BY <1>9 DEF Cancel, wireVars
  <2>2. /\ call'[c] = "cancelled" /\ frames'[c] = <<>>
        /\ \A d \in Calls : d # c => call'[d] = call[d] /\ frames'[d] = frames[d]
        /\ \A d \in Calls : consumer'[d] = "waiting" => consumer[d] = "waiting"
    BY <1>0, <2>1
  <2>3. OrderTypes'
    <3>1. frames' \in [Calls -> Seq(Frames)]
      <4>1. <<>> \in Seq(Frames)
        OBVIOUS
      <4> QED
        BY <1>0, <2>1, <4>1
    <3>2. consumer' \in [Calls -> {"idle", "waiting", "finished"}]
      BY <1>0, <2>1
    <3> QED
      BY <1>0, <2>1, <3>1, <3>2 DEF OrderTypes
  <2>4. OrderAt(c)'
    <3>1. Counted(got[c] \o <<>>)
      <4>1. got[c] \in Seq(Frames) /\ frames[c] \in Seq(Frames) /\ Counted(got[c] \o frames[c])
        BY <1>0, <1>00 DEF OrderAt
      <4> QED
        BY <4>1, DropBuffered
    <3>2. /\ call[c] = "idle" \/ req[c] = "waiting" => srv[c] = "none"
          /\ srv[c] # "over" => served[c] <= MaxFrames
      BY <1>00 DEF OrderAt
    <3> QED
      BY <2>1, <2>2, <3>1, <3>2 DEF OrderAt
  <2>5. ASSUME NEW d \in Calls, d # c PROVE OrderAt(d)'
    <3>1. call'[d] = call[d] /\ frames'[d] = frames[d] /\ (consumer'[d] = "waiting" => consumer[d] = "waiting")
      BY <2>2, <2>5
    <3>2. (call[d] = "idle" => req[d] = "none") /\ (call[d] = "idle" \/ req[d] = "waiting" => srv[d] = "none")
      BY <1>00 DEF OrderAt
    <3> QED
      BY <1>00, <2>1, <3>1, <3>2, OrderSame
  <2> QED
    BY <2>3, <2>4, <2>5 DEF OrderInv
<1>10. ASSUME NEW body \in BOOLEAN, RecvEnd(c, body) PROVE OrderInv'
  <2>1. /\ srv[c] = "serving" /\ srv' = [srv EXCEPT ![c] = "over"] /\ req' = req
        /\ served' = [served EXCEPT ![c] = IF body /\ call[c] = "open" THEN served[c] + 1 ELSE served[c]]
    BY <1>10 DEF RecvEnd
  <2>2. /\ srv'[c] = "over" /\ srv' \in [Calls -> {"none", "serving", "over"}]
        /\ \A d \in Calls : d # c => srv'[d] = srv[d]
    BY <1>0, <2>1
  <2>3. served[c] <= MaxFrames /\ req[c] # "waiting" /\ call[c] # "idle"
    BY <1>00, <2>1 DEF OrderAt
  <2>4. CASE call[c] = "open" /\ body
    <3>1. /\ c \in pending /\ Push(c, served[c] + 1) /\ call' = [call EXCEPT ![c] = "ended"]
      BY <1>10, <2>4 DEF RecvEnd, MapInv, MapAt
    <3>2. /\ frames' \in [Calls -> Seq(Frames)] /\ got' \in [Calls -> Seq(Frames)]
          /\ consumer' \in [Calls -> {"idle", "waiting", "finished"}]
          /\ \A d \in Calls : d # c => /\ frames'[d] = frames[d] /\ got'[d] = got[d]
                                       /\ consumer'[d] = consumer[d]
          /\ Counted(got'[c] \o frames'[c]) /\ Len(got'[c] \o frames'[c]) = served[c] + 1
          /\ consumer'[c] # "waiting"
      BY <2>3, <2>4, <3>1, PushOrder
    <3>3. /\ served' \in [Calls -> 0..(MaxFrames + 1)] /\ served'[c] = served[c] + 1
          /\ \A d \in Calls : d # c => served'[d] = served[d]
      BY <1>0, <2>1, <2>3, <2>4
    <3>4. call'[c] = "ended" /\ \A d \in Calls : d # c => call'[d] = call[d]
      BY <1>0, <3>1
    <3>5. OrderTypes'
      BY <1>0, <2>1, <2>2, <3>2, <3>3 DEF OrderTypes
    <3>6. OrderAt(c)'
      BY <2>1, <2>2, <2>3, <3>2, <3>3, <3>4 DEF OrderAt
    <3>7. ASSUME NEW d \in Calls, d # c PROVE OrderAt(d)'
      <4>1. /\ frames'[d] = frames[d] /\ got'[d] = got[d] /\ consumer'[d] = consumer[d]
            /\ served'[d] = served[d] /\ call'[d] = call[d] /\ srv'[d] = srv[d] /\ req'[d] = req[d]
        BY <2>1, <2>2, <3>2, <3>3, <3>4, <3>7
      <4> QED
        BY <1>00, <4>1 DEF OrderAt
    <3> QED
      BY <3>5, <3>6, <3>7 DEF OrderInv
  <2>5. CASE ~(call[c] = "open" /\ body)
    <3>1. served' = served
      BY <1>0, <2>1, <2>5
    <3>2. UNCHANGED <<frames, got>>
      BY <1>10, <2>5 DEF RecvEnd, iterVars, MapInv, MapAt
    <3>3. consumer' = consumer \/ consumer' = [consumer EXCEPT ![c] =
                                    IF consumer[c] = "waiting" THEN "finished" ELSE consumer[c]]
      BY <1>10, <2>5 DEF RecvEnd, iterVars
    <3>4. call' = call \/ (call[c] = "open" /\ call' = [call EXCEPT ![c] = "ended"])
      BY <1>10 DEF RecvEnd, iterVars
    <3>5. /\ consumer' \in [Calls -> {"idle", "waiting", "finished"}]
          /\ \A d \in Calls : consumer'[d] = "waiting" => consumer[d] = "waiting"
      BY <1>0, <3>3
    <3>6. /\ \A d \in Calls : call'[d] # "cancelled" => call[d] # "cancelled"
          /\ \A d \in Calls : call'[d] = "idle" => call[d] = "idle"
      BY <1>0, <3>4
    <3>7. OrderTypes'
      BY <1>0, <2>1, <2>2, <3>1, <3>2, <3>5 DEF OrderTypes
    <3>8. ASSUME NEW d \in Calls PROVE OrderAt(d)'
      <4>1. (call[d] = "idle" => req[d] = "none") /\ (call[d] = "idle" \/ req[d] = "waiting" => srv[d] = "none")
        BY <1>00 DEF OrderAt
      <4>2. (call'[d] = "idle" => req'[d] = "none") /\ (call'[d] = "idle" \/ req'[d] = "waiting" => srv'[d] = "none")
        BY <2>1, <2>2, <2>3, <3>6, <4>1
      <4>3. srv'[d] # "over" => srv[d] # "over"
        BY <2>1, <2>2
      <4> QED
        BY <1>00, <3>1, <3>2, <3>5, <3>6, <4>2, <4>3, OrderSame
    <3> QED
      BY <3>7, <3>8 DEF OrderInv
  <2> QED
    BY <2>4, <2>5
<1> QED
  BY <1>1, <1>2, <1>3, <1>4, <1>5, <1>6, <1>7, <1>8, <1>9, <1>10 DEF RequestSettles

\* A disconnect ends calls and drops no frame.
LEMMA OrderDisconnect ==
    ASSUME MapInv, OrderInv, Disconnect
    PROVE  OrderInv'
<1>1. /\ call' = [c \in Calls |-> IF c \in pending /\ call[c] = "open" THEN "failed" ELSE call[c]]
      /\ consumer' = [c \in Calls |->
             IF c \in pending /\ call[c] = "open" /\ consumer[c] = "waiting" THEN "finished"
             ELSE consumer[c]]
      /\ srv' = [c \in Calls |-> IF srv[c] = "serving" THEN "over" ELSE srv[c]]
      /\ UNCHANGED <<frames, got, req, served>>
  BY DEF Disconnect
<1>2. OrderTypes'
  BY <1>1 DEF OrderInv, OrderTypes
<1>3. ASSUME NEW d \in Calls PROVE OrderAt(d)'
  <2>1. /\ OrderAt(d)
        /\ call'[d] = IF d \in pending /\ call[d] = "open" THEN "failed" ELSE call[d]
        /\ consumer'[d] = "waiting" => consumer[d] = "waiting"
        /\ srv'[d] = IF srv[d] = "serving" THEN "over" ELSE srv[d]
    BY <1>1 DEF OrderInv
  <2>2. (call[d] = "idle" => req[d] = "none") /\ (call[d] = "idle" \/ req[d] = "waiting" => srv[d] = "none")
    BY <2>1 DEF OrderAt
  <2> QED
    BY <1>1, <2>1, <2>2, OrderSame
<1> QED
  BY <1>2, <1>3 DEF OrderInv

\* Every step keeps the frames in order.
LEMMA OrderStep ==
    ASSUME MapInv, OrderInv, [Next]_vars
    PROVE  OrderInv'
<1>1. CASE Reconnect \/ UNCHANGED vars
  <2>1. UNCHANGED <<call, req, frames, got, consumer, srv, served>>
    BY <1>1 DEF Reconnect, vars, iterVars, wireVars
  <2> QED
    BY <2>1, OrderUnchanged
<1> QED
  BY <1>1, OrderCallStep, OrderDisconnect DEF Next

\* Initially no frame was sent.
LEMMA OrderInit == Init => OrderInv
<1> SUFFICES ASSUME Init PROVE OrderInv
  OBVIOUS
<1>1. MaxFrames \in Nat /\ <<>> \in Seq(Frames)
  BY CallerAssumption
<1>2. OrderTypes
  BY <1>1 DEF Init, OrderTypes
<1>3. ASSUME NEW c \in Calls PROVE OrderAt(c)
  <2>1. /\ got[c] = <<>> /\ frames[c] = <<>> /\ served[c] = 0 /\ srv[c] = "none"
        /\ consumer[c] = "idle" /\ req[c] = "none"
    BY DEF Init
  <2>2. <<>> \o <<>> = <<>> /\ Len(<<>>) = 0 /\ Counted(<<>>)
    BY DEF Counted
  <2> QED
    BY <1>1, <2>1, <2>2 DEF OrderAt
<1> QED
  BY <1>2, <1>3 DEF OrderInv

-----------------------------------------------------------------------------
(* The theorems *)

SessionTypes == up \in BOOLEAN /\ losses \in 0..MaxLosses /\ supports \in BOOLEAN

CallerInv == SessionTypes /\ MapInv /\ BufferInv /\ OrderInv

\* The connection's state changes only with a disconnect or a reconnect.
LEMMA SessionStep ==
    ASSUME SessionTypes, [Next]_vars
    PROVE  SessionTypes'
<1>0. MaxLosses \in Nat
  BY CallerAssumption
<1>1. CASE Disconnect
  <2>1. up' = FALSE /\ losses < MaxLosses /\ losses' = losses + 1 /\ supports' = supports
    BY <1>1 DEF Disconnect
  <2>2. losses' \in 0..MaxLosses
    BY <1>0, <2>1 DEF SessionTypes
  <2> QED
    BY <2>1, <2>2 DEF SessionTypes
<1>2. CASE Reconnect
  BY <1>2 DEF SessionTypes, Reconnect
<1>3. CASE UNCHANGED vars
  BY <1>3 DEF SessionTypes, vars, connVars
<1>4. ASSUME NEW c \in Calls,
             \/ \E b \in Buffers, aborted \in BOOLEAN : Call(c, b, aborted)
             \/ RequestSettles(c) \/ Abandon(c) \/ WriteCancellation(c)
             \/ RecvFrame(c) \/ RecvError(c) \/ NextFrame(c) \/ Cancel(c)
             \/ \E body \in BOOLEAN : RecvEnd(c, body)
             \/ \E r \in Outcomes : SettleCancellationResult(c, r)
      PROVE  SessionTypes'
  <2>1. UNCHANGED <<up, losses, supports>>
    BY <1>4 DEF Call, RequestSettles, WriteRequest, RequestSent, RequestNotSent, Abandon,
                AbandonLocally, SendCancellationRequest, WriteCancellation, RecvFrame, RecvError,
                NextFrame, Cancel, RecvEnd, SettleCancellationResult, connVars
  <2> QED
    BY <2>1 DEF SessionTypes
<1> QED
  BY <1>1, <1>2, <1>3, <1>4 DEF Next

\* The maps, the buffers and the frames are right in every reachable state.
THEOREM CallerCorrect == Spec => []CallerInv
<1>1. Init => CallerInv
  <2>1. Init => SessionTypes
    BY CallerAssumption DEF Init, SessionTypes
  <2> QED
    BY <2>1, MapInit, BufferInit, OrderInit DEF CallerInv
<1>2. CallerInv /\ [Next]_vars => CallerInv'
  BY SessionStep, MapStep, BufferStep, OrderStep DEF CallerInv
<1> QED
  BY <1>1, <1>2, PTL DEF Spec

\* Every variable of the calling side keeps its type.
THEOREM CallerTypeCorrect == Spec => []TypeOK
<1>1. CallerInv => TypeOK
  BY DEF CallerInv, SessionTypes, MapInv, MapTypes, BufferInv, BufferTypes, OrderInv, OrderTypes,
         Frames, TypeOK
<1> QED
  BY <1>1, CallerCorrect, PTL

\* A CANCELLATION frame names the call that was cancelled, for any number of calls and
\* any recycling of their buffers.
THEOREM CallerCancelsItsCall == Spec => []CancellationNamesItsCall
<1>1. CallerInv => CancellationNamesItsCall
  BY DEF CallerInv, BufferInv
<1> QED
  BY <1>1, CallerCorrect, PTL

\* next() hands out the frames of its call in order and without a gap, also those that
\* were buffered when the call failed.
THEOREM CallerFramesInOrder == Spec => []FramesInOrder
<1>1. CallerInv => FramesInOrder
  BY DEF CallerInv, OrderInv, OrderAt, Counted, FramesInOrder
<1> QED
  BY <1>1, CallerCorrect, PTL

\* A call that ended and whose `cancellation` promise is settled.
Settled(c) == call[c] # "open" /\ outcome[c] # None

\* No order of response, result, timer and disconnect leaves an entry of a settled call
\* behind: the part of EveryCallSettles that is about the client's maps.
THEOREM CallerLeavesNoEntry ==
    Spec => [](\A c \in Calls : Settled(c) => c \notin pending \cup abandoned \cup cancelling)
<1>1. CallerInv => \A c \in Calls : Settled(c) => c \notin pending \cup abandoned \cup cancelling
  BY DEF CallerInv, MapInv, MapAt, Undecided, Settled
<1> QED
  BY <1>1, CallerCorrect, PTL

\* No two open calls share a correlation-id buffer, and none of their buffers is in the
\* pool: cleanupPendingRpc never hands a buffer back that is still in use.
THEOREM CallerBuffersApart ==
    Spec => [](\A c, d \in Calls :
                 Holds(c) => buf[c] \notin pool /\ (Holds(d) /\ buf[c] = buf[d] => c = d))
<1>1. CallerInv => \A c, d \in Calls :
                     Holds(c) => buf[c] \notin pool /\ (Holds(d) /\ buf[c] = buf[d] => c = d)
  BY DEF CallerInv, BufferInv, HeldPart
<1> QED
  BY <1>1, CallerCorrect, PTL

=============================================================================
