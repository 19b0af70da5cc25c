-------------------------- MODULE RpcWorkerProofs --------------------------
(***************************************************************************)
(* Proofs about the serving side of the RPC client.  For any number of     *)
(* invocations, registrations, handler slots, written frames and lost      *)
(* connections: an invocation whose handler was called is acknowledged at  *)
(* most once and never while that handler may run, one that was out of     *)
(* time at most twice; its response frames are ordered and nothing follows *)
(* a terminal one the writer knows to be sent; and no path through the     *)
(* client ends an invocation of the current session without returning its  *)
(* credit, but for a request it had no registration for yet.               *)
(***************************************************************************)
EXTENDS RpcWorker, SequenceTheorems, TLAPS

-----------------------------------------------------------------------------
(* The inductive invariant *)

Frame == [seq : Nat, kind : Kinds]

\* The values of one invocation's variables.
ValuesAt(i) ==
    /\ phase[i] \in Phases /\ since[i] \in 0..(MaxLosses + 1)
    /\ seq[i] \in 0..(MaxWrites + 2) /\ out[i] \in Seq(Frame) /\ acks[i] \in Nat

\* The values of the variables, the booleans apart.
DataTypes ==
    /\ conn \in {"down", "restoring", "restored", "up"}
    /\ session \in 1..(MaxLosses + 1)
    /\ worker \in Registrations \cup {None} /\ live \subseteq Handles
    /\ snapshot \in Registrations \cup {None}
    /\ op \in [kind : {"register", "unregister", "none"}, of : Handles \cup {None},
               at : {"waiting", "answered", "none"}]
    /\ made \in 0..MaxHandles
    /\ phase \in [Invs -> Phases] /\ since \in [Invs -> 0..(MaxLosses + 1)]
    /\ unheard \subseteq Invs /\ started \subseteq Invs
    /\ active \subseteq Invs /\ aborted \subseteq Invs /\ stale \subseteq Invs
    /\ queue \in Seq(Invs)
    /\ seq \in [Invs -> 0..(MaxWrites + 2)]
    /\ out \in [Invs -> Seq(Frame)]
    /\ acks \in [Invs -> Nat]

\* The broker serves the route only while the workers map has a
\* registration, except between a confirmation and the continuation behind
\* it and for a registration the client has given up on.  A restore works
\* on what the map held when it began.
RegPart ==
    /\ breg \in BOOLEAN /\ orphan \in BOOLEAN
    /\ op.at # "none" => op.of \in Handles /\ op.kind # "none"
    /\ conn = "down" => session <= MaxLosses /\ ~breg
    /\ op.at = "answered" => conn \in {"down", "up"}
    /\ op.at = "answered" /\ op.kind = "unregister" => ~breg
    /\ conn = "restoring" => worker = snapshot
    /\ conn = "restored" => worker # None /\ snapshot # None
    /\ breg /\ ~Unrecorded => worker # None

\* The dispatcher's queue holds invocations that have not started, each
\* once.
QueuePart ==
    /\ \A m \in DOMAIN queue : phase[queue[m]] = "queued"
    /\ \A m, n \in DOMAIN queue : m # n => queue[m] # queue[n]

\* An active invocation has not been acknowledged, and neither has a
\* started one whose handler may run.  One that is cancelled before its
\* start is no longer active; if it got as far as the deadline response,
\* the cleanup behind that response acknowledges it again.
AckAt(i) ==
    /\ acks[i] <= (IF i \in started \/ seq[i] = 0 THEN 1 ELSE 2)
    /\ i \in active => acks[i] = 0 /\ phase[i] \in {"queued"} \cup Running
    /\ phase[i] \in {"idle", "dropped", "refused"} => acks[i] = 0 /\ i \notin started
    /\ phase[i] \in {"queued", "late"} => i \notin started
    /\ phase[i] \in {"run", "write", "end"} => i \in started
    /\ i \in started /\ phase[i] \in Running => acks[i] = 0
    /\ phase[i] \in Running => acks[i] <= 1
    /\ phase[i] = "acking" => acks[i] > 0

\* The client has nothing left to do for the invocation.
Over(i) == phase[i] = "done" \/ (phase[i] = "queued" /\ i \notin active)

\* An invocation of the current session is over only after its ack was
\* handed to send(), and is ignored only when its registration had not
\* been recorded.
CreditAt(i) ==
    /\ since[i] = 0 <=> phase[i] = "idle"
    /\ since[i] <= session
    /\ Over(i) /\ since[i] = session /\ conn # "down" => acks[i] > 0
    /\ phase[i] = "dropped" => i \in unheard

\* The frames written so far are ordered, lie below the writer's next
\* number (below the number of the frame it awaits, if it awaits one), and
\* a terminal one that is known to be sent has left the writer stale and
\* not writing.
FramesAt(i) ==
    /\ \A m, n \in DOMAIN out[i] :
         m < n => out[i][m].seq < out[i][n].seq /\ out[i][m].kind # "end"
    /\ \A n \in DOMAIN out[i] :
         /\ phase[i] # "done" => out[i][n].seq < seq[i]
         /\ phase[i] \in Writing => out[i][n].seq < seq[i] - 1
         /\ out[i][n].kind = "end" => i \in stale /\ phase[i] \notin Writing
    /\ phase[i] \in {"idle", "dropped", "queued", "refused"}
          => out[i] = <<>> /\ seq[i] = 0

\* How far the writer's numbers can get: a writer that is not stale has
\* been asked for non-terminal frames and for one end at most.
SeqAt(i) ==
    /\ phase[i] \in Writing => seq[i] > 0
    /\ phase[i] = "run" /\ i \notin stale => seq[i] <= MaxWrites + 1
    /\ phase[i] = "write" => seq[i] <= MaxWrites
    /\ phase[i] = "end" => seq[i] <= MaxWrites + 1
    /\ phase[i] = "late" => seq[i] = 1

InvAt(i) == AckAt(i) /\ CreditAt(i) /\ FramesAt(i) /\ SeqAt(i)

WorkerInv == DataTypes /\ RegPart /\ QueuePart /\ \A i \in Invs : InvAt(i)

-----------------------------------------------------------------------------
(* Steps that leave the invocations alone *)

\* The initial state satisfies the invariant: nothing is registered and no
\* invocation was delivered.
LEMMA InitWorker == Init => WorkerInv
<1> SUFFICES ASSUME Init PROVE WorkerInv
  OBVIOUS
<1>1. DataTypes
  <2>1. out \in [Invs -> Seq(Frame)]
    BY DEF Init
  <2>2. queue \in Seq(Invs)
    BY DEF Init
  <2> QED
    BY <2>1, <2>2, WorkerAssumption DEF Init, DataTypes, Idle, None, Phases
<1>2. RegPart
  BY WorkerAssumption DEF Init, RegPart, Idle, None, Unrecorded
<1>3. QueuePart
  BY DEF Init, QueuePart
<1>4. ASSUME NEW i \in Invs PROVE InvAt(i)
  BY <1>4, WorkerAssumption
     DEF Init, InvAt, AckAt, CreditAt, FramesAt, SeqAt, Over, Running, Writing
<1> QED
  BY <1>1, <1>2, <1>3, <1>4 DEF WorkerInv

\* What a step that touches neither the sessions nor the invocations keeps:
\* the connection may be restored meanwhile.
LEMMA QuietStep ==
    ASSUME WorkerInv, UNCHANGED <<session, invVars, writerVars, acks>>,
           conn' = "down" <=> conn = "down"
    PROVE  QueuePart' /\ \A i \in Invs : InvAt(i)'
<1> USE DEF invVars, writerVars
<1>1. QueuePart'
  BY DEF WorkerInv, QueuePart
<1>2. ASSUME NEW i \in Invs PROVE InvAt(i)'
  <2>1. InvAt(i)
    BY DEF WorkerInv
  <2> QED
    BY <2>1 DEF InvAt, AckAt, CreditAt, FramesAt, SeqAt, Over
<1> QED
  BY <1>1, <1>2

\* registerWorker entering its mutation keeps the invariant.
LEMMA RegisterWorkerStep ==
    ASSUME WorkerInv, NEW h \in Handles, RegisterWorker(h)
    PROVE  WorkerInv'
<1> USE DEF connVars, invVars, writerVars
<1>1. QueuePart' /\ \A i \in Invs : InvAt(i)'
  BY QuietStep DEF RegisterWorker
<1>2. DataTypes'
  BY WorkerAssumption DEF WorkerInv, DataTypes, RegPart, RegisterWorker, Idle, None,
     Handles, Registrations, Restored
<1>3. RegPart'
  BY WorkerAssumption DEF WorkerInv, DataTypes, RegPart, RegisterWorker, Idle, None,
     Unrecorded, Handles, Registrations, Restored
<1> QED
  BY <1>1, <1>2, <1>3 DEF WorkerInv

\* unregisterWorker entering its mutation keeps the invariant.
LEMMA UnregisterWorkerStep ==
    ASSUME WorkerInv, NEW h \in Handles, UnregisterWorker(h)
    PROVE  WorkerInv'
<1> USE DEF connVars, invVars, writerVars
<1>1. QueuePart' /\ \A i \in Invs : InvAt(i)'
  BY QuietStep DEF UnregisterWorker
<1>2. DataTypes'
  BY WorkerAssumption DEF WorkerInv, DataTypes, RegPart, UnregisterWorker, Idle, None,
     Handles, Registrations, Restored
<1>3. RegPart'
  BY WorkerAssumption DEF WorkerInv, DataTypes, RegPart, UnregisterWorker, Idle, None,
     Unrecorded, Handles, Registrations, Restored
<1> QED
  BY <1>1, <1>2, <1>3 DEF WorkerInv

\* The answer to a mutation keeps the invariant: an unregistration leaves
\* no registration at the broker.
LEMMA MutationAnsweredStep ==
    ASSUME WorkerInv, MutationAnswered
    PROVE  WorkerInv'
<1> USE DEF connVars, invVars, writerVars
<1>1. QueuePart' /\ \A i \in Invs : InvAt(i)'
  BY QuietStep DEF MutationAnswered
<1>2. DataTypes'
  BY WorkerAssumption DEF WorkerInv, DataTypes, RegPart, MutationAnswered, Idle, None,
     Handles, Registrations, Restored
<1>3. RegPart'
  BY WorkerAssumption DEF WorkerInv, DataTypes, RegPart, MutationAnswered, Idle, None,
     Unrecorded, Handles, Registrations, Restored
<1> QED
  BY <1>1, <1>2, <1>3 DEF WorkerInv

\* The continuation behind the answer keeps the invariant: whatever the
\* broker serves has a worker again.
LEMMA MutationAppliedStep ==
    ASSUME WorkerInv, MutationApplied
    PROVE  WorkerInv'
<1> USE DEF connVars, invVars, writerVars
<1>1. QueuePart' /\ \A i \in Invs : InvAt(i)'
  BY QuietStep DEF MutationApplied
<1>2. DataTypes'
  BY WorkerAssumption DEF WorkerInv, DataTypes, RegPart, MutationApplied, Idle, None,
     Handles, Registrations, Restored
<1>3. RegPart'
  BY WorkerAssumption DEF WorkerInv, DataTypes, RegPart, MutationApplied, Idle, None,
     Unrecorded, Handles, Registrations, Restored
<1> QED
  BY <1>1, <1>2, <1>3 DEF WorkerInv

\* A mutation that fails keeps the invariant: one that was applied all the
\* same leaves an orphan at the broker.
LEMMA MutationFailsStep ==
    ASSUME WorkerInv, MutationFails
    PROVE  WorkerInv'
<1> USE DEF connVars, invVars, writerVars
<1>1. QueuePart' /\ \A i \in Invs : InvAt(i)'
  BY QuietStep DEF MutationFails
<1>2. DataTypes'
  <2>1. live' \subseteq Handles
    BY DEF WorkerInv, DataTypes, RegPart, MutationFails
  <2>2. op' = Idle
    BY DEF MutationFails
  <2>3. op' \in [kind : {"register", "unregister", "none"}, of : Handles \cup {None},
               at : {"waiting", "answered", "none"}]
    BY <2>2 DEF Idle
  <2> QED
    BY <2>1, <2>3 DEF WorkerInv, DataTypes, MutationFails
<1>3. RegPart'
  <2>1. /\ op' = Idle /\ UNCHANGED <<conn, session, worker, snapshot>>
        /\ breg' \in BOOLEAN /\ orphan' \in BOOLEAN
    BY DEF WorkerInv, RegPart, MutationFails, connVars
  <2>2. breg' /\ ~orphan' => breg /\ ~orphan
    BY DEF MutationFails
  <2>3. conn = "down" => breg' = breg
    BY DEF MutationFails
  <2>4. Idle.at = "none" /\ op.at # "answered"
    BY DEF Idle, MutationFails
  <2> QED
    BY <2>1, <2>2, <2>3, <2>4 DEF WorkerInv, RegPart, Unrecorded
<1> QED
  BY <1>1, <1>2, <1>3 DEF WorkerInv

\* A restored registration keeps the invariant: its worker is in the map.
LEMMA RestoreWorkerStep ==
    ASSUME WorkerInv, RestoreWorker
    PROVE  WorkerInv'
<1> USE DEF connVars, invVars, writerVars
<1>1. QueuePart' /\ \A i \in Invs : InvAt(i)'
  BY QuietStep DEF RestoreWorker
<1>2. DataTypes'
  BY WorkerAssumption DEF WorkerInv, DataTypes, RegPart, RestoreWorker, Idle, None,
     Handles, Registrations, Restored
<1>3. RegPart'
  BY WorkerAssumption DEF WorkerInv, DataTypes, RegPart, RestoreWorker, Idle, None,
     Unrecorded, Handles, Registrations, Restored
<1> QED
  BY <1>1, <1>2, <1>3 DEF WorkerInv

\* The end of the restoration keeps the invariant: whatever it leaves at
\* the broker has a registration in the map.
LEMMA RestoreDoneStep ==
    ASSUME WorkerInv, RestoreDone
    PROVE  WorkerInv'
<1> USE DEF connVars, invVars, writerVars
<1>1. QueuePart' /\ \A i \in Invs : InvAt(i)'
  BY QuietStep DEF RestoreDone
<1>2. DataTypes'
  BY WorkerAssumption DEF WorkerInv, DataTypes, RegPart, RestoreDone, Idle, None,
     Handles, Registrations, Restored
<1>3. RegPart'
  BY WorkerAssumption DEF WorkerInv, DataTypes, RegPart, RestoreDone, Idle, None,
     Unrecorded, Handles, Registrations, Restored
<1> QED
  BY <1>1, <1>2, <1>3 DEF WorkerInv

-----------------------------------------------------------------------------
(* Steps of the connection *)

\* onDisconnect keeps the invariant: what it forgets belongs to a session
\* that is over.
LEMMA DisconnectStep ==
    ASSUME WorkerInv, Disconnect
    PROVE  WorkerInv'
<1> USE DEF invVars, writerVars
<1>1. DataTypes'
  BY WorkerAssumption DEF WorkerInv, DataTypes, RegPart, Disconnect
<1>2. RegPart'
  BY WorkerAssumption DEF WorkerInv, DataTypes, RegPart, Unrecorded, Disconnect
<1>3. QueuePart'
  BY DEF WorkerInv, QueuePart, Disconnect
<1>4. ASSUME NEW i \in Invs PROVE InvAt(i)'
  <2>Inv. InvAt(i)
    BY DEF WorkerInv
  <2>Ack. AckAt(i)'
    BY <2>Inv DEF InvAt, AckAt, Disconnect
  <2>Credit. CreditAt(i)'
    BY <2>Inv, WorkerAssumption DEF WorkerInv, DataTypes, InvAt, CreditAt, Over,
       Disconnect
  <2>Frames. FramesAt(i)'
    BY <2>Inv DEF InvAt, FramesAt, Disconnect
  <2>Seq. SeqAt(i)'
    BY <2>Inv DEF InvAt, SeqAt, Disconnect
  <2> QED
    BY <2>Ack, <2>Credit, <2>Frames, <2>Seq DEF InvAt
<1> QED
  BY <1>1, <1>2, <1>3, <1>4 DEF WorkerInv

\* A new session keeps the invariant: every invocation so far is of an
\* older one.
LEMMA ReconnectStep ==
    ASSUME WorkerInv, Reconnect
    PROVE  WorkerInv'
<1> USE DEF invVars, writerVars
<1>1. DataTypes'
  BY WorkerAssumption DEF WorkerInv, DataTypes, RegPart, Reconnect
<1>2. RegPart'
  BY WorkerAssumption DEF WorkerInv, DataTypes, RegPart, Unrecorded, Reconnect
<1>3. QueuePart'
  BY DEF WorkerInv, QueuePart, Reconnect
<1>4. ASSUME NEW i \in Invs PROVE InvAt(i)'
  <2>Inv. InvAt(i)
    BY DEF WorkerInv
  <2>Ack. AckAt(i)'
    BY <2>Inv DEF InvAt, AckAt, Reconnect
  <2>Credit. CreditAt(i)'
    BY <2>Inv, WorkerAssumption DEF WorkerInv, DataTypes, InvAt, CreditAt, Over,
       Reconnect
  <2>Frames. FramesAt(i)'
    BY <2>Inv DEF InvAt, FramesAt, Reconnect
  <2>Seq. SeqAt(i)'
    BY <2>Inv DEF InvAt, SeqAt, Reconnect
  <2> QED
    BY <2>Ack, <2>Credit, <2>Frames, <2>Seq DEF InvAt
<1> QED
  BY <1>1, <1>2, <1>3, <1>4 DEF WorkerInv

-----------------------------------------------------------------------------
(* Steps of one invocation *)

\* Nothing of another invocation changes.
Only(i) ==
    /\ phase' = [phase EXCEPT ![i] = phase'[i]]
    /\ since' = [since EXCEPT ![i] = since'[i]]
    /\ seq' = [seq EXCEPT ![i] = seq'[i]]
    /\ out' = [out EXCEPT ![i] = out'[i]]
    /\ acks' = [acks EXCEPT ![i] = acks'[i]]
    /\ unheard' \cup {i} = unheard \cup {i} /\ started' \cup {i} = started \cup {i}
    /\ active' \cup {i} = active \cup {i} /\ aborted' \cup {i} = aborted \cup {i}
    /\ stale' \cup {i} = stale \cup {i}

\* What is known of one invocation.
LEMMA InvTypes ==
    ASSUME WorkerInv, NEW i \in Invs
    PROVE  /\ InvAt(i) /\ ValuesAt(i) /\ seq[i] \in Nat
           /\ \A n \in DOMAIN out[i] : out[i][n] \in Frame /\ out[i][n].seq \in Nat
<1>1. ValuesAt(i)
  BY DEF WorkerInv, DataTypes, ValuesAt
<1>2. \A n \in DOMAIN out[i] : out[i][n] \in Frame
  BY <1>1 DEF ValuesAt
<1>3. \A n \in DOMAIN out[i] : out[i][n].seq \in Nat
  BY <1>2 DEF Frame
<1> QED
  BY <1>1, <1>2, <1>3, WorkerAssumption DEF WorkerInv, ValuesAt

\* A step that changes one invocation keeps the invariant if it keeps it
\* of that one.
LEMMA OneMoves ==
    ASSUME WorkerInv, NEW i \in Invs, UNCHANGED <<connVars, regVars>>, Only(i),
           ValuesAt(i)', queue' \in Seq(Invs), QueuePart', InvAt(i)'
    PROVE  WorkerInv'
<1> USE DEF connVars, regVars
<1>1. DataTypes'
  <2>1. /\ phase' \in [Invs -> Phases] /\ since' \in [Invs -> 0..(MaxLosses + 1)]
        /\ seq' \in [Invs -> 0..(MaxWrites + 2)] /\ acks' \in [Invs -> Nat]
    BY DEF WorkerInv, DataTypes, Only, ValuesAt
  <2>2. out' \in [Invs -> Seq(Frame)]
    BY DEF WorkerInv, DataTypes, Only, ValuesAt
  <2>3. /\ unheard' \subseteq Invs /\ started' \subseteq Invs /\ active' \subseteq Invs
        /\ aborted' \subseteq Invs /\ stale' \subseteq Invs
    BY DEF WorkerInv, DataTypes, Only
  <2> QED
    BY <2>1, <2>2, <2>3 DEF WorkerInv, DataTypes
<1>2. RegPart'
  BY DEF WorkerInv, RegPart, Unrecorded
<1>3. ASSUME NEW j \in Invs, j # i PROVE InvAt(j)'
  <2>1. /\ phase'[j] = phase[j] /\ since'[j] = since[j] /\ seq'[j] = seq[j]
        /\ out'[j] = out[j] /\ acks'[j] = acks[j]
    BY <1>3 DEF Only, WorkerInv, DataTypes
  <2>2. /\ j \in unheard' <=> j \in unheard
        /\ j \in started' <=> j \in started
        /\ j \in active' <=> j \in active
        /\ j \in stale' <=> j \in stale
    BY <1>3 DEF Only
  <2>3. InvAt(j)
    BY DEF WorkerInv
  <2> QED
    BY <2>1, <2>2, <2>3 DEF InvAt, AckAt, CreditAt, FramesAt, SeqAt, Over
<1> QED
  BY <1>1, <1>2, <1>3 DEF WorkerInv

\* The queue of a step that leaves it alone and moves only an invocation
\* that is not queued.
LEMMA SameQueue ==
    ASSUME WorkerInv, NEW i \in Invs, phase[i] # "queued" \/ phase'[i] = "queued",
           UNCHANGED queue, Only(i)
    PROVE  QueuePart' /\ queue' \in Seq(Invs)
<1>1. queue \in Seq(Invs) /\ \A m \in DOMAIN queue : queue[m] \in Invs
  BY DEF WorkerInv, DataTypes
<1>2. \A m \in DOMAIN queue : phase'[queue[m]] = "queued"
  BY <1>1 DEF WorkerInv, DataTypes, QueuePart, Only
<1> QED
  BY <1>1, <1>2 DEF WorkerInv, QueuePart

\* The frames of an invocation whose step writes none and restarts no
\* numbering.
LEMMA FramesKept ==
    ASSUME WorkerInv, NEW i \in Invs, out'[i] = out[i], i \in stale => i \in stale',
           \/ phase'[i] = phase[i] /\ seq'[i] = seq[i]
           \/ /\ phase'[i] \in {"run", "acking", "done"} /\ seq'[i] = seq[i]
              /\ phase[i] = "done" => phase'[i] = "done"
           \/ /\ phase'[i] \in Writing /\ seq'[i] = seq[i] + 1
              /\ phase[i] # "done"
              /\ phase[i] \in Writing \/ i \notin stale \/ out[i] = <<>>
    PROVE  FramesAt(i)'
<1>1. /\ FramesAt(i) /\ seq[i] \in Nat
      /\ \A n \in DOMAIN out[i] : out[i][n].seq \in Nat
  BY InvTypes DEF InvAt
<1>2. CASE /\ phase'[i] = phase[i] \/ phase'[i] \in {"run", "acking", "done"}
           /\ seq'[i] = seq[i] /\ (phase[i] = "done" => phase'[i] = "done")
  BY <1>1, <1>2 DEF FramesAt, Writing
<1>3. CASE /\ phase'[i] \in Writing /\ seq'[i] = seq[i] + 1
           /\ phase[i] # "done" /\ (phase[i] \in Writing \/ i \notin stale \/ out[i] = <<>>)
  <2>1. \A n \in DOMAIN out[i] : out[i][n].seq < seq[i] /\ out[i][n].kind # "end"
    BY <1>1, <1>3 DEF FramesAt
  <2>2. \A n \in DOMAIN out'[i] :
          out'[i][n].seq < seq'[i] /\ out'[i][n].seq < seq'[i] - 1 /\ out'[i][n].kind # "end"
    BY <1>1, <1>3, <2>1
  <2>3. \A m, n \in DOMAIN out'[i] :
          m < n => out'[i][m].seq < out'[i][n].seq /\ out'[i][m].kind # "end"
    BY <1>1 DEF FramesAt
  <2> QED
    BY <1>3, <2>2, <2>3 DEF FramesAt, Writing
<1> QED
  BY <1>2, <1>3

\* The frame a writer awaits reaches the transport: it carries a number
\* above all others, and the step may begin the error response behind it.
LEMMA FrameReaches ==
    ASSUME WorkerInv, NEW i \in Invs, NEW terminal \in {"end", "unsure"},
           phase[i] \in Writing, Reaches(i, terminal), i \in stale => i \in stale',
           \/ /\ phase'[i] \in {"run", "acking"} /\ seq'[i] = seq[i]
              /\ terminal = "end" /\ phase[i] # "write" => i \in stale'
           \/ /\ phase'[i] = "error" /\ seq'[i] = seq[i] + 1 /\ terminal = "unsure"
    PROVE  FramesAt(i)' /\ out' = [out EXCEPT ![i] = out'[i]] /\ out'[i] \in Seq(Frame)
<1> DEFINE f == [seq |-> seq[i] - 1,
                 kind |-> IF phase[i] = "write" THEN "part" ELSE terminal]
<1>1. /\ InvAt(i) /\ out[i] \in Seq(Frame) /\ seq[i] \in Nat /\ seq[i] > 0
      /\ \A n \in DOMAIN out[i] : out[i][n].seq \in Nat
  BY InvTypes DEF ValuesAt, InvAt, SeqAt
<1>2. f \in Frame
  BY <1>1 DEF Frame, Kinds
<1>3. out'[i] = Append(out[i], f) /\ out' = [out EXCEPT ![i] = out'[i]]
  BY DEF Reaches, WorkerInv, DataTypes
<1>4. /\ f.seq = seq[i] - 1
      /\ f.kind = "end" => i \in stale' /\ phase'[i] # "error"
  OBVIOUS
<1> HIDE DEF f
<1>5. PICK n \in Nat : n = Len(out[i])
  BY <1>1
<1>6. /\ DOMAIN out[i] = 1..n /\ DOMAIN out'[i] = 1..(n + 1)
      /\ \A m \in 1..n : out'[i][m] = out[i][m]
      /\ out'[i][n + 1] = f /\ out'[i] \in Seq(Frame)
  BY <1>1, <1>2, <1>3, <1>5
<1>7. /\ \A m, k \in 1..n : m < k => out[i][m].seq < out[i][k].seq
      /\ \A m \in 1..n : /\ out[i][m].seq < seq[i] - 1 /\ out[i][m].kind # "end"
                         /\ out[i][m].seq \in Nat
  <2>1. phase[i] # "done"
    BY DEF Writing
  <2> QED
    BY <1>1, <1>6, <2>1 DEF InvAt, FramesAt
<1>8. \A m, k \in DOMAIN out'[i] :
         m < k => out'[i][m].seq < out'[i][k].seq /\ out'[i][m].kind # "end"
  <2> SUFFICES ASSUME NEW m \in 1..(n + 1), NEW k \in 1..(n + 1), m < k
               PROVE  out'[i][m].seq < out'[i][k].seq /\ out'[i][m].kind # "end"
    BY <1>6
  <2>1. m \in 1..n /\ (k \in 1..n \/ k = n + 1)
    OBVIOUS
  <2> QED
    BY <2>1, <1>4, <1>6, <1>7
<1>9. \A m \in DOMAIN out'[i] :
         /\ out'[i][m].seq < seq[i]
         /\ out'[i][m].kind = "end" => i \in stale' /\ phase'[i] # "error"
  <2> SUFFICES ASSUME NEW m \in 1..(n + 1)
               PROVE  /\ out'[i][m].seq < seq[i]
                      /\ out'[i][m].kind = "end" => i \in stale' /\ phase'[i] # "error"
    BY <1>6
  <2>1. CASE m \in 1..n
    <3>1. out'[i][m] = out[i][m]
      BY <2>1, <1>6
    <3>2. out[i][m].seq < seq[i] - 1 /\ out[i][m].kind # "end" /\ out[i][m].seq \in Nat
      BY <2>1, <1>7
    <3> QED
      BY <3>1, <3>2, <1>1
  <2>2. CASE m = n + 1
    BY <2>2, <1>1, <1>4, <1>6
  <2> QED
    BY <2>1, <2>2
<1>10. \A m \in DOMAIN out'[i] : out'[i][m].seq \in Nat
  <2>1. \A m \in DOMAIN out'[i] : out'[i][m] \in Frame
    BY <1>6
  <2> QED
    BY <2>1 DEF Frame
<1>11. FramesAt(i)'
  <2>1. CASE phase'[i] \in {"run", "acking"} /\ seq'[i] = seq[i]
    BY <2>1, <1>8, <1>9 DEF FramesAt, Writing
  <2>2. CASE phase'[i] = "error" /\ seq'[i] = seq[i] + 1
    BY <2>2, <1>1, <1>8, <1>9, <1>10 DEF FramesAt, Writing
  <2> QED
    BY <2>1, <2>2
<1> QED
  BY <1>3, <1>6, <1>11

\* The delivery of an invocation keeps the invariant: it is new to the
\* queue, and without a registration in the map it is unheard.
LEMMA HandleRpcRequestStep ==
    ASSUME WorkerInv, NEW i \in Invs, HandleRpcRequest(i)
    PROVE  WorkerInv'
<1> USE DEF invVars, writerVars
<1>1. InvAt(i) /\ ValuesAt(i) /\ seq[i] \in Nat /\ acks[i] \in Nat
  BY InvTypes DEF ValuesAt
<1>Only. Only(i) /\ UNCHANGED <<connVars, regVars>>
  BY DEF HandleRpcRequest, Only, WorkerInv, DataTypes
<1>2. /\ phase[i] = "idle" /\ since'[i] = session /\ conn # "down"
      /\ seq'[i] = seq[i] /\ out'[i] = out[i] /\ acks'[i] = acks[i]
      /\ started' = started /\ stale' = stale
      /\ \/ phase'[i] = "dropped" /\ worker = None /\ active' = active
         \/ phase'[i] = "queued" /\ active' = active \cup {i}
         \/ phase'[i] = "refused" /\ active' = active
  BY DEF HandleRpcRequest, WorkerInv, DataTypes
<1>Session. session \in 1..(MaxLosses + 1)
  BY DEF WorkerInv, DataTypes
<1>Types. ValuesAt(i)'
  BY <1>1, <1>2, <1>Session DEF ValuesAt, Phases
<1>Queue. QueuePart' /\ queue' \in Seq(Invs)
  <2>1. queue \in Seq(Invs) /\ phase \in [Invs -> Phases]
    BY DEF WorkerInv, DataTypes
  <2>2. \A m \in DOMAIN queue : queue[m] # i /\ queue[m] \in Invs
    BY <1>2, <2>1 DEF WorkerInv, QueuePart
  <2>3. \A m \in DOMAIN queue : phase'[queue[m]] = "queued"
    BY <2>1, <2>2, <1>Only DEF Only, WorkerInv, QueuePart
  <2>4. CASE UNCHANGED queue
    BY <2>1, <2>3, <2>4 DEF WorkerInv, QueuePart
  <2>5. CASE queue' = Append(queue, i) /\ phase'[i] = "queued"
    <3>1. PICK n \in Nat : n = Len(queue)
      BY <2>1
    <3>2. /\ DOMAIN queue = 1..n /\ DOMAIN queue' = 1..(n + 1)
          /\ \A m \in 1..n : queue'[m] = queue[m]
          /\ queue'[n + 1] = i /\ queue' \in Seq(Invs)
      BY <2>1, <2>5, <3>1
    <3> QED
      BY <2>2, <2>3, <2>5, <3>2 DEF WorkerInv, QueuePart
  <2> QED
    BY <2>4, <2>5 DEF HandleRpcRequest, WorkerInv, DataTypes
<1>Ack. AckAt(i)'
  BY <1>1, <1>2 DEF InvAt, AckAt, FramesAt, SeqAt, Running, Writing
<1>Credit. CreditAt(i)'
  <2>1. worker = None => Unrecorded
    BY DEF HandleRpcRequest, WorkerInv, RegPart
  <2>2. Unrecorded => i \in unheard'
    BY DEF HandleRpcRequest
  <2> QED
    BY <1>1, <1>2, <1>Only, <1>Session, <2>1, <2>2
       DEF InvAt, AckAt, CreditAt, Over, connVars
<1>Frames. FramesAt(i)'
  BY <1>1, <1>2 DEF InvAt, FramesAt, Writing
<1>Seq. SeqAt(i)'
  BY <1>1, <1>2, WorkerAssumption DEF InvAt, AckAt, FramesAt, SeqAt, Writing
<1> QED
  BY <1>Only, <1>Types, <1>Queue, <1>Ack, <1>Credit, <1>Frames, <1>Seq, OneMoves DEF InvAt

\* The deadline timer keeps the invariant: it only aborts.
LEMMA DeadlineElapsesStep ==
    ASSUME WorkerInv, NEW i \in Invs, DeadlineElapses(i)
    PROVE  WorkerInv'
<1> USE DEF invVars, writerVars
<1>1. InvAt(i) /\ ValuesAt(i) /\ seq[i] \in Nat /\ acks[i] \in Nat
  BY InvTypes DEF ValuesAt
<1>Only. Only(i) /\ UNCHANGED <<connVars, regVars>>
  BY DEF DeadlineElapses, Only, WorkerInv, DataTypes
<1>2. /\ phase'[i] = phase[i] /\ since'[i] = since[i] /\ seq'[i] = seq[i]
      /\ out'[i] = out[i] /\ acks'[i] = acks[i] /\ active' = active
      /\ started' = started /\ stale' = stale /\ unheard' = unheard
  BY DEF DeadlineElapses, WorkerInv, DataTypes
<1>Types. ValuesAt(i)'
  BY <1>1, <1>2, WorkerAssumption DEF ValuesAt, Phases, Busy, Running, Writing,
     InvAt, AckAt, FramesAt, SeqAt
<1>Queue. QueuePart' /\ queue' \in Seq(Invs)
  BY DEF DeadlineElapses, WorkerInv, DataTypes, QueuePart
<1>Ack. AckAt(i)'
  BY <1>1, <1>2 DEF InvAt, AckAt, FramesAt, SeqAt, Running, Writing
<1>Credit. CreditAt(i)'
  BY <1>1, <1>2, <1>Only DEF InvAt, AckAt, CreditAt, Over, connVars, Running, Writing
<1>Frames. FramesAt(i)'
  BY <1>1, <1>2, FramesKept DEF InvAt, FramesAt, Running, Writing
<1>Seq. SeqAt(i)'
  BY <1>1, <1>2, WorkerAssumption DEF InvAt, AckAt, FramesAt, SeqAt, Writing
<1> QED
  BY <1>Only, <1>Types, <1>Queue, <1>Ack, <1>Credit, <1>Frames, <1>Seq, OneMoves DEF InvAt

\* A cancellation keeps the invariant: only an invocation that has not
\* started is acknowledged here, and it is no longer active.
LEMMA WorkerCancellationStep ==
    ASSUME WorkerInv, NEW i \in Invs, WorkerCancellation(i)
    PROVE  WorkerInv'
<1> USE DEF invVars, writerVars
<1>1. InvAt(i) /\ ValuesAt(i) /\ seq[i] \in Nat /\ acks[i] \in Nat
  BY InvTypes DEF ValuesAt
<1>Only. Only(i) /\ UNCHANGED <<connVars, regVars>>
  BY DEF WorkerCancellation, AcknowledgesUnstarted, SendAck, Only, WorkerInv, DataTypes
<1>2. /\ phase'[i] = phase[i] /\ since'[i] = since[i] /\ seq'[i] = seq[i]
      /\ out'[i] = out[i] /\ i \in active
      /\ started' = started /\ stale' = stale /\ unheard' = unheard
      /\ \/ i \notin started /\ i \notin active' /\ acks'[i] = acks[i] + 1
         \/ i \in started /\ i \in active' /\ acks'[i] = acks[i]
  BY DEF WorkerCancellation, AcknowledgesUnstarted, SendAck, WorkerInv, DataTypes
<1>Types. ValuesAt(i)'
  BY <1>1, <1>2, WorkerAssumption DEF ValuesAt, Phases, Busy, Running, Writing,
     InvAt, AckAt, FramesAt, SeqAt
<1>Queue. QueuePart' /\ queue' \in Seq(Invs)
  BY DEF WorkerCancellation, WorkerInv, DataTypes, QueuePart
<1>Ack. AckAt(i)'
  BY <1>1, <1>2 DEF InvAt, AckAt, FramesAt, SeqAt, Running, Writing
<1>Credit. CreditAt(i)'
  BY <1>1, <1>2, <1>Only DEF InvAt, AckAt, CreditAt, Over, connVars, Running, Writing
<1>Frames. FramesAt(i)'
  BY <1>1, <1>2, FramesKept DEF InvAt, FramesAt, Running, Writing
<1>Seq. SeqAt(i)'
  BY <1>1, <1>2, WorkerAssumption DEF InvAt, AckAt, FramesAt, SeqAt, Writing
<1> QED
  BY <1>Only, <1>Types, <1>Queue, <1>Ack, <1>Credit, <1>Frames, <1>Seq, OneMoves DEF InvAt

\* A task taken from the queue keeps the invariant: its invocation is
\* queued, and it runs only while it is active.
LEMMA StartTaskStep ==
    ASSUME WorkerInv, NEW i \in Invs, StartTask(i)
    PROVE  WorkerInv'
<1> USE DEF invVars, writerVars
<1>1. InvAt(i) /\ ValuesAt(i) /\ seq[i] \in Nat /\ acks[i] \in Nat
  BY InvTypes DEF ValuesAt
<1>0. /\ phase[i] = "queued" /\ queue' \in Seq(Invs)
      /\ queue \in Seq(Invs) /\ phase \in [Invs -> Phases]
      /\ \A m \in DOMAIN queue' : m + 1 \in DOMAIN queue /\ queue'[m] = queue[m + 1]
      /\ 1 \in DOMAIN queue /\ queue[1] = i
  <2>1. queue \in Seq(Invs) /\ queue # <<>> /\ queue' = Tail(queue) /\ i = Head(queue)
        /\ phase \in [Invs -> Phases]
    BY DEF StartTask, WorkerInv, DataTypes
  <2>2. PICK n \in Nat : n = Len(queue) /\ n > 0
    BY <2>1
  <2>3. /\ DOMAIN queue = 1..n /\ queue' \in Seq(Invs) /\ DOMAIN queue' = 1..(n - 1)
        /\ \A m \in 1..(n - 1) : queue'[m] = queue[m + 1]
        /\ queue[1] = i
    BY <2>1, <2>2
  <2> QED
    BY <2>1, <2>2, <2>3 DEF WorkerInv, QueuePart
<1>Only. Only(i) /\ UNCHANGED <<connVars, regVars>>
  BY DEF StartTask, StartsTask, CleansUp, SendAck, Only, WorkerInv, DataTypes
<1>2. /\ since'[i] = since[i] /\ out'[i] = out[i] /\ unheard' = unheard
      /\ i \in stale => i \in stale'
      /\ \/ /\ i \notin active /\ active' = active /\ started' = started
            /\ phase'[i] = "done" /\ seq'[i] = seq[i] /\ acks'[i] = acks[i]
         \/ /\ i \in active /\ active' = active /\ started' = started
            /\ phase'[i] = "late" /\ seq'[i] = seq[i] + 1 /\ acks'[i] = acks[i]
         \/ /\ i \in active /\ i \notin active' /\ started' = started
            /\ phase'[i] = "acking" /\ seq'[i] = seq[i] /\ acks'[i] = acks[i] + 1
         \/ /\ i \in active /\ active' = active /\ started' = started \cup {i}
            /\ phase'[i] = "run" /\ seq'[i] = seq[i] /\ acks'[i] = acks[i]
  BY DEF StartTask, StartsTask, CleansUp, SendAck, WorkerInv, DataTypes
<1>Types. ValuesAt(i)'
  BY <1>0, <1>1, <1>2, WorkerAssumption DEF ValuesAt, Phases, Busy, Running, Writing,
     InvAt, FramesAt
<1>Queue. QueuePart' /\ queue' \in Seq(Invs)
  <2>1. /\ \A m, n \in DOMAIN queue : m # n => queue[m] # queue[n]
        /\ \A m \in DOMAIN queue : phase[queue[m]] = "queued"
    BY DEF WorkerInv, QueuePart
  <2>2. \A m \in DOMAIN queue' : m \in Nat \ {0} /\ queue'[m] \in Invs /\ queue'[m] # i
    BY <1>0, <2>1
  <2>3. \A j \in Invs \ {i} : phase'[j] = phase[j]
    BY <1>0, <1>Only DEF Only
  <2>4. \A m \in DOMAIN queue' : phase'[queue'[m]] = "queued"
    BY <1>0, <2>1, <2>2, <2>3
  <2>5. \A m, n \in DOMAIN queue' : m # n => queue'[m] # queue'[n]
    BY <1>0, <2>1, <2>2
  <2> QED
    BY <1>0, <2>4, <2>5 DEF QueuePart
<1>Ack. AckAt(i)'
  BY <1>0, <1>1, <1>2 DEF InvAt, AckAt, FramesAt, SeqAt, Running, Writing
<1>Credit. CreditAt(i)'
  BY <1>0, <1>1, <1>2, <1>Only DEF InvAt, AckAt, CreditAt, Over, connVars, Running, Writing
<1>Frames. FramesAt(i)'
  BY <1>0, <1>1, <1>2, FramesKept DEF InvAt, FramesAt, Running, Writing
<1>Seq. SeqAt(i)'
  BY <1>0, <1>1, <1>2, WorkerAssumption DEF InvAt, AckAt, FramesAt, SeqAt, Writing
<1> QED
  BY <1>Only, <1>Types, <1>Queue, <1>Ack, <1>Credit, <1>Frames, <1>Seq, OneMoves DEF InvAt

\* A frame the handler writes keeps the invariant: its writer is not
\* stale, so no terminal frame is known to be sent.
LEMMA HandlerWritesStep ==
    ASSUME WorkerInv, NEW i \in Invs, NEW how \in {"write", "end"}, HandlerWrites(i, how)
    PROVE  WorkerInv'
<1> USE DEF invVars, writerVars
<1>1. InvAt(i) /\ ValuesAt(i) /\ seq[i] \in Nat /\ acks[i] \in Nat
  BY InvTypes DEF ValuesAt
<1>Only. Only(i) /\ UNCHANGED <<connVars, regVars>>
  BY DEF HandlerWrites, Only, WorkerInv, DataTypes
<1>2. /\ phase[i] = "run" /\ phase'[i] = how /\ since'[i] = since[i]
      /\ seq'[i] = seq[i] + 1 /\ seq[i] < (IF how = "write" THEN MaxWrites ELSE MaxWrites + 1)
      /\ out'[i] = out[i] /\ acks'[i] = acks[i] /\ active' = active
      /\ started' = started /\ stale' = stale /\ unheard' = unheard /\ i \notin stale
  BY DEF HandlerWrites, WriterUsable, WorkerInv, DataTypes
<1>Types. ValuesAt(i)'
  BY <1>1, <1>2, WorkerAssumption DEF ValuesAt, Phases, Busy, Running, Writing,
     InvAt, AckAt, FramesAt, SeqAt
<1>Queue. QueuePart' /\ queue' \in Seq(Invs)
  BY <1>2, <1>Only, SameQueue DEF HandlerWrites
<1>Ack. AckAt(i)'
  BY <1>1, <1>2 DEF InvAt, AckAt, FramesAt, SeqAt, Running, Writing
<1>Credit. CreditAt(i)'
  BY <1>1, <1>2, <1>Only DEF InvAt, AckAt, CreditAt, Over, connVars, Running, Writing
<1>Frames. FramesAt(i)'
  BY <1>1, <1>2, FramesKept DEF InvAt, FramesAt, Running, Writing
<1>Seq. SeqAt(i)'
  BY <1>1, <1>2, WorkerAssumption DEF InvAt, AckAt, FramesAt, SeqAt, Writing
<1> QED
  BY <1>Only, <1>Types, <1>Queue, <1>Ack, <1>Credit, <1>Frames, <1>Seq, OneMoves DEF InvAt

\* A handler that returns keeps the invariant: its cleanup acknowledges.
LEMMA HandlerReturnsStep ==
    ASSUME WorkerInv, NEW i \in Invs, HandlerReturns(i)
    PROVE  WorkerInv'
<1> USE DEF invVars, writerVars
<1>1. InvAt(i) /\ ValuesAt(i) /\ seq[i] \in Nat /\ acks[i] \in Nat
  BY InvTypes DEF ValuesAt
<1>Only. Only(i) /\ UNCHANGED <<connVars, regVars>>
  BY DEF HandlerReturns, CleansUp, SendAck, Only, WorkerInv, DataTypes
<1>2. /\ phase[i] = "run" /\ phase'[i] = "acking" /\ since'[i] = since[i]
      /\ seq'[i] = seq[i] /\ out'[i] = out[i] /\ acks'[i] = acks[i] + 1
      /\ i \notin active' /\ started' = started /\ i \in stale' /\ unheard' = unheard
  BY DEF HandlerReturns, CleansUp, SendAck, WorkerInv, DataTypes
<1>Types. ValuesAt(i)'
  BY <1>1, <1>2, WorkerAssumption DEF ValuesAt, Phases, Busy, Running, Writing,
     InvAt, AckAt, FramesAt, SeqAt
<1>Queue. QueuePart' /\ queue' \in Seq(Invs)
  BY <1>2, <1>Only, SameQueue DEF HandlerReturns, CleansUp, SendAck
<1>Ack. AckAt(i)'
  BY <1>1, <1>2 DEF InvAt, AckAt, FramesAt, SeqAt, Running, Writing
<1>Credit. CreditAt(i)'
  BY <1>1, <1>2, <1>Only DEF InvAt, AckAt, CreditAt, Over, connVars, Running, Writing
<1>Frames. FramesAt(i)'
  BY <1>1, <1>2, FramesKept DEF InvAt, FramesAt, Running, Writing
<1>Seq. SeqAt(i)'
  BY <1>1, <1>2, WorkerAssumption DEF InvAt, AckAt, FramesAt, SeqAt, Writing
<1> QED
  BY <1>Only, <1>Types, <1>Queue, <1>Ack, <1>Credit, <1>Frames, <1>Seq, OneMoves DEF InvAt

\* A handler that throws keeps the invariant: the error response takes the
\* next number of a writer that is not stale.
LEMMA HandlerThrowsStep ==
    ASSUME WorkerInv, NEW i \in Invs, HandlerThrows(i)
    PROVE  WorkerInv'
<1> USE DEF invVars, writerVars
<1>1. InvAt(i) /\ ValuesAt(i) /\ seq[i] \in Nat /\ acks[i] \in Nat
  BY InvTypes DEF ValuesAt
<1>Only. Only(i) /\ UNCHANGED <<connVars, regVars>>
  BY DEF HandlerThrows, AnswersError, CleansUp, SendAck, Only, WorkerInv, DataTypes
<1>2. /\ phase[i] = "run" /\ since'[i] = since[i] /\ out'[i] = out[i]
      /\ started' = started /\ unheard' = unheard
      /\ i \in stale => i \in stale'
      /\ \/ /\ phase'[i] = "error" /\ i \notin stale /\ seq'[i] = seq[i] + 1
            /\ active' = active /\ acks'[i] = acks[i]
         \/ /\ phase'[i] = "acking" /\ seq'[i] = seq[i]
            /\ i \notin active' /\ acks'[i] = acks[i] + 1
  BY DEF HandlerThrows, AnswersError, WriterUsable, CleansUp, SendAck, WorkerInv, DataTypes
<1>Types. ValuesAt(i)'
  BY <1>1, <1>2, WorkerAssumption DEF ValuesAt, Phases, Busy, Running, Writing,
     InvAt, AckAt, FramesAt, SeqAt
<1>Queue. QueuePart' /\ queue' \in Seq(Invs)
  BY <1>2, <1>Only, SameQueue DEF HandlerThrows, AnswersError, CleansUp, SendAck
<1>Ack. AckAt(i)'
  BY <1>1, <1>2 DEF InvAt, AckAt, FramesAt, SeqAt, Running, Writing
<1>Credit. CreditAt(i)'
  BY <1>1, <1>2, <1>Only DEF InvAt, AckAt, CreditAt, Over, connVars, Running, Writing
<1>Frames. FramesAt(i)'
  BY <1>1, <1>2, FramesKept DEF InvAt, FramesAt, Running, Writing
<1>Seq. SeqAt(i)'
  BY <1>1, <1>2, WorkerAssumption DEF InvAt, AckAt, FramesAt, SeqAt, Writing
<1> QED
  BY <1>Only, <1>Types, <1>Queue, <1>Ack, <1>Credit, <1>Frames, <1>Seq, OneMoves DEF InvAt

\* What the end of the await behind a frame does: the handler goes on, or
\* the cleanup acknowledges.
LEMMA AfterFrame ==
    ASSUME WorkerInv, NEW i \in Invs, NEW disposed \in BOOLEAN, GoesOn(i, disposed)
    PROVE  /\ phase' = [phase EXCEPT ![i] = phase'[i]]
           /\ acks' = [acks EXCEPT ![i] = acks'[i]]
           /\ active' \cup {i} = active \cup {i} /\ stale' \cup {i} = stale \cup {i}
           /\ i \in stale => i \in stale'
           /\ disposed => i \in stale'
           /\ \/ /\ phase[i] \in {"write", "end"} /\ phase'[i] = "run"
                 /\ active' = active /\ acks'[i] = acks[i]
              \/ /\ phase[i] \in {"late", "error"} /\ phase'[i] = "acking"
                 /\ i \notin active' /\ acks'[i] = acks[i] + 1 /\ i \in stale'
BY DEF GoesOn, CleansUp, SendAck, WorkerInv, DataTypes

\* What a failure that is thrown does: the handler goes on, the error
\* response is begun, or the cleanup acknowledges.
LEMMA AfterThrow ==
    ASSUME WorkerInv, NEW i \in Invs, Throws(i)
    PROVE  /\ phase' = [phase EXCEPT ![i] = phase'[i]]
           /\ acks' = [acks EXCEPT ![i] = acks'[i]]
           /\ seq' = [seq EXCEPT ![i] = seq'[i]]
           /\ active' \cup {i} = active \cup {i} /\ stale' \cup {i} = stale \cup {i}
           /\ i \in stale => i \in stale'
           /\ \/ /\ phase[i] \in {"write", "end"} /\ phase'[i] = "run"
                 /\ active' = active /\ acks'[i] = acks[i] /\ seq'[i] = seq[i]
              \/ /\ phase[i] = "late" /\ phase'[i] = "error" /\ i \notin stale
                 /\ active' = active /\ acks'[i] = acks[i] /\ seq'[i] = seq[i] + 1
              \/ /\ phase[i] \in {"late", "error"} /\ phase'[i] = "acking"
                 /\ i \notin active' /\ acks'[i] = acks[i] + 1 /\ seq'[i] = seq[i]
BY DEF Throws, AnswersError, WriterUsable, CleansUp, SendAck, WorkerInv, DataTypes

\* A frame on the wire keeps the invariant: it carries the number the
\* writer awaits, above all others, and a terminal one disposes of it.
LEMMA FrameWrittenStep ==
    ASSUME WorkerInv, NEW i \in Invs, FrameWritten(i)
    PROVE  WorkerInv'
<1> USE DEF invVars, writerVars
<1>1. InvAt(i) /\ ValuesAt(i) /\ seq[i] \in Nat /\ acks[i] \in Nat
  BY InvTypes DEF ValuesAt
<1>3. /\ phase' = [phase EXCEPT ![i] = phase'[i]]
      /\ acks' = [acks EXCEPT ![i] = acks'[i]]
      /\ active' \cup {i} = active \cup {i} /\ stale' \cup {i} = stale \cup {i}
      /\ i \in stale => i \in stale'
      /\ phase[i] # "write" => i \in stale'
      /\ \/ /\ phase[i] \in {"write", "end"} /\ phase'[i] = "run"
            /\ active' = active /\ acks'[i] = acks[i]
         \/ /\ phase[i] \in {"late", "error"} /\ phase'[i] = "acking"
            /\ i \notin active' /\ acks'[i] = acks[i] + 1 /\ i \in stale'
  <2>1. (phase[i] # "write") \in BOOLEAN /\ GoesOn(i, phase[i] # "write")
    BY DEF FrameWritten
  <2> QED
    BY <2>1, AfterFrame
<1>2. /\ since'[i] = since[i] /\ seq'[i] = seq[i] /\ started' = started
      /\ unheard' = unheard
      /\ i \in stale => i \in stale'
      /\ phase[i] # "write" => i \in stale'
      /\ \/ /\ phase[i] \in {"write", "end"} /\ phase'[i] = "run"
            /\ active' = active /\ acks'[i] = acks[i]
         \/ /\ phase[i] \in {"late", "error"} /\ phase'[i] = "acking"
            /\ i \notin active' /\ acks'[i] = acks[i] + 1
  BY <1>3 DEF FrameWritten
<1>Frames. FramesAt(i)' /\ out' = [out EXCEPT ![i] = out'[i]] /\ out'[i] \in Seq(Frame)
  BY <1>2, FrameReaches DEF FrameWritten
<1>Only. Only(i) /\ UNCHANGED <<connVars, regVars>>
  BY <1>3, <1>Frames DEF FrameWritten, Only, WorkerInv, DataTypes
<1>Types. ValuesAt(i)'
  BY <1>1, <1>2, <1>Frames DEF ValuesAt, Phases, Busy, Running
<1>Queue. QueuePart' /\ queue' \in Seq(Invs)
  BY <1>2, <1>Only, SameQueue DEF FrameWritten, Writing
<1>Ack. AckAt(i)'
  BY <1>1, <1>2 DEF InvAt, AckAt, FramesAt, SeqAt, Running, Writing
<1>Credit. CreditAt(i)'
  BY <1>1, <1>2, <1>Only DEF InvAt, AckAt, CreditAt, Over, connVars, Running, Writing
<1>Seq. SeqAt(i)'
  BY <1>1, <1>2, WorkerAssumption DEF InvAt, AckAt, FramesAt, SeqAt, Writing
<1> QED
  BY <1>Only, <1>Types, <1>Queue, <1>Ack, <1>Credit, <1>Frames, <1>Seq, OneMoves DEF InvAt

\* A frame whose send fails keeps the invariant: it is out or not, the
\* writer goes stale, the handler goes on or the error response takes the
\* next number.
LEMMA FrameFailsStep ==
    ASSUME WorkerInv, NEW i \in Invs, FrameFails(i)
    PROVE  WorkerInv'
<1> USE DEF invVars, writerVars
<1>1. InvAt(i) /\ ValuesAt(i) /\ seq[i] \in Nat /\ acks[i] \in Nat
  BY InvTypes DEF ValuesAt
<1>3. /\ phase' = [phase EXCEPT ![i] = phase'[i]]
      /\ acks' = [acks EXCEPT ![i] = acks'[i]]
      /\ seq' = [seq EXCEPT ![i] = seq'[i]]
      /\ active' \cup {i} = active \cup {i} /\ stale' \cup {i} = stale \cup {i}
      /\ i \in stale => i \in stale'
      /\ \/ /\ phase[i] \in {"write", "end"} /\ phase'[i] = "run"
            /\ active' = active /\ acks'[i] = acks[i] /\ seq'[i] = seq[i]
         \/ /\ phase[i] = "late" /\ phase'[i] = "error" /\ i \notin stale
            /\ active' = active /\ acks'[i] = acks[i] /\ seq'[i] = seq[i] + 1
         \/ /\ phase[i] \in {"late", "error"} /\ phase'[i] = "acking"
            /\ i \notin active' /\ acks'[i] = acks[i] + 1 /\ seq'[i] = seq[i]
  <2>1. CASE GoesOn(i, TRUE) /\ UNCHANGED seq
    BY <2>1, AfterFrame DEF WorkerInv, DataTypes
  <2>2. CASE Throws(i)
    BY <2>2, AfterThrow
  <2> QED
    BY <2>1, <2>2 DEF FrameFails
<1>2. /\ since'[i] = since[i] /\ started' = started /\ unheard' = unheard
      /\ i \in stale => i \in stale'
      /\ phase[i] \in Writing
      /\ \/ /\ phase[i] \in {"write", "end"} /\ phase'[i] = "run"
            /\ active' = active /\ acks'[i] = acks[i] /\ seq'[i] = seq[i]
         \/ /\ phase[i] = "late" /\ phase'[i] = "error" /\ i \notin stale
            /\ active' = active /\ acks'[i] = acks[i] /\ seq'[i] = seq[i] + 1
         \/ /\ phase[i] \in {"late", "error"} /\ phase'[i] = "acking"
            /\ i \notin active' /\ acks'[i] = acks[i] + 1 /\ seq'[i] = seq[i]
  BY <1>3 DEF FrameFails
<1>Frames. FramesAt(i)' /\ out' = [out EXCEPT ![i] = out'[i]] /\ out'[i] \in Seq(Frame)
  <2>1. CASE Reaches(i, "unsure")
    BY <2>1, <1>2, FrameReaches
  <2>2. CASE UNCHANGED out
    <3>1. out' = [out EXCEPT ![i] = out'[i]] /\ out'[i] \in Seq(Frame)
      BY <2>2 DEF WorkerInv, DataTypes
    <3>2. FramesAt(i)'
      BY <2>2, <1>1, <1>2, FramesKept DEF Writing
    <3> QED
      BY <3>1, <3>2
  <2> QED
    BY <2>1, <2>2 DEF FrameFails
<1>Only. Only(i) /\ UNCHANGED <<connVars, regVars>>
  BY <1>3, <1>Frames DEF FrameFails, Only, WorkerInv, DataTypes
<1>Types. ValuesAt(i)'
  BY <1>1, <1>2, <1>Frames, WorkerAssumption DEF ValuesAt, Phases, Busy, Running, Writing,
     InvAt, SeqAt
<1>Queue. QueuePart' /\ queue' \in Seq(Invs)
  BY <1>2, <1>Only, SameQueue DEF FrameFails, Writing
<1>Ack. AckAt(i)'
  BY <1>1, <1>2 DEF InvAt, AckAt, FramesAt, SeqAt, Running, Writing
<1>Credit. CreditAt(i)'
  BY <1>1, <1>2, <1>Only DEF InvAt, AckAt, CreditAt, Over, connVars, Running, Writing
<1>Seq. SeqAt(i)'
  BY <1>1, <1>2, WorkerAssumption DEF InvAt, AckAt, FramesAt, SeqAt, Writing
<1> QED
  BY <1>Only, <1>Types, <1>Queue, <1>Ack, <1>Credit, <1>Frames, <1>Seq, OneMoves DEF InvAt

\* The overload path keeps the invariant: the terminal error is its only
\* frame and its ack its only ack.
LEMMA SendBackpressureResponseStep ==
    ASSUME WorkerInv, NEW i \in Invs, SendBackpressureResponse(i)
    PROVE  WorkerInv'
<1> USE DEF invVars, writerVars
<1>1. InvAt(i) /\ ValuesAt(i) /\ seq[i] \in Nat /\ acks[i] \in Nat
  BY InvTypes DEF ValuesAt
<1>2. /\ phase[i] = "refused" /\ phase'[i] = "done" /\ since'[i] = since[i]
      /\ seq'[i] = seq[i] /\ acks'[i] = acks[i] + 1 /\ active' = active
      /\ started' = started /\ i \in stale' /\ unheard' = unheard
  BY DEF SendBackpressureResponse, SendAck, WorkerInv, DataTypes
<1>3. /\ out[i] = <<>> /\ out' = [out EXCEPT ![i] = out'[i]]
      /\ \/ out'[i] = <<>>
         \/ \E terminal \in {"end", "unsure"} :
               out'[i] = Append(out[i], [seq |-> 0, kind |-> terminal])
  BY <1>1, <1>2 DEF SendBackpressureResponse, InvAt, FramesAt, WorkerInv, DataTypes
<1>4. /\ out'[i] \in Seq(Frame)
      /\ \A m, n \in DOMAIN out'[i] : ~(m < n)
  <2>1. CASE out'[i] = <<>>
    BY <2>1
  <2>2. ASSUME NEW terminal \in {"end", "unsure"},
               out'[i] = Append(out[i], [seq |-> 0, kind |-> terminal])
        PROVE  out'[i] \in Seq(Frame) /\ \A m, n \in DOMAIN out'[i] : ~(m < n)
    <3>1. [seq |-> 0, kind |-> terminal] \in Frame
      BY DEF Frame, Kinds
    <3>2. out'[i] = <<[seq |-> 0, kind |-> terminal]>>
      BY <1>3, <2>2
    <3> QED
      BY <3>1, <3>2
  <2> QED
    BY <1>3, <2>1, <2>2
<1>Only. Only(i) /\ UNCHANGED <<connVars, regVars>>
  BY <1>3 DEF SendBackpressureResponse, SendAck, Only, WorkerInv, DataTypes
<1>Types. ValuesAt(i)'
  BY <1>1, <1>2, <1>4 DEF ValuesAt, Phases
<1>Queue. QueuePart' /\ queue' \in Seq(Invs)
  BY <1>2, <1>Only, SameQueue DEF SendBackpressureResponse, SendAck
<1>Ack. AckAt(i)'
  BY <1>1, <1>2 DEF InvAt, AckAt, FramesAt, SeqAt, Running, Writing
<1>Credit. CreditAt(i)'
  BY <1>1, <1>2, <1>Only DEF InvAt, AckAt, CreditAt, Over, connVars, Running, Writing
<1>Frames. FramesAt(i)'
  BY <1>2, <1>4 DEF FramesAt, Writing
<1>Seq. SeqAt(i)'
  BY <1>1, <1>2, WorkerAssumption DEF InvAt, AckAt, FramesAt, SeqAt, Writing
<1> QED
  BY <1>Only, <1>Types, <1>Queue, <1>Ack, <1>Credit, <1>Frames, <1>Seq, OneMoves DEF InvAt

\* The settling of the ack keeps the invariant: a finally block that waits
\* for it has acknowledged.
LEMMA AckSettlesStep ==
    ASSUME WorkerInv, NEW i \in Invs, AckSettles(i)
    PROVE  WorkerInv'
<1> USE DEF invVars, writerVars
<1>1. InvAt(i) /\ ValuesAt(i) /\ seq[i] \in Nat /\ acks[i] \in Nat
  BY InvTypes DEF ValuesAt
<1>Only. Only(i) /\ UNCHANGED <<connVars, regVars>>
  BY DEF AckSettles, Only, WorkerInv, DataTypes
<1>2. /\ phase[i] = "acking" /\ phase'[i] = "done" /\ since'[i] = since[i]
      /\ seq'[i] = seq[i] /\ out'[i] = out[i] /\ acks'[i] = acks[i] /\ active' = active
      /\ started' = started /\ stale' = stale /\ unheard' = unheard
  BY DEF AckSettles, WorkerInv, DataTypes
<1>Types. ValuesAt(i)'
  BY <1>1, <1>2, WorkerAssumption DEF ValuesAt, Phases, Busy, Running, Writing,
     InvAt, AckAt, FramesAt, SeqAt
<1>Queue. QueuePart' /\ queue' \in Seq(Invs)
  BY <1>2, <1>Only, SameQueue DEF AckSettles
<1>Ack. AckAt(i)'
  BY <1>1, <1>2 DEF InvAt, AckAt, FramesAt, SeqAt, Running, Writing
<1>Credit. CreditAt(i)'
  BY <1>1, <1>2, <1>Only DEF InvAt, AckAt, CreditAt, Over, connVars, Running, Writing
<1>Frames. FramesAt(i)'
  BY <1>1, <1>2, FramesKept DEF InvAt, FramesAt, Running, Writing
<1>Seq. SeqAt(i)'
  BY <1>1, <1>2, WorkerAssumption DEF InvAt, AckAt, FramesAt, SeqAt, Writing
<1> QED
  BY <1>Only, <1>Types, <1>Queue, <1>Ack, <1>Credit, <1>Frames, <1>Seq, OneMoves DEF InvAt

-----------------------------------------------------------------------------
(* The theorems *)

\* Every step of the worker keeps the invariant.
LEMMA WorkerStep == WorkerInv /\ [Next]_vars => WorkerInv'
<1> SUFFICES ASSUME WorkerInv, [Next]_vars PROVE WorkerInv'
  OBVIOUS
<1>1. CASE Disconnect
  BY <1>1, DisconnectStep
<1>2. CASE Reconnect
  BY <1>2, ReconnectStep
<1>3. CASE RestoreWorker
  BY <1>3, RestoreWorkerStep
<1>4. CASE RestoreDone
  BY <1>4, RestoreDoneStep
<1>5. CASE Mutation
  BY <1>5, MutationAnsweredStep, MutationAppliedStep, MutationFailsStep DEF Mutation
<1>6. CASE \E h \in Handles : RegisterWorker(h) \/ UnregisterWorker(h)
  BY <1>6, RegisterWorkerStep, UnregisterWorkerStep
<1>7. ASSUME NEW i \in Invs,
             HandleRpcRequest(i) \/ DeadlineElapses(i) \/ WorkerCancellation(i)
      PROVE  WorkerInv'
  BY <1>7, HandleRpcRequestStep, DeadlineElapsesStep, WorkerCancellationStep
<1>8. ASSUME NEW i \in Invs, TaskStep(i) PROVE WorkerInv'
  BY <1>8, StartTaskStep, HandlerReturnsStep, SendBackpressureResponseStep
     DEF TaskStep
<1>9. ASSUME NEW i \in Invs, FrameSettles(i) PROVE WorkerInv'
  BY <1>9, FrameWrittenStep, FrameFailsStep DEF FrameSettles
<1>10. ASSUME NEW i \in Invs,
              AckSettles(i) \/ HandlerThrows(i)
                \/ HandlerWrites(i, "write") \/ HandlerWrites(i, "end")
       PROVE  WorkerInv'
  BY <1>10, AckSettlesStep, HandlerThrowsStep, HandlerWritesStep
<1>11. CASE UNCHANGED vars
  <2>1. QueuePart' /\ \A i \in Invs : InvAt(i)'
    BY <1>11, QuietStep DEF vars, connVars
  <2>2. DataTypes'
    BY <1>11 DEF vars, WorkerInv, DataTypes, connVars, regVars, invVars, writerVars
  <2>3. RegPart'
    BY <1>11 DEF WorkerInv, RegPart, Unrecorded, vars, connVars, regVars
  <2> QED
    BY <2>1, <2>2, <2>3 DEF WorkerInv
<1> QED
  BY <1>1, <1>2, <1>3, <1>4, <1>5, <1>6, <1>7, <1>8, <1>9, <1>10, <1>11 DEF Next

\* The worker's invariant: registration, queue, acks, credit and frames of
\* every invocation fit together in every state the client can reach.
THEOREM WorkerCorrect == Spec => []WorkerInv
BY InitWorker, WorkerStep, PTL DEF Spec

\* The worker keeps the values its variables are declared with; the
\* writer's numbers stay within the frames a handler may write, one end
\* frame and one error response.
THEOREM WorkerTypeCorrect == Spec => []TypeOK
<1>1. WorkerInv => TypeOK
  BY DEF WorkerInv, DataTypes, RegPart, TypeOK, Frame
<1> QED
  BY <1>1, WorkerCorrect, PTL

\* An invocation ends once, for every number of invocations and of handler
\* slots: cancellation, the finally block and the overload path never
\* acknowledge one twice whose handler was called, none is acknowledged
\* while its handler may run, and nothing follows a terminal frame the
\* writer knows to be sent.
THEOREM WorkerEndsOnce == Spec => []InvocationEndsOnce
<1>1. WorkerInv => InvocationEndsOnce
  <2> SUFFICES ASSUME WorkerInv, NEW i \in Invs
               PROVE  /\ acks[i] <= (IF i \in started \/ seq[i] = 0 THEN 1 ELSE 2)
                      /\ i \in started /\ acks[i] > 0 => phase[i] \notin Running
                      /\ \A m, n \in DOMAIN out[i] : m < n =>
                           /\ out[i][m].seq < out[i][n].seq
                           /\ out[i][m].kind # "end"
    BY DEF InvocationEndsOnce
  <2> QED
    BY DEF WorkerInv, InvAt, AckAt, FramesAt
<1> QED
  BY <1>1, WorkerCorrect, PTL

\* No path forgets the credit, the safety half of CreditReturned: when the
\* client is through with an invocation of the session it is connected to,
\* handled, cancelled before its start, out of time or refused, the ack
\* was handed to send().  Only a REQUEST whose registration the client had
\* not recorded, or had given up on, is dropped without one.
THEOREM WorkerForgetsNoCredit ==
    Spec => [](\A i \in Invs :
                 /\ phase[i] = "done" /\ since[i] = session /\ conn # "down"
                       => acks[i] > 0
                 /\ phase[i] = "dropped" => i \in unheard)
<1>1. WorkerInv => \A i \in Invs :
                     /\ phase[i] = "done" /\ since[i] = session /\ conn # "down"
                           => acks[i] > 0
                     /\ phase[i] = "dropped" => i \in unheard
  BY DEF WorkerInv, InvAt, CreditAt, Over
<1> QED
  BY <1>1, WorkerCorrect, PTL
=============================================================================
