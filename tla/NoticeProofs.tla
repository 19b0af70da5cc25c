----------------------------- MODULE NoticeProofs -----------------------------
(***************************************************************************)
(* Proofs about the subscription bookkeeping of the domain clients, for    *)
(* every kind of client, every environment (refusals, timeouts, aborted    *)
(* signals, calls without a session), any patterns, handlers and           *)
(* unsubscribeAll() calls, and any number of sessions and subIds.          *)
(***************************************************************************)
EXTENDS Notice, FiniteSetTheorems, SequenceTheorems, TLAPS

-------------------------------------------------------------------------------
(* The inductive invariant *)

Stages == {"none", "waiting", "sent", "ok", "refused", "failed"}
PcValues == {"idle", "queued", "awaiting", "resuming", "registering", "adding", "active",
             "unsubscribing", "detached", "done", "rejected"}
Frame == [op : Owners \cup {Nobody}, kind : {"subscribe", "unsubscribe", "unsubscribeAll"},
          pat : Patterns \cup {Nobody}, id : Ids \cup {NoId}]

\* The session and the broker.
SessionTypes ==
    /\ phase \in {"ready", "lost", "restoring"} /\ session \in 1 .. MaxSessions
    /\ reg \in [Patterns -> Ids \cup {NoId}] /\ nextId \in 1 .. MaxIds + 1

\* The calls.
CallTypes ==
    /\ pc \in [Handlers -> PcValues] /\ pat \in [Handlers -> Patterns \cup {Nobody}]
    /\ waitsFor \in [Handlers -> Handlers \cup {Nobody}]
    /\ held \in [Handlers -> Ids \cup {NoId}]
    /\ aborted \subseteq Handlers /\ ended \subseteq Handlers
    /\ since \in [Handlers -> 0 .. MaxSessions]

\* The maps of the client.
MapTypes ==
    /\ entries \in [Patterns -> Entry \cup {Nobody}]
    /\ patternsBySubId \in [Ids -> Patterns \cup {Nobody}]
    /\ pending \subseteq Ids

\* The requests and the frames the broker has not handled.
ReqTypes == req \in [Owners -> [st : Stages, id : Ids \cup {NoId}]] /\ out \in Seq(Frame)

RestoreTypes ==
    restore \in [todo : SUBSET Patterns, cur : Patterns \cup {Nobody}, rolling : BOOLEAN,
                 failed : SUBSET Patterns, done : [Patterns -> Entry \cup {Nobody}]]

TailTypes ==
    /\ tail \in Seq(Handlers \cup Bulks) /\ skippedRestore \in BOOLEAN
    /\ bulk \in [Bulks -> {"idle", "queued", "turn", "requesting", "done", "failed"}]

\* A call that has begun has its pattern; a handler has a request of its own
\* exactly while it unsubscribes; who registers shares a request under way.
HandlerPart ==
    \A h \in Handlers :
        /\ pc[h] # "idle" => pat[h] \in Patterns
        /\ pc[h] \in {"adding", "unsubscribing"} => held[h] \in Ids
        /\ pc[h] = "unsubscribing" <=> req[h].st # "none"
        /\ pc[h] = "registering" => req[pat[h]].st # "none"

\* An entry, and a copy a restore has made of one, holds handlers that called
\* subscribe() for its pattern.
EntryPart ==
    \A p \in Patterns :
        /\ entries[p] # Nobody =>
             \A h \in entries[p].handlers : pat[h] = p /\ pc[h] # "idle"
        /\ restore.done[p] # Nobody =>
             \A h \in restore.done[p].handlers : pat[h] = p /\ pc[h] # "idle"

\* A confirmed SUBSCRIBE brought a subId; unsubscribeAll() has a request while it
\* says so; the restore has one only in a restoring session, for the entry it is at.
RequestPart ==
    /\ \A p \in Patterns : req[p].st = "ok" => req[p].id \in Ids
    /\ \A b \in Bulks : req[b].st # "none" <=> bulk[b] = "requesting"
    /\ req[Restorer].st = "ok" /\ ~ restore.rolling => req[Restorer].id \in Ids
    /\ req[Restorer].st # "none" =>
         /\ phase = "restoring" /\ restore.cur \in Patterns
         /\ req[Restorer].st # "waiting"
         /\ restore.rolling => restore.done[restore.cur] # Nobody
         /\ ~ restore.rolling => restore.cur \in restore.todo

\* Without a session nothing is under way; while one is being restored only the
\* restore has frames out and no unsubscribeAll() is at work.
PhasePart ==
    /\ phase = "lost" => /\ session < MaxSessions /\ out = <<>>
                         /\ \A o \in Owners : req[o].st # "sent"
    /\ phase = "restoring" =>
         /\ \A o \in Owners \ {Restorer} : req[o].st \in {"none", "waiting", "failed"}
         /\ \A b \in Bulks : bulk[b] # "requesting"

\* What the restore has before it is still in the map.
TodoPart == phase = "restoring" => \A p \in restore.todo : entries[p] # Nobody

\* A frame belongs to the one request that waits for its answer, or to none.
FramePart ==
    /\ \A i \in DOMAIN out :
         /\ out[i].kind # "unsubscribeAll" => out[i].pat \in Patterns
         /\ out[i].op # Nobody => req[out[i].op].st = "sent"
         /\ out[i].op \in Patterns => out[i].kind = "subscribe"
         /\ out[i].op = Restorer /\ ~ restore.rolling => out[i].kind = "subscribe"
    /\ \A i, j \in DOMAIN out : out[i].op = out[j].op /\ out[i].op # Nobody => i = j

\* A subId that is mapped to a pattern is the one of the pattern's entry; the kv
\* and the lease client buffer nothing.
MapPart ==
    /\ domain \in {"kv", "lease"} => pending = {}
    /\ domain \notin {"kv", "lease"} =>
         \A i \in Ids : patternsBySubId[i] # Nobody =>
            /\ entries[patternsBySubId[i]] # Nobody
            /\ entries[patternsBySubId[i]].id = i

\* The calls behind the first one of the tail wait for their turn, each once.
TailPart ==
    /\ \A k \in DOMAIN tail :
         /\ tail[k] \in Handlers => pc[tail[k]] # "idle" /\ (k > 1 => pc[tail[k]] = "queued")
         /\ tail[k] \in Bulks => bulk[tail[k]] # "idle" /\ (k > 1 => bulk[tail[k]] = "queued")
    /\ \A k, l \in DOMAIN tail : tail[k] = tail[l] => k = l

BookInv ==
    /\ SessionTypes /\ CallTypes /\ MapTypes /\ ReqTypes /\ RestoreTypes /\ TailTypes
    /\ HandlerPart /\ EntryPart /\ RequestPart /\ PhasePart /\ TodoPart /\ FramePart
    /\ MapPart /\ TailPart /\ NothingStranded

-------------------------------------------------------------------------------
(* Lemmas about the operators *)

\* The owners of requests are of different kinds, and none of them is Nobody.
LEMMA OwnersApart ==
    /\ Patterns \subseteq Owners /\ Handlers \subseteq Owners /\ Bulks \subseteq Owners
    /\ Restorer \in Owners /\ Nobody \notin Owners
    /\ Restorer \notin Patterns /\ Restorer \notin Handlers /\ Restorer \notin Bulks
    /\ Patterns \cap Handlers = {} /\ Patterns \cap Bulks = {} /\ Handlers \cap Bulks = {}
    /\ Nobody \notin Patterns /\ Nobody \notin Handlers /\ Nobody \notin Bulks
BY SubAssumption DEF Owners

\* An entry is never mistaken for its absence.
LEMMA EntryExists == \A e \in Entry : e # Nobody
BY SubAssumption

\* The bounds are numbers and 0 is no subId.
LEMMA Bounds == MaxSessions \in Nat /\ MaxSessions > 0 /\ MaxIds \in Nat /\ NoId \notin Ids
BY SubAssumption DEF NoId, Ids

\* What a step keeps when it leaves the variables of a part alone.
LEMMA Kept ==
    ASSUME BookInv
    PROVE  /\ UNCHANGED <<phase, session, reg, nextId>> => SessionTypes'
           /\ UNCHANGED <<pc, pat, waitsFor, held, aborted, ended, since>> => CallTypes'
           /\ UNCHANGED <<entries, patternsBySubId, pending>> => MapTypes'
           /\ UNCHANGED <<req, out>> => ReqTypes'
           /\ UNCHANGED <<restore>> => RestoreTypes'
           /\ UNCHANGED <<tail, bulk, skippedRestore>> => TailTypes'
           /\ UNCHANGED <<pc, pat, held, req>> => HandlerPart'
           /\ UNCHANGED <<entries, restore, pat, pc>> => EntryPart'
           /\ UNCHANGED <<req, bulk, restore, phase>> => RequestPart'
           /\ UNCHANGED <<phase, session, out, req, bulk>> => PhasePart'
           /\ UNCHANGED <<phase, restore, entries>> => TodoPart'
           /\ UNCHANGED <<out, req, restore>> => FramePart'
           /\ UNCHANGED <<domain, pending, patternsBySubId, entries>> => MapPart'
           /\ UNCHANGED <<tail, pc, bulk>> => TailPart'
           /\ UNCHANGED <<pending, entries, patternsBySubId>> => NothingStranded'
<1>1. UNCHANGED <<phase, session, reg, nextId>> => SessionTypes'
  BY DEF BookInv, SessionTypes
<1>2. UNCHANGED <<pc, pat, waitsFor, held, aborted, ended, since>> => CallTypes'
  BY DEF BookInv, CallTypes
<1>3. UNCHANGED <<entries, patternsBySubId, pending>> => MapTypes'
  BY DEF BookInv, MapTypes
<1>4. UNCHANGED <<req, out>> => ReqTypes'
  BY DEF BookInv, ReqTypes
<1>5. UNCHANGED <<restore>> => RestoreTypes'
  BY DEF BookInv, RestoreTypes
<1>6. UNCHANGED <<tail, bulk, skippedRestore>> => TailTypes'
  BY DEF BookInv, TailTypes
<1>7. UNCHANGED <<pc, pat, held, req>> => HandlerPart'
  BY DEF BookInv, HandlerPart
<1>8. UNCHANGED <<entries, restore, pat, pc>> => EntryPart'
  BY DEF BookInv, EntryPart
<1>9. UNCHANGED <<req, bulk, restore, phase>> => RequestPart'
  BY DEF BookInv, RequestPart
<1>10. UNCHANGED <<phase, session, out, req, bulk>> => PhasePart'
  BY DEF BookInv, PhasePart
<1>11. UNCHANGED <<phase, restore, entries>> => TodoPart'
  BY DEF BookInv, TodoPart
<1>12. UNCHANGED <<out, req, restore>> => FramePart'
  BY DEF BookInv, FramePart
<1>13. UNCHANGED <<domain, pending, patternsBySubId, entries>> => MapPart'
  BY DEF BookInv, MapPart
<1>14. UNCHANGED <<tail, pc, bulk>> => TailPart'
  BY DEF BookInv, TailPart
<1>15. UNCHANGED <<pending, entries, patternsBySubId>> => NothingStranded'
  BY DEF BookInv, NothingStranded, Resolves
<1> QED
  BY <1>1, <1>2, <1>3, <1>4, <1>5, <1>6, <1>7, <1>8, <1>9, <1>10, <1>11, <1>12, <1>13, <1>14, <1>15

\* The client begins with empty maps, in its first session.
LEMMA InitBook == NInit => BookInv
<1> SUFFICES ASSUME NInit PROVE BookInv
  OBVIOUS
<1> USE DEF NInit, Init
<1>1. SessionTypes
  BY Bounds DEF SessionTypes, NoId
<1>2. CallTypes
  BY Bounds DEF CallTypes, PcValues, NoId
<1>3. MapTypes
  BY DEF MapTypes
<1>4. ReqTypes
  BY DEF ReqTypes, Idle, Stages
<1>5. RestoreTypes
  BY DEF RestoreTypes, NotRestoring
<1>6. TailTypes
  <2>1. tail \in Seq(Handlers \cup Bulks)
    OBVIOUS
  <2> QED
    BY <2>1 DEF TailTypes
<1>7. HandlerPart
  BY OwnersApart DEF HandlerPart, Idle
<1>8. EntryPart
  BY DEF EntryPart, NotRestoring
<1>9. RequestPart
  BY OwnersApart DEF RequestPart, Idle
<1>10. PhasePart /\ TodoPart
  BY DEF PhasePart, TodoPart
<1>11. FramePart
  BY DEF FramePart
<1>12. MapPart
  BY DEF MapPart
<1>13. TailPart
  BY DEF TailPart
<1>14. NothingStranded
  BY DEF NothingStranded
<1> QED
  BY <1>1, <1>2, <1>3, <1>4, <1>5, <1>6, <1>7, <1>8, <1>9, <1>10, <1>11, <1>12, <1>13,
     <1>14 DEF BookInv

\* request(): an owner without a request gets one, with a frame of its own if the
\* session is usable.
LEMMA RequestSent ==
    ASSUME BookInv, NEW o \in Owners, NEW kind, NEW p, NEW id, Request(o, kind, p, id),
           req[o].st \in {"none", "waiting"},
           kind \in {"subscribe", "unsubscribe", "unsubscribeAll"},
           p \in Patterns \cup {Nobody}, id \in Ids \cup {NoId},
           kind # "unsubscribeAll" => p \in Patterns,
           o \in Patterns => kind = "subscribe",
           o = Restorer /\ ~ restore.rolling => kind = "subscribe",
           restore'.rolling = restore.rolling,
           UNCHANGED phase
    PROVE  /\ ReqTypes' /\ FramePart'
           /\ req' = [req EXCEPT ![o] = [st |-> IF MaySend(o) THEN "sent" ELSE "waiting",
                                         id |-> NoId]]
           /\ phase = "lost" => out' = out
<1> DEFINE f == [op |-> o, kind |-> kind, pat |-> p, id |-> id]
<1>1. ReqTypes /\ FramePart /\ SessionTypes
  BY DEF BookInv
<1>2. f \in Frame /\ f.op = o /\ f.kind = kind /\ f.pat = p
  BY DEF Frame
<1>3. /\ req' = [req EXCEPT ![o] = [st |-> IF MaySend(o) THEN "sent" ELSE "waiting",
                                    id |-> NoId]]
      /\ out' = IF MaySend(o) THEN Append(out, f) ELSE out
  BY DEF Request
<1> HIDE DEF f
<1>4. ReqTypes'
  <2>1. req' \in [Owners -> [st : Stages, id : Ids \cup {NoId}]]
    BY <1>1, <1>3 DEF ReqTypes, Stages
  <2>2. out' \in Seq(Frame)
    BY <1>1, <1>2, <1>3 DEF ReqTypes
  <2> QED
    BY <2>1, <2>2 DEF ReqTypes
<1>5. \A i \in DOMAIN out : out[i].op # o /\ out[i] \in Frame
  <2>1. \A i \in DOMAIN out : out[i] \in Frame
    BY <1>1 DEF ReqTypes
  <2>2. \A i \in DOMAIN out : out[i].op # Nobody => req[out[i].op].st = "sent"
    BY <1>1 DEF FramePart
  <2> QED
    BY <2>1, <2>2, OwnersApart
<1>6. o # Nobody
  BY OwnersApart
<1>7. FramePart'
  <2>1. CASE ~ MaySend(o)
    <3>1. out' = out
      BY <1>3, <2>1
    <3>2. \A i \in DOMAIN out : out[i].op # Nobody => req'[out[i].op] = req[out[i].op]
      BY <1>1, <1>3, <1>5 DEF ReqTypes, Frame
    <3> QED
      BY <1>1, <3>1, <3>2 DEF FramePart
  <2>2. CASE MaySend(o)
    <3>1. PICK n \in Nat : n = Len(out)
      BY <1>1 DEF ReqTypes
    <3>2. /\ DOMAIN out = 1..n /\ DOMAIN out' = 1..(n + 1)
          /\ \A i \in 1..n : out'[i] = out[i]
          /\ out'[n + 1] = f
      BY <1>1, <1>2, <1>3, <2>2, <3>1 DEF ReqTypes
    <3>3. \A i \in 1..n : out[i].op # Nobody => req'[out[i].op] = req[out[i].op]
      BY <1>1, <1>3, <1>5, <3>2 DEF ReqTypes, Frame
    <3>4. req'[o].st = "sent"
      BY <1>1, <1>3, <2>2 DEF ReqTypes
    <3>5. ASSUME NEW i \in DOMAIN out'
          PROVE  /\ out'[i].kind # "unsubscribeAll" => out'[i].pat \in Patterns
                 /\ out'[i].op # Nobody => req'[out'[i].op].st = "sent"
                 /\ out'[i].op \in Patterns => out'[i].kind = "subscribe"
                 /\ out'[i].op = Restorer /\ ~ restore'.rolling
                      => out'[i].kind = "subscribe"
      <4>1. CASE i = n + 1
        BY <1>2, <3>2, <3>4, <4>1
      <4>2. CASE i \in 1..n
        BY <1>1, <3>2, <3>3, <4>2 DEF FramePart
      <4> QED
        BY <3>2, <4>1, <4>2
    <3>6. \A i, j \in DOMAIN out' : out'[i].op = out'[j].op /\ out'[i].op # Nobody => i = j
      BY <1>1, <1>2, <1>5, <3>2 DEF FramePart
    <3> QED
      BY <3>5, <3>6 DEF FramePart
  <2> QED
    BY <2>1, <2>2
<1>8. phase = "lost" => out' = out
  BY <1>3, <1>1 DEF MaySend, SessionTypes
<1> QED
  BY <1>3, <1>4, <1>7, <1>8

\* The phase of a step by which an owner other than the restore sends a request.
LEMMA RequestPhase ==
    ASSUME BookInv, NEW o \in Owners \ {Restorer},
           req' = [req EXCEPT ![o] = [st |-> IF MaySend(o) THEN "sent" ELSE "waiting",
                                      id |-> NoId]],
           phase = "lost" => out' = out, UNCHANGED <<phase, session>>,
           phase = "restoring" => \A b \in Bulks : bulk'[b] # "requesting"
    PROVE  PhasePart'
<1>1. ReqTypes /\ PhasePart
  BY DEF BookInv
<1>2. req'[o].st = IF phase = "ready" THEN "sent" ELSE "waiting"
  BY <1>1 DEF ReqTypes, MaySend
<1>3. \A k \in Owners : k # o => req'[k] = req[k]
  BY <1>1 DEF ReqTypes
<1> QED
  BY <1>1, <1>2, <1>3 DEF PhasePart

\* The maps of a step that replaces an entry by one under the same subId with no
\* more handlers.
LEMMA EntryReplaced ==
    ASSUME BookInv, NEW p \in Patterns, NEW e \in Entry, entries[p] # Nobody,
           e.id = entries[p].id, e.handlers \subseteq entries[p].handlers,
           entries' = [entries EXCEPT ![p] = e],
           \A h \in Handlers : pc[h] # "idle" => pc'[h] # "idle",
           UNCHANGED <<domain, phase, patternsBySubId, pending, pat, restore>>
    PROVE  MapTypes' /\ EntryPart' /\ TodoPart' /\ MapPart' /\ NothingStranded'
<1>1. MapTypes /\ EntryPart /\ TodoPart /\ MapPart /\ NothingStranded /\ RestoreTypes
  BY DEF BookInv
<1>2. e # Nobody
  BY EntryExists
<1>3. /\ \A q \in Patterns : entries'[q] # Nobody <=> entries[q] # Nobody
      /\ \A q \in Patterns : q # p => entries'[q] = entries[q]
      /\ entries'[p] = e
  BY <1>1, <1>2 DEF MapTypes
<1>4. MapTypes'
  BY <1>1 DEF MapTypes
<1>5. EntryPart'
  <2> SUFFICES ASSUME NEW q \in Patterns
               PROVE  /\ entries'[q] # Nobody =>
                           \A h \in entries'[q].handlers : pat[h] = q /\ pc'[h] # "idle"
                      /\ restore.done[q] # Nobody =>
                           \A h \in restore.done[q].handlers : pat[h] = q /\ pc'[h] # "idle"
    BY DEF EntryPart
  <2>1. /\ entries[q] # Nobody => entries[q].handlers \subseteq Handlers
        /\ restore.done[q] # Nobody => restore.done[q].handlers \subseteq Handlers
    BY <1>1 DEF MapTypes, RestoreTypes, Entry
  <2>2. entries'[q] # Nobody =>
          entries[q] # Nobody /\ entries'[q].handlers \subseteq entries[q].handlers
    BY <1>3
  <2> QED
    BY <1>1, <2>1, <2>2 DEF EntryPart
<1>6. TodoPart'
  BY <1>1, <1>3 DEF TodoPart, RestoreTypes
<1>7. MapPart'
  BY <1>1, <1>3 DEF MapPart, MapTypes
<1>8. NothingStranded'
  BY <1>1, <1>3 DEF NothingStranded, Resolves, MapTypes
<1> QED
  BY <1>4, <1>5, <1>6, <1>7, <1>8

-------------------------------------------------------------------------------
(* Notifications and unsubscribe() *)

\* A notification is buffered only while its subId does not resolve, which
\* keeps the invariant.
LEMMA NotifyStep ==
    ASSUME BookInv, NEW p \in Patterns, Notify(p), Still, Same
    PROVE  BookInv'
<1>0. UNCHANGED <<domain, env, phase, session, reg, nextId, out, req, entries,
     patternsBySubId, pc, pat, waitsFor, held, aborted, ended, since, restore, tail,
     bulk, skippedRestore>>
  BY DEF Notify, Still, Same, notice, broker, calls
<1>1. /\ domain \notin {"kv", "lease"} /\ reg[p] \in Ids
      /\ ~ Resolves(reg[p], entries, patternsBySubId)
      /\ pending' = pending \cup {reg[p]}
  BY DEF Notify, BookInv, SessionTypes
<1>k. SessionTypes' /\ CallTypes' /\ ReqTypes' /\ RestoreTypes' /\ TailTypes' /\
     HandlerPart' /\ EntryPart' /\ RequestPart' /\ PhasePart' /\ TodoPart' /\
     FramePart' /\ TailPart'
  BY <1>0, Kept
<1>m. MapTypes'
  BY <1>0, <1>1 DEF BookInv, MapTypes
<1>i. MapPart'
  BY <1>0, <1>1 DEF BookInv, MapPart
<1>n. NothingStranded'
  BY <1>0, <1>1 DEF BookInv, NothingStranded, Resolves
<1> QED
  BY <1>k, <1>m, <1>i, <1>n DEF BookInv

\* The calls of a step that moves one handler that is not queued in the tail.
LEMMA CallMoved ==
    ASSUME BookInv, NEW h \in Handlers, NEW v \in PcValues, v # "idle",
           pc[h] # "queued",
           pc' = [pc EXCEPT ![h] = v], UNCHANGED <<tail, bulk>>
    PROVE  /\ TailPart' /\ pc' \in [Handlers -> PcValues] /\ pc'[h] = v
           /\ \A k \in Handlers : k # h => pc'[k] = pc[k]
           /\ \A k \in Handlers : pc[k] # "idle" => pc'[k] # "idle"
<1>1. TailPart /\ TailTypes /\ CallTypes
  BY DEF BookInv
<1>2. pc' \in [Handlers -> PcValues] /\ pc'[h] = v
      /\ \A k \in Handlers : k # h => pc'[k] = pc[k]
  BY <1>1 DEF CallTypes
<1>3. TailPart'
  BY <1>1, <1>2 DEF TailPart
<1> QED
  BY <1>2, <1>3

\* unsubscribe() of an active or detached handle keeps the invariant: it takes the
\* handler out, or sends UNSUBSCRIBE and marks the entry.
LEMMA UnsubscribeBodyStep ==
    ASSUME BookInv, NEW h \in Handlers, pc[h] \in {"active", "detached"},
           UnsubscribeBody(h), aborted' \subseteq Handlers, ended' \subseteq Handlers,
           Still, Same
    PROVE  BookInv'
<1> DEFINE p == pat[h]
           e == entries[p]
<1>0. UNCHANGED <<domain, env, phase, session, reg, nextId, patternsBySubId, pending,
                  waitsFor, pat, since, restore, tail, bulk, skippedRestore>>
  BY DEF UnsubscribeBody, Still, Same, notice, broker
<1>1. /\ CallTypes /\ MapTypes /\ HandlerPart /\ ReqTypes /\ RequestPart /\ FramePart
      /\ PhasePart
  BY DEF BookInv
<1>2. p \in Patterns /\ e \in Entry \cup {Nobody} /\ h \in Owners
  BY <1>1, OwnersApart DEF HandlerPart, MapTypes
<1>3. req[h].st = "none"
  BY <1>1 DEF HandlerPart
<1>4. \/ /\ pc' = [pc EXCEPT ![h] = "done"]
         /\ UNCHANGED <<entries, req, out, held>>
      \/ /\ e # Nobody
         /\ entries' = [entries EXCEPT ![p] = [e EXCEPT !.handlers = e.handlers \ {h}]]
         /\ pc' = [pc EXCEPT ![h] = "done"]
         /\ UNCHANGED <<req, out, held>>
      \/ /\ e # Nobody
         /\ \/ entries' = [entries EXCEPT ![p] = [e EXCEPT !.unsub = h]]
            \/ entries' = [entries EXCEPT ![p] = [e EXCEPT !.handlers = {}, !.unsub = h]]
         /\ pc' = [pc EXCEPT ![h] = "unsubscribing"]
         /\ held' = [held EXCEPT ![h] = e.id]
         /\ \E id \in {NoId, e.id} : Request(h, "unsubscribe", p, id)
  BY <1>1, <1>2 DEF UnsubscribeBody, Detach, NoticeDetach, LeaseDetach, KeepUntilConfirmed,
                    MapTypes
<1> HIDE DEF p, e
<1>5. \A x \in Patterns : x = p => entries[x] = e
  BY DEF p, e
<1>6. SessionTypes' /\ RestoreTypes' /\ TailTypes'
  BY <1>0, Kept
<1>7. CASE /\ pc' = [pc EXCEPT ![h] = "done"]
           /\ UNCHANGED <<req, out, held>>
           /\ \/ UNCHANGED entries
              \/ /\ e # Nobody
                 /\ entries' = [entries EXCEPT ![p] =
                                  [e EXCEPT !.handlers = e.handlers \ {h}]]
  <2>1. /\ TailPart' /\ pc' \in [Handlers -> PcValues] /\ pc'[h] = "done"
        /\ \A k \in Handlers : k # h => pc'[k] = pc[k]
        /\ \A k \in Handlers : pc[k] # "idle" => pc'[k] # "idle"
    BY <1>0, <1>7, CallMoved DEF PcValues
  <2>2. ReqTypes' /\ RequestPart' /\ PhasePart' /\ FramePart'
    BY <1>0, <1>7, Kept
  <2>3. CallTypes'
    BY <1>0, <1>1, <1>7, <2>1 DEF CallTypes
  <2>4. HandlerPart'
    BY <1>0, <1>1, <1>3, <1>7, <2>1 DEF HandlerPart
  <2>5. MapTypes' /\ EntryPart' /\ TodoPart' /\ MapPart' /\ NothingStranded'
    <3>1. CASE UNCHANGED entries
      <4>1. MapTypes' /\ TodoPart' /\ MapPart' /\ NothingStranded'
        BY <1>0, <3>1, Kept
      <4>2. EntryPart'
        BY <1>0, <2>1, <3>1 DEF BookInv, EntryPart, MapTypes, RestoreTypes, Entry
      <4> QED
        BY <4>1, <4>2
    <3>2. CASE /\ e # Nobody
               /\ entries' = [entries EXCEPT ![p] = [e EXCEPT !.handlers = e.handlers \ {h}]]
      <4>1. /\ [e EXCEPT !.handlers = e.handlers \ {h}] \in Entry
            /\ [e EXCEPT !.handlers = e.handlers \ {h}].id = e.id
            /\ [e EXCEPT !.handlers = e.handlers \ {h}].handlers \subseteq e.handlers
        BY <1>2, <3>2 DEF Entry
      <4> QED
        BY <1>0, <1>2, <1>5, <2>1, <3>2, <4>1, EntryReplaced
    <3> QED
      BY <1>7, <3>1, <3>2
  <2> QED
    BY <1>6, <2>1, <2>2, <2>3, <2>4, <2>5 DEF BookInv
<1>8. CASE /\ e # Nobody
           /\ \/ entries' = [entries EXCEPT ![p] = [e EXCEPT !.unsub = h]]
              \/ entries' = [entries EXCEPT ![p] = [e EXCEPT !.handlers = {}, !.unsub = h]]
           /\ pc' = [pc EXCEPT ![h] = "unsubscribing"]
           /\ held' = [held EXCEPT ![h] = e.id]
           /\ \E id \in {NoId, e.id} : Request(h, "unsubscribe", p, id)
  <2>0. e \in Entry /\ e.id \in Ids /\ e.handlers \subseteq Handlers
    BY <1>2, <1>8 DEF Entry
  <2>1. /\ TailPart' /\ pc' \in [Handlers -> PcValues] /\ pc'[h] = "unsubscribing"
        /\ \A k \in Handlers : k # h => pc'[k] = pc[k]
        /\ \A k \in Handlers : pc[k] # "idle" => pc'[k] # "idle"
    BY <1>0, <1>8, CallMoved DEF PcValues
  <2>2. PICK id \in {NoId, e.id} : Request(h, "unsubscribe", p, id)
    BY <1>8
  <2>3. /\ ReqTypes' /\ FramePart'
        /\ req' = [req EXCEPT ![h] = [st |-> IF MaySend(h) THEN "sent" ELSE "waiting",
                                      id |-> NoId]]
        /\ phase = "lost" => out' = out
    BY <1>0, <1>2, <1>3, <2>0, <2>2, RequestSent, OwnersApart
  <2>4. req'[h].st # "none" /\ \A k \in Owners : k # h => req'[k] = req[k]
    BY <1>1, <1>2, <2>3 DEF ReqTypes
  <2>5. PhasePart'
    <3>1. phase = "restoring" => \A b \in Bulks : bulk'[b] # "requesting"
      BY <1>0, <1>1 DEF PhasePart
    <3>2. h \in Owners \ {Restorer}
      BY <1>2, OwnersApart
    <3> QED
      BY <1>0, <2>3, <3>1, <3>2, RequestPhase
  <2>6. RequestPart'
    BY <1>0, <1>1, <2>4, OwnersApart DEF RequestPart
  <2>7. held' \in [Handlers -> Ids \cup {NoId}] /\ held'[h] \in Ids
        /\ \A k \in Handlers : k # h => held'[k] = held[k]
    BY <1>1, <1>8, <2>0 DEF CallTypes
  <2>8. CallTypes'
    BY <1>0, <1>1, <2>1, <2>7 DEF CallTypes
  <2>9. HandlerPart'
    <3>1. \A k \in Handlers : pc[k] = "registering" => pat[k] \in Patterns /\ pat[k] # h
      BY <1>1, OwnersApart DEF HandlerPart
    <3> QED
      BY <1>0, <1>1, <1>2, <2>1, <2>4, <2>7, <3>1, OwnersApart DEF HandlerPart, p
  <2>10. MapTypes' /\ EntryPart' /\ TodoPart' /\ MapPart' /\ NothingStranded'
    <3>1. PICK x \in Entry : /\ entries' = [entries EXCEPT ![p] = x]
                             /\ x.id = e.id /\ x.handlers \subseteq e.handlers
      <4>1. /\ [e EXCEPT !.unsub = h] \in Entry
            /\ [e EXCEPT !.unsub = h].id = e.id
            /\ [e EXCEPT !.unsub = h].handlers \subseteq e.handlers
        BY <2>0 DEF Entry
      <4>2. /\ [e EXCEPT !.handlers = {}, !.unsub = h] \in Entry
            /\ [e EXCEPT !.handlers = {}, !.unsub = h].id = e.id
            /\ [e EXCEPT !.handlers = {}, !.unsub = h].handlers \subseteq e.handlers
        BY <2>0 DEF Entry
      <4> QED
        BY <1>8, <4>1, <4>2
    <3> QED
      BY <1>0, <1>2, <1>5, <1>8, <2>1, <3>1, EntryReplaced
  <2> QED
    BY <1>6, <2>1, <2>3, <2>5, <2>6, <2>8, <2>9, <2>10 DEF BookInv
<1> QED
  BY <1>4, <1>7, <1>8

\* The application, its signal or an overload of the dispatcher ends a handle.
LEMMA HandleStepKeeps ==
    ASSUME BookInv, HandleStep, Still, Same
    PROVE  BookInv'
<1>1. CallTypes
  BY DEF BookInv
<1>2. PICK h \in Handlers : Unsubscribe(h) \/ Abort(h) \/ Overflow(h)
  BY DEF HandleStep
<1>3. aborted' \subseteq Handlers /\ ended' \subseteq Handlers
  BY <1>1, <1>2 DEF CallTypes, Unsubscribe, Abort, Overflow
<1>4. CASE UnsubscribeBody(h) /\ pc[h] \in {"active", "detached"}
  BY <1>3, <1>4, UnsubscribeBodyStep
<1>5. CASE Abort(h) /\ ~ (pc[h] = "active" /\ AppMayCall(pat[h]))
  <2>1. UNCHANGED <<domain, env, phase, session, reg, nextId, out, req, entries, pc,
                    patternsBySubId, pending, pat, waitsFor, held, ended, since, restore,
                    tail, bulk, skippedRestore>>
    BY <1>5 DEF Abort, Still, Same, notice, broker
  <2>2. CallTypes'
    BY <1>1, <1>3, <2>1 DEF CallTypes
  <2>3. /\ SessionTypes' /\ MapTypes' /\ ReqTypes' /\ RestoreTypes' /\ TailTypes'
        /\ HandlerPart' /\ EntryPart' /\ RequestPart' /\ PhasePart' /\ TodoPart'
        /\ FramePart' /\ MapPart' /\ TailPart' /\ NothingStranded'
    BY <2>1, Kept
  <2> QED
    BY <2>2, <2>3 DEF BookInv
<1> QED
  BY <1>2, <1>4, <1>5 DEF Unsubscribe, Abort, Overflow

-------------------------------------------------------------------------------
(* Continuations of unsubscribe(), subscribe() and the shared registration *)

\* The requests of a step that takes up the answer to one of them.
LEMMA AnswerTaken ==
    ASSUME BookInv, NEW o \in Owners, Answered(o), req' = [req EXCEPT ![o] = Idle],
           UNCHANGED out, ~ restore'.rolling => ~ restore.rolling
    PROVE  /\ ReqTypes' /\ FramePart' /\ req'[o].st = "none"
           /\ \A k \in Owners : k # o => req'[k] = req[k]
<1>1. ReqTypes /\ FramePart
  BY DEF BookInv
<1>2. /\ req'[o].st = "none" /\ Idle \in [st : Stages, id : Ids \cup {NoId}]
      /\ \A k \in Owners : k # o => req'[k] = req[k]
  BY <1>1 DEF ReqTypes, Idle, Stages
<1>3. ReqTypes'
  BY <1>1, <1>2 DEF ReqTypes
<1>4. \A i \in DOMAIN out : out[i] \in Frame
  BY <1>1 DEF ReqTypes
<1>5. \A i \in DOMAIN out : out[i].op # Nobody => req'[out[i].op] = req[out[i].op]
  BY <1>1, <1>2, <1>4 DEF FramePart, Frame, Answered
<1>6. FramePart'
  BY <1>1, <1>5 DEF FramePart
<1> QED
  BY <1>2, <1>3, <1>6

\* The settling of an UNSUBSCRIBE keeps the invariant: the entry goes only with
\* the subId that maps to it, and never under a restore.
LEMMA UnsubscribeSettlesStep ==
    ASSUME BookInv, NEW h \in Handlers, UnsubscribeSettles(h), Still, Same
    PROVE  BookInv'
<1> DEFINE p == pat[h]
           id == held[h]
<1>0. UNCHANGED <<domain, env, phase, session, reg, nextId, out, pat, aborted, ended, since,
                  restore, tail, bulk, skippedRestore>>
  BY DEF UnsubscribeSettles, Still, Same, notice, broker, calls
<1>1. /\ CallTypes /\ MapTypes /\ HandlerPart /\ RequestPart /\ PhasePart /\ TailPart
      /\ EntryPart /\ TodoPart /\ MapPart /\ NothingStranded /\ TailTypes
  BY DEF BookInv
<1>2. p \in Patterns /\ id \in Ids /\ h \in Owners /\ pc[h] = "unsubscribing" /\ Answered(h)
  BY <1>1, OwnersApart DEF UnsubscribeSettles, HandlerPart
<1>3. /\ pc' \in [Handlers -> PcValues] /\ pc'[h] \in {"done", "detached"}
      /\ \A k \in Handlers : k # h =>
            pc'[k] = pc[k] \/ (pc[k] = "awaiting" /\ pc'[k] = "resuming")
  BY <1>1, <1>2 DEF UnsubscribeSettles, CallTypes, PcValues
<1>4. /\ waitsFor' \in [Handlers -> Handlers \cup {Nobody}]
      /\ held' \in [Handlers -> Ids \cup {NoId}]
      /\ \A k \in Handlers : k # h => held'[k] = held[k]
  BY <1>1 DEF UnsubscribeSettles, CallTypes
<1>5. /\ ReqTypes' /\ FramePart' /\ req'[h].st = "none"
      /\ \A k \in Owners : k # h => req'[k] = req[k]
  BY <1>0, <1>2, AnswerTaken DEF UnsubscribeSettles
<1>6. SessionTypes' /\ RestoreTypes' /\ TailTypes'
  BY <1>0, Kept
<1>7. CallTypes'
  BY <1>0, <1>1, <1>3, <1>4 DEF CallTypes
<1>8. HandlerPart'
  <2>1. \A k \in Handlers : pc[k] = "registering" => pat[k] \in Patterns /\ pat[k] # h
    BY <1>1, OwnersApart DEF HandlerPart
  <2> QED
    BY <1>0, <1>1, <1>2, <1>3, <1>4, <1>5, <2>1, OwnersApart DEF HandlerPart
<1>9. RequestPart'
  BY <1>0, <1>1, <1>2, <1>5, OwnersApart DEF RequestPart
<1>10. PhasePart'
  BY <1>0, <1>1, <1>5 DEF PhasePart
<1>11. TailPart'
  BY <1>0, <1>1, <1>2, <1>3 DEF TailPart
<1>12. \A k \in Handlers : pc[k] # "idle" => pc'[k] # "idle"
  BY <1>3
<1>13. \/ UNCHANGED <<entries, patternsBySubId, pending>>
       \/ /\ UNCHANGED <<patternsBySubId, pending>> /\ entries[p] # Nobody
          /\ \E x \in Entry : /\ entries' = [entries EXCEPT ![p] = x]
                              /\ x.id = entries[p].id
                              /\ x.handlers \subseteq entries[p].handlers
       \/ /\ entries[p] # Nobody /\ entries[p].id = id /\ req[h].st = "ok"
          /\ entries' = [entries EXCEPT ![p] = Nobody]
          /\ patternsBySubId' = [patternsBySubId EXCEPT ![id] = Nobody]
          /\ pending' = pending \ {id}
  <2>1. CASE req[h].st = "ok" /\ IsCurrentEmptyState(p, id, h)
    BY <2>1 DEF UnsubscribeSettles, IsCurrentEmptyState
  <2>2. CASE /\ ~ (req[h].st = "ok" /\ IsCurrentEmptyState(p, id, h))
             /\ entries[p] # Nobody /\ entries[p].id = id
    <3>1. entries[p] \in Entry
      BY <1>1, <1>2, <2>2 DEF MapTypes
    <3> DEFINE ok == req[h].st = "ok"
               e == entries[p]
               y == [e EXCEPT !.unsub = IF @ = h THEN Nobody ELSE @]
               x == [y EXCEPT !.handlers = IF ok THEN @ \ {h} ELSE @]
    <3>2. y \in Entry /\ y.id = e.id /\ y.handlers = e.handlers
      BY <3>1 DEF Entry
    <3>3. x \in Entry /\ x.id = e.id /\ x.handlers \subseteq e.handlers
      <4> HIDE DEF y
      <4> QED
        BY <3>2 DEF Entry
    <3>4. entries' = [entries EXCEPT ![p] = x]
      <4>1. entries' = [entries EXCEPT ![p].unsub = IF @ = h THEN Nobody ELSE @,
                                       ![p].handlers = IF ok THEN @ \ {h} ELSE @]
        BY <2>2 DEF UnsubscribeSettles
      <4> QED
        BY <1>1, <1>2, <4>1 DEF MapTypes
    <3> QED
      BY <2>2, <3>3, <3>4 DEF UnsubscribeSettles
  <2>3. CASE ~ (entries[p] # Nobody /\ entries[p].id = id)
    BY <2>3 DEF UnsubscribeSettles, IsCurrentEmptyState
  <2> QED
    BY <2>1, <2>2, <2>3
<1> HIDE DEF p, id
<1>14. MapTypes' /\ EntryPart' /\ TodoPart' /\ MapPart' /\ NothingStranded'
  <2>1. CASE UNCHANGED <<entries, patternsBySubId, pending>>
    <3>1. MapTypes' /\ TodoPart' /\ MapPart' /\ NothingStranded'
      BY <1>0, <2>1, Kept
    <3>2. EntryPart'
      BY <1>0, <1>12, <2>1 DEF BookInv, EntryPart, MapTypes, RestoreTypes, Entry
    <3> QED
      BY <3>1, <3>2
  <2>2. CASE /\ UNCHANGED <<patternsBySubId, pending>> /\ entries[p] # Nobody
             /\ \E x \in Entry : /\ entries' = [entries EXCEPT ![p] = x]
                                 /\ x.id = entries[p].id
                                 /\ x.handlers \subseteq entries[p].handlers
    BY <1>0, <1>2, <1>12, <2>2, EntryReplaced
  <2>3. CASE /\ entries[p] # Nobody /\ entries[p].id = id /\ req[h].st = "ok"
             /\ entries' = [entries EXCEPT ![p] = Nobody]
             /\ patternsBySubId' = [patternsBySubId EXCEPT ![id] = Nobody]
             /\ pending' = pending \ {id}
    <3>1. /\ entries'[p] = Nobody /\ \A q \in Patterns : q # p => entries'[q] = entries[q]
          /\ patternsBySubId'[id] = Nobody
          /\ \A i \in Ids : i # id => patternsBySubId'[i] = patternsBySubId[i]
      BY <1>1, <1>2, <2>3 DEF MapTypes
    <3>2. MapTypes'
      BY <1>1, <2>3 DEF MapTypes
    <3>3. EntryPart'
      <4>1. /\ \A q \in Patterns : entries[q] # Nobody => entries[q].handlers \subseteq Handlers
            /\ \A q \in Patterns : restore.done[q] # Nobody
                                     => restore.done[q].handlers \subseteq Handlers
        BY DEF BookInv, MapTypes, RestoreTypes, Entry
      <4> QED
        BY <1>0, <1>1, <1>12, <3>1, <4>1 DEF EntryPart
    <3>4. phase # "restoring"
      BY <1>1, <1>2, <2>3, OwnersApart DEF PhasePart
    <3>5. TodoPart'
      BY <1>0, <3>4 DEF TodoPart
    <3>6. MapPart'
      BY <1>0, <1>1, <2>3, <3>1 DEF MapPart, MapTypes
    <3>7. NothingStranded'
      BY <1>1, <2>3, <3>1 DEF NothingStranded, Resolves, MapTypes
    <3> QED
      BY <3>2, <3>3, <3>5, <3>6, <3>7
  <2> QED
    BY <1>13, <2>1, <2>2, <2>3
<1> QED
  BY <1>5, <1>6, <1>7, <1>8, <1>9, <1>10, <1>11, <1>14 DEF BookInv

\* The calls and the entries of a step by which a subscribe() goes on.
LEMMA CallPlaced ==
    ASSUME BookInv, NEW h \in Handlers, NEW p \in Patterns, NEW v \in PcValues,
           v # "idle", pc[h] # "queued", pc[h] # "idle" => pat[h] = p,
           pc' = [pc EXCEPT ![h] = v], pat' = [pat EXCEPT ![h] = p],
           UNCHANGED <<tail, bulk>>
    PROVE  /\ TailPart' /\ pc' \in [Handlers -> PcValues] /\ pc'[h] = v
           /\ pat' \in [Handlers -> Patterns \cup {Nobody}] /\ pat'[h] = p
           /\ \A k \in Handlers : k # h => pc'[k] = pc[k] /\ pat'[k] = pat[k]
           /\ \A k \in Handlers : pc[k] # "idle" => pc'[k] # "idle" /\ pat'[k] = pat[k]
<1>1. CallTypes
  BY DEF BookInv
<1>2. /\ TailPart' /\ pc' \in [Handlers -> PcValues] /\ pc'[h] = v
      /\ \A k \in Handlers : k # h => pc'[k] = pc[k]
      /\ \A k \in Handlers : pc[k] # "idle" => pc'[k] # "idle"
  BY CallMoved
<1>3. /\ pat' \in [Handlers -> Patterns \cup {Nobody}] /\ pat'[h] = p
      /\ \A k \in Handlers : k # h => pat'[k] = pat[k]
  BY <1>1 DEF CallTypes
<1> QED
  BY <1>2, <1>3

\* The entries of a step that leaves them alone while calls go on.
LEMMA EntriesUntouched ==
    ASSUME BookInv, UNCHANGED <<entries, restore>>,
           \A k \in Handlers : pc[k] # "idle" => pc'[k] # "idle" /\ pat'[k] = pat[k]
    PROVE  EntryPart'
BY DEF BookInv, EntryPart, MapTypes, RestoreTypes, Entry

\* A subscribe() that awaits an UNSUBSCRIBE keeps the invariant.
LEMMA AwaitPendingUnsubscribeStep ==
    ASSUME BookInv, NEW h \in Handlers, NEW p \in Patterns, pc[h] \in {"idle", "resuming"},
           pc[h] # "idle" => pat[h] = p, entries[p] # Nobody, entries[p].unsub # Nobody,
           AwaitPendingUnsubscribe(h, p), Still, Same
    PROVE  BookInv'
<1>0. UNCHANGED <<domain, env, phase, session, reg, nextId, out, req, entries, patternsBySubId,
                  pending, aborted, ended, since, held, restore, tail, bulk, skippedRestore>>
  BY DEF AwaitPendingUnsubscribe, Still, Same, notice, broker
<1>1. CallTypes /\ MapTypes /\ HandlerPart
  BY DEF BookInv
<1>2. /\ pc' = [pc EXCEPT ![h] = "awaiting"] /\ pat' = [pat EXCEPT ![h] = p]
      /\ waitsFor' = [waitsFor EXCEPT ![h] = entries[p].unsub]
      /\ entries[p].unsub \in Handlers
  BY <1>1 DEF AwaitPendingUnsubscribe, MapTypes, Entry
<1>3. /\ TailPart' /\ pc' \in [Handlers -> PcValues] /\ pc'[h] = "awaiting"
      /\ pat' \in [Handlers -> Patterns \cup {Nobody}] /\ pat'[h] = p
      /\ \A k \in Handlers : k # h => pc'[k] = pc[k] /\ pat'[k] = pat[k]
      /\ \A k \in Handlers : pc[k] # "idle" => pc'[k] # "idle" /\ pat'[k] = pat[k]
  BY <1>0, <1>2, CallPlaced DEF PcValues
<1>4. CallTypes'
  BY <1>0, <1>1, <1>2, <1>3 DEF CallTypes
<1>5. HandlerPart'
  BY <1>0, <1>1, <1>3 DEF HandlerPart
<1>6. EntryPart'
  BY <1>0, <1>3, EntriesUntouched
<1>7. /\ SessionTypes' /\ MapTypes' /\ ReqTypes' /\ RestoreTypes' /\ TailTypes'
      /\ RequestPart' /\ PhasePart' /\ TodoPart' /\ FramePart' /\ MapPart' /\ NothingStranded'
  BY <1>0, Kept
<1> QED
  BY <1>3, <1>4, <1>5, <1>6, <1>7 DEF BookInv

\* A subscribe() that sends or shares a SUBSCRIBE keeps the invariant.
LEMMA RegisterSingleFlightStep ==
    ASSUME BookInv, NEW h \in Handlers, NEW p \in Patterns, pc[h] \in {"idle", "resuming"},
           pc[h] # "idle" => pat[h] = p, RegisterSingleFlight(h, p), Still, Same
    PROVE  BookInv'
<1>0. UNCHANGED <<domain, env, phase, session, reg, nextId, entries, patternsBySubId,
                  pending, aborted, ended, since, waitsFor, held, restore, tail, bulk,
                  skippedRestore>>
  BY DEF RegisterSingleFlight, Still, Same, notice, broker
<1>1. CallTypes /\ HandlerPart /\ ReqTypes /\ RequestPart /\ PhasePart
  BY DEF BookInv
<1>2. /\ pc' = [pc EXCEPT ![h] = "registering"] /\ pat' = [pat EXCEPT ![h] = p]
      /\ IF req[p].st # "none" THEN UNCHANGED <<req, out>>
         ELSE Request(p, "subscribe", p, NoId)
  BY DEF RegisterSingleFlight
<1>3. /\ TailPart' /\ pc' \in [Handlers -> PcValues] /\ pc'[h] = "registering"
      /\ pat' \in [Handlers -> Patterns \cup {Nobody}] /\ pat'[h] = p
      /\ \A k \in Handlers : k # h => pc'[k] = pc[k] /\ pat'[k] = pat[k]
      /\ \A k \in Handlers : pc[k] # "idle" => pc'[k] # "idle" /\ pat'[k] = pat[k]
  BY <1>0, <1>2, CallPlaced DEF PcValues
<1>4. CallTypes'
  BY <1>0, <1>1, <1>3 DEF CallTypes
<1>5. EntryPart'
  BY <1>0, <1>3, EntriesUntouched
<1>6. /\ SessionTypes' /\ MapTypes' /\ RestoreTypes' /\ TailTypes' /\ TodoPart' /\ MapPart'
      /\ NothingStranded'
  BY <1>0, Kept
<1>7. p \in Owners /\ p # Restorer /\ p \notin Handlers /\ p \notin Bulks
  BY OwnersApart
<1>8. CASE req[p].st # "none"
  <2>1. UNCHANGED <<req, out>>
    BY <1>2, <1>8
  <2>2. ReqTypes' /\ RequestPart' /\ PhasePart' /\ FramePart'
    BY <1>0, <2>1, Kept
  <2>3. HandlerPart'
    BY <1>0, <1>1, <1>3, <1>8, <2>1 DEF HandlerPart
  <2> QED
    BY <1>3, <1>4, <1>5, <1>6, <2>2, <2>3 DEF BookInv
<1>9. CASE req[p].st = "none"
  <2>1. Request(p, "subscribe", p, NoId)
    BY <1>2, <1>9
  <2>2. /\ ReqTypes' /\ FramePart'
        /\ req' = [req EXCEPT ![p] = [st |-> IF MaySend(p) THEN "sent" ELSE "waiting",
                                      id |-> NoId]]
        /\ phase = "lost" => out' = out
    BY <1>0, <1>7, <1>9, <2>1, RequestSent
  <2>3. /\ req'[p].st \in {"sent", "waiting"}
        /\ \A k \in Owners : k # p => req'[k] = req[k]
    BY <1>1, <1>7, <2>2 DEF ReqTypes
  <2>4. PhasePart'
    <3>1. phase = "restoring" => \A b \in Bulks : bulk'[b] # "requesting"
      BY <1>0, <1>1 DEF PhasePart
    <3> QED
      BY <1>0, <1>7, <2>2, <3>1, RequestPhase
  <2>5. RequestPart'
    BY <1>0, <1>1, <1>7, <2>3, OwnersApart DEF RequestPart
  <2>6. HandlerPart'
    <3>1. \A k \in Handlers : k \in Owners /\ k # p
      BY <1>7, OwnersApart
    <3>2. \A k \in Handlers : pc[k] = "registering" => pat[k] \in Owners
      BY <1>1, OwnersApart DEF HandlerPart
    <3> QED
      BY <1>0, <1>1, <1>3, <2>3, <3>1, <3>2 DEF HandlerPart
  <2> QED
    BY <1>3, <1>4, <1>5, <1>6, <2>2, <2>4, <2>5, <2>6 DEF BookInv
<1> QED
  BY <1>8, <1>9

\* addLocalSubscription() keeps the invariant: a new entry comes with the only
\* mapping to its pattern, and what was buffered under its subId is flushed.
LEMMA AddLocalSubscriptionStep ==
    ASSUME BookInv, NEW h \in Handlers, NEW p \in Patterns, NEW id \in Ids \cup {NoId},
           pc[h] \in {"idle", "resuming", "adding"}, pc[h] # "idle" => pat[h] = p,
           entries[p] = Nobody => id \in Ids,
           AddLocalSubscription(h, p, id), Still, Same
    PROVE  BookInv'
<1>0. UNCHANGED <<domain, env, phase, session, reg, nextId, aborted, ended, waitsFor,
                  restore, tail, bulk, skippedRestore>>
  BY DEF AddLocalSubscription, Still, Same, notice, broker
<1>1. /\ CallTypes /\ MapTypes /\ HandlerPart /\ ReqTypes /\ RequestPart /\ PhasePart
      /\ EntryPart /\ TodoPart /\ MapPart /\ NothingStranded /\ SessionTypes /\ RestoreTypes
  BY DEF BookInv
<1> DEFINE e == IF entries[p] # Nobody THEN entries[p]
                ELSE [id |-> id, handlers |-> {}, unsub |-> Nobody]
           last == domain \notin {"notice", "lease"} /\ h \in aborted /\ e.handlers = {}
           x == [e EXCEPT !.handlers = @ \cup {h}, !.unsub = IF last THEN h ELSE @]
           v == IF last THEN "unsubscribing" ELSE IF h \in aborted THEN "done" ELSE "active"
<1>2. e \in Entry
  BY <1>1 DEF MapTypes, Entry
<1>3. /\ entries' = [entries EXCEPT ![p] = x]
      /\ patternsBySubId' = IF entries[p] # Nobody THEN patternsBySubId
                            ELSE [patternsBySubId EXCEPT ![id] = p]
      /\ pending' = Flushed(id, entries', patternsBySubId')
      /\ pat' = [pat EXCEPT ![h] = p] /\ since' = [since EXCEPT ![h] = session]
      /\ pc' = [pc EXCEPT ![h] = v]
      /\ IF last THEN held' = [held EXCEPT ![h] = e.id] /\ Request(h, "unsubscribe", p, NoId)
         ELSE UNCHANGED <<held, req, out>>
  BY DEF AddLocalSubscription
<1>4. x \in Entry /\ x.id = e.id /\ x.handlers = e.handlers \cup {h}
  BY <1>2 DEF Entry
<1>5. v \in PcValues /\ v # "idle" /\ (last <=> v = "unsubscribing") /\ v # "adding"
      /\ v # "registering"
  BY DEF PcValues
<1>6. /\ entries[p] # Nobody => e = entries[p]
      /\ entries[p] = Nobody => e.id = id /\ e.handlers = {}
      /\ e.id \in Ids /\ e.handlers \subseteq Handlers
  BY <1>2 DEF Entry
<1> HIDE DEF e, last, x, v
<1>7. /\ TailPart' /\ pc' \in [Handlers -> PcValues] /\ pc'[h] = v
      /\ pat' \in [Handlers -> Patterns \cup {Nobody}] /\ pat'[h] = p
      /\ \A k \in Handlers : k # h => pc'[k] = pc[k] /\ pat'[k] = pat[k]
      /\ \A k \in Handlers : pc[k] # "idle" => pc'[k] # "idle" /\ pat'[k] = pat[k]
  BY <1>0, <1>3, <1>5, CallPlaced
<1>8. /\ entries'[p] = x /\ x # Nobody
      /\ \A q \in Patterns : q # p => entries'[q] = entries[q]
      /\ \A q \in Patterns : entries[q] # Nobody => entries'[q] # Nobody
  BY <1>1, <1>3, <1>4, EntryExists DEF MapTypes
<1>9. \/ entries[p] # Nobody /\ patternsBySubId' = patternsBySubId
      \/ /\ entries[p] = Nobody /\ id \in Ids /\ patternsBySubId'[id] = p
         /\ \A i \in Ids : i # id => patternsBySubId'[i] = patternsBySubId[i]
  BY <1>1, <1>3 DEF MapTypes
<1>10. /\ pending' \subseteq pending
       /\ patternsBySubId' \in [Ids -> Patterns \cup {Nobody}]
       /\ Resolves(id, entries', patternsBySubId') => id \notin pending'
  BY <1>1, <1>3 DEF Flushed, MapTypes
<1>11. MapTypes'
  BY <1>1, <1>3, <1>4, <1>10 DEF MapTypes
<1>12. EntryPart'
  <2> SUFFICES ASSUME NEW q \in Patterns
               PROVE  /\ entries'[q] # Nobody =>
                           \A k \in entries'[q].handlers : pat'[k] = q /\ pc'[k] # "idle"
                      /\ restore'.done[q] # Nobody =>
                           \A k \in restore'.done[q].handlers : pat'[k] = q /\ pc'[k] # "idle"
    BY DEF EntryPart
  <2>1. /\ entries[q] # Nobody =>
             \A k \in entries[q].handlers : k \in Handlers /\ pat'[k] = q /\ pc'[k] # "idle"
        /\ restore.done[q] # Nobody =>
             \A k \in restore.done[q].handlers :
                 k \in Handlers /\ pat'[k] = q /\ pc'[k] # "idle"
    <3>1. /\ entries[q] # Nobody => entries[q].handlers \subseteq Handlers
          /\ restore.done[q] # Nobody => restore.done[q].handlers \subseteq Handlers
      BY <1>1 DEF MapTypes, RestoreTypes, Entry
    <3> QED
      BY <1>1, <1>7, <3>1 DEF EntryPart
  <2>2. CASE q # p
    BY <1>0, <1>8, <2>1, <2>2
  <2>3. CASE q = p
    BY <1>0, <1>4, <1>5, <1>6, <1>7, <1>8, <2>1, <2>3
  <2> QED
    BY <2>2, <2>3
<1>13. TodoPart'
  BY <1>0, <1>1, <1>8 DEF TodoPart, RestoreTypes
<1>14. MapPart'
  <2>1. domain \in {"kv", "lease"} => pending' = {}
    BY <1>1, <1>10 DEF MapPart
  <2>2. ASSUME domain \notin {"kv", "lease"}, NEW i \in Ids, patternsBySubId'[i] # Nobody
        PROVE  /\ entries'[patternsBySubId'[i]] # Nobody
               /\ entries'[patternsBySubId'[i]].id = i
    <3>1. patternsBySubId[i] # Nobody =>
            /\ patternsBySubId[i] \in Patterns
            /\ entries[patternsBySubId[i]] # Nobody /\ entries[patternsBySubId[i]].id = i
      BY <1>1, <2>2 DEF MapPart, MapTypes
    <3> QED
      BY <1>4, <1>6, <1>8, <1>9, <2>2, <3>1
  <2> QED
    BY <1>0, <2>1, <2>2 DEF MapPart
<1>15. NothingStranded'
  <2> SUFFICES ASSUME NEW i \in pending' PROVE ~ Resolves(i, entries', patternsBySubId')
    BY DEF NothingStranded
  <2>1. i \in pending /\ i \in Ids /\ ~ Resolves(i, entries, patternsBySubId)
    BY <1>1, <1>10 DEF NothingStranded, MapTypes
  <2>2. domain \notin {"kv", "lease"}
    BY <1>1, <2>1 DEF MapPart
  <2>3. patternsBySubId[i] # Nobody => entries[patternsBySubId[i]] # Nobody
    BY <1>1, <2>1, <2>2 DEF MapPart
  <2>4. patternsBySubId[i] = Nobody
    BY <2>1, <2>3 DEF Resolves
  <2>5. CASE i = id
    BY <1>10, <2>5
  <2>6. CASE i # id
    <3>1. patternsBySubId'[i] = Nobody
      BY <1>9, <2>1, <2>4, <2>6
    <3> QED
      BY <3>1 DEF Resolves
  <2> QED
    BY <2>5, <2>6
<1>16. SessionTypes' /\ RestoreTypes' /\ TailTypes'
  BY <1>0, Kept
<1>17. since' \in [Handlers -> 0 .. MaxSessions]
  BY <1>1, <1>3, Bounds DEF CallTypes, SessionTypes
<1>18. h \in Owners \ {Restorer} /\ h \notin Patterns /\ h \notin Bulks
  BY OwnersApart
<1>19. req[h].st = "none"
  BY <1>1 DEF HandlerPart
<1>20. \A k \in Handlers : pc[k] = "registering" => pat[k] \in Patterns /\ pat[k] # h
  BY <1>1, <1>18 DEF HandlerPart
<1>21. CASE ~ last
  <2>1. UNCHANGED <<held, req, out>>
    BY <1>3, <1>21
  <2>2. ReqTypes' /\ RequestPart' /\ PhasePart' /\ FramePart'
    BY <1>0, <2>1, Kept
  <2>3. CallTypes'
    BY <1>0, <1>1, <1>7, <1>17, <2>1 DEF CallTypes
  <2>4. HandlerPart'
    BY <1>1, <1>5, <1>7, <1>19, <1>21, <2>1 DEF HandlerPart
  <2> QED
    BY <1>7, <1>11, <1>12, <1>13, <1>14, <1>15, <1>16, <2>2, <2>3, <2>4 DEF BookInv
<1>22. CASE last
  <2>1. held' = [held EXCEPT ![h] = e.id] /\ Request(h, "unsubscribe", p, NoId)
    BY <1>3, <1>22
  <2>2. /\ ReqTypes' /\ FramePart'
        /\ req' = [req EXCEPT ![h] = [st |-> IF MaySend(h) THEN "sent" ELSE "waiting",
                                      id |-> NoId]]
        /\ phase = "lost" => out' = out
    BY <1>0, <1>18, <1>19, <2>1, RequestSent
  <2>3. req'[h].st # "none" /\ \A k \in Owners : k # h => req'[k] = req[k]
    BY <1>1, <1>18, <2>2 DEF ReqTypes
  <2>4. PhasePart'
    <3>1. phase = "restoring" => \A b \in Bulks : bulk'[b] # "requesting"
      BY <1>0, <1>1 DEF PhasePart
    <3> QED
      BY <1>0, <1>18, <2>2, <3>1, RequestPhase
  <2>5. RequestPart'
    BY <1>0, <1>1, <1>18, <2>3, OwnersApart DEF RequestPart
  <2>6. held' \in [Handlers -> Ids \cup {NoId}] /\ held'[h] \in Ids
        /\ \A k \in Handlers : k # h => held'[k] = held[k]
    BY <1>1, <1>6, <2>1 DEF CallTypes
  <2>7. CallTypes'
    BY <1>0, <1>1, <1>7, <1>17, <2>6 DEF CallTypes
  <2>8. HandlerPart'
    <3>1. pc'[h] = "unsubscribing"
      BY <1>5, <1>7, <1>22
    <3>2. \A k \in Handlers : k # h => req'[k] = req[k]
      BY <2>3, OwnersApart
    <3>3. \A k \in Handlers : pc[k] = "registering" => req'[pat[k]] = req[pat[k]]
      BY <1>20, <2>3, OwnersApart
    <3> QED
      BY <1>1, <1>7, <2>3, <2>6, <3>1, <3>2, <3>3 DEF HandlerPart
  <2> QED
    BY <1>7, <1>11, <1>12, <1>13, <1>14, <1>15, <1>16, <2>2, <2>4, <2>5, <2>7, <2>8
       DEF BookInv
<1> QED
  BY <1>21, <1>22

\* A round of subscribe()'s loop keeps the invariant.
LEMMA LookUpStep ==
    ASSUME BookInv, NEW h \in Handlers, NEW p \in Patterns, pc[h] \in {"idle", "resuming"},
           pc[h] # "idle" => pat[h] = p, LookUp(h, p), Still, Same
    PROVE  BookInv'
<1>1. CASE entries[p] # Nobody /\ entries[p].unsub # Nobody /\ AwaitPendingUnsubscribe(h, p)
  BY <1>1, AwaitPendingUnsubscribeStep
<1>2. CASE entries[p] # Nobody /\ AddLocalSubscription(h, p, entries[p].id)
  <2>1. entries[p].id \in Ids
    BY <1>2 DEF BookInv, MapTypes, Entry
  <2> QED
    BY <1>2, <2>1, AddLocalSubscriptionStep
<1>3. CASE RegisterSingleFlight(h, p)
  BY <1>3, RegisterSingleFlightStep
<1> QED
  BY <1>1, <1>2, <1>3 DEF LookUp

\* The settling of a shared registration keeps the invariant: it gives its callers
\* the subId it brought, and the kv client an entry for it.
LEMMA FlightSettlesStep ==
    ASSUME BookInv, NEW p \in Patterns, FlightSettles(p), Still, Same
    PROVE  BookInv'
<1>0. UNCHANGED <<domain, env, phase, session, reg, nextId, out, pending, pat, aborted,
                  ended, since, waitsFor, restore, tail, bulk, skippedRestore>>
  BY DEF FlightSettles, Still, Same, notice, broker, calls
<1>1. /\ CallTypes /\ MapTypes /\ HandlerPart /\ RequestPart /\ PhasePart /\ TailPart
      /\ EntryPart /\ TodoPart /\ MapPart /\ NothingStranded /\ ReqTypes /\ RestoreTypes
  BY DEF BookInv
<1>2. p \in Owners /\ p # Restorer /\ p \notin Handlers /\ p \notin Bulks /\ Answered(p)
  BY OwnersApart DEF FlightSettles
<1>3. /\ pc' \in [Handlers -> PcValues]
      /\ \A k \in Handlers :
            IF pc[k] = "registering" /\ pat[k] = p
            THEN \/ pc'[k] = "adding" /\ held'[k] = req[p].id /\ req[p].st = "ok"
                 \/ pc'[k] = "rejected" /\ held'[k] = held[k]
            ELSE pc'[k] = pc[k] /\ held'[k] = held[k]
  BY <1>1 DEF FlightSettles, CallTypes, PcValues
<1>4. held' \in [Handlers -> Ids \cup {NoId}]
  <2>1. req[p].id \in Ids \cup {NoId}
    BY <1>1, <1>2 DEF ReqTypes
  <2> QED
    BY <1>1, <2>1 DEF FlightSettles, CallTypes
<1>5. /\ ReqTypes' /\ FramePart' /\ req'[p].st = "none"
      /\ \A k \in Owners : k # p => req'[k] = req[k]
  BY <1>0, <1>2, AnswerTaken DEF FlightSettles
<1>6. SessionTypes' /\ RestoreTypes' /\ TailTypes'
  BY <1>0, Kept
<1>7. CallTypes'
  BY <1>0, <1>1, <1>3, <1>4 DEF CallTypes
<1>8. HandlerPart'
  <2>1. \A k \in Handlers : k \in Owners /\ k # p
    BY <1>2, OwnersApart
  <2>2. \A k \in Handlers : pc[k] = "registering" => pat[k] \in Owners
    BY <1>1, OwnersApart DEF HandlerPart
  <2> QED
    BY <1>0, <1>1, <1>3, <1>5, <2>1, <2>2 DEF HandlerPart, RequestPart
<1>9. RequestPart'
  BY <1>0, <1>1, <1>2, <1>5, OwnersApart DEF RequestPart
<1>10. PhasePart'
  BY <1>0, <1>1, <1>5 DEF PhasePart
<1>11. TailPart'
  BY <1>0, <1>1, <1>3 DEF TailPart
<1>12. \A k \in Handlers : pc[k] # "idle" => pc'[k] # "idle" /\ pat'[k] = pat[k]
  BY <1>0, <1>3
<1>13. MapTypes' /\ EntryPart' /\ TodoPart' /\ MapPart' /\ NothingStranded'
  <2>1. CASE UNCHANGED <<entries, patternsBySubId>>
    <3>1. MapTypes' /\ TodoPart' /\ MapPart' /\ NothingStranded'
      BY <1>0, <2>1, Kept
    <3>2. EntryPart'
      BY <1>0, <1>12, <2>1, EntriesUntouched
    <3> QED
      BY <3>1, <3>2
  <2>2. CASE domain = "kv" /\ req[p].st = "ok" /\ KvRegisters(p)
    <3> DEFINE x == [id |-> req[p].id, handlers |-> {}, unsub |-> Nobody]
    <3>1. req[p].id \in Ids
      BY <1>1, <2>2 DEF RequestPart
    <3>2. x \in Entry /\ x.handlers = {}
      BY <3>1 DEF Entry
    <3>3. /\ entries' = [entries EXCEPT ![p] = x]
          /\ patternsBySubId' = [patternsBySubId EXCEPT ![req[p].id] = p]
      BY <2>2 DEF KvRegisters
    <3> HIDE DEF x
    <3>4. /\ entries'[p] = x /\ x # Nobody
          /\ \A q \in Patterns : q # p => entries'[q] = entries[q]
      BY <1>1, <3>2, <3>3, EntryExists DEF MapTypes
    <3>5. MapTypes'
      BY <1>0, <1>1, <3>1, <3>2, <3>3 DEF MapTypes
    <3>6. EntryPart'
      <4>1. /\ \A q \in Patterns : entries[q] # Nobody => entries[q].handlers \subseteq Handlers
            /\ \A q \in Patterns : restore.done[q] # Nobody
                                     => restore.done[q].handlers \subseteq Handlers
        BY <1>1 DEF MapTypes, RestoreTypes, Entry
      <4> QED
        BY <1>0, <1>1, <1>12, <3>2, <3>4, <4>1 DEF EntryPart
    <3>7. TodoPart'
      BY <1>0, <1>1, <3>4 DEF TodoPart, RestoreTypes
    <3>8. pending' = {} /\ domain' = "kv"
      BY <1>0, <1>1, <2>2 DEF MapPart
    <3> QED
      BY <3>5, <3>6, <3>7, <3>8 DEF MapPart, NothingStranded
  <2> QED
    BY <2>1, <2>2 DEF FlightSettles, KvRegisters
<1> QED
  BY <1>5, <1>6, <1>7, <1>8, <1>9, <1>10, <1>11, <1>13 DEF BookInv

\* Every continuation keeps the invariant.
LEMMA ContinueKeeps ==
    ASSUME BookInv, Continue, Still, Same
    PROVE  BookInv'
<1>1. CallTypes /\ HandlerPart
  BY DEF BookInv
<1>2. ASSUME NEW h \in Handlers, Resume(h) PROVE BookInv'
  <2>1. pc[h] = "resuming" /\ pat[h] \in Patterns
    BY <1>1, <1>2 DEF Resume, HandlerPart
  <2> QED
    BY <1>2, <2>1, LookUpStep DEF Resume
<1>3. ASSUME NEW h \in Handlers, AddRegistered(h) PROVE BookInv'
  <2>1. pc[h] = "adding" /\ pat[h] \in Patterns /\ held[h] \in Ids
    BY <1>1, <1>3 DEF AddRegistered, HandlerPart
  <2> QED
    BY <1>3, <2>1, AddLocalSubscriptionStep DEF AddRegistered
<1> QED
  BY <1>2, <1>3, UnsubscribeSettlesStep, FlightSettlesStep DEF Continue

-------------------------------------------------------------------------------
(* Requests and the broker's answers *)

\* The sending of a waiting request keeps the invariant.
LEMMA SendWaitingStep ==
    ASSUME BookInv, NEW o \in Owners \ {Restorer}, SendWaiting(o), Still, Same
    PROVE  BookInv'
<1>0. UNCHANGED <<domain, env, phase, session, reg, nextId, entries, patternsBySubId,
                  pending, pc, pat, waitsFor, held, aborted, ended, since, restore, tail,
                  bulk, skippedRestore>>
  BY DEF SendWaiting, Still, Same, notice, broker, calls
<1>1. CallTypes /\ HandlerPart /\ RequestPart /\ ReqTypes /\ PhasePart
  BY DEF BookInv
<1>2. phase = "ready" /\ req[o].st = "waiting"
  BY DEF SendWaiting
<1>3. /\ ReqTypes' /\ FramePart'
      /\ req' = [req EXCEPT ![o] = [st |-> IF MaySend(o) THEN "sent" ELSE "waiting",
                                    id |-> NoId]]
      /\ phase = "lost" => out' = out
  <2>1. CASE o \in Patterns
    <3>1. Request(o, "subscribe", o, NoId)
      BY <2>1 DEF SendWaiting
    <3> QED
      BY <1>0, <1>2, <2>1, <3>1, RequestSent
  <2>2. CASE o \in Handlers
    <3>1. pat[o] \in Patterns /\ held[o] \in Ids
      BY <1>1, <1>2, <2>2 DEF HandlerPart
    <3>2. PICK id \in Ids \cup {NoId} : Request(o, "unsubscribe", pat[o], id)
      BY <2>2, <3>1 DEF SendWaiting
    <3> QED
      BY <1>0, <1>2, <2>2, <3>1, <3>2, RequestSent, OwnersApart
  <2>3. CASE o \in Bulks
    <3>1. Request(o, "unsubscribeAll", Nobody, NoId)
      BY <2>3 DEF SendWaiting
    <3> QED
      BY <1>0, <1>2, <2>3, <3>1, RequestSent, OwnersApart
  <2> QED
    BY <2>1, <2>2, <2>3 DEF Owners
<1>4. req'[o].st = "sent" /\ \A k \in Owners : k # o => req'[k] = req[k]
  BY <1>1, <1>2, <1>3 DEF ReqTypes, MaySend
<1>5. PhasePart'
  BY <1>0, <1>2, <1>3, RequestPhase
<1>6. \A k \in Owners : req'[k].st # "none" <=> req[k].st # "none"
  BY <1>2, <1>4
<1>7. HandlerPart'
  <2>1. \A k \in Handlers : pc[k] = "registering" => pat[k] \in Owners
    BY <1>1, OwnersApart DEF HandlerPart
  <2> QED
    BY <1>0, <1>1, <1>6, <2>1, OwnersApart DEF HandlerPart
<1>8. RequestPart'
  BY <1>0, <1>1, <1>4, <1>6, OwnersApart DEF RequestPart
<1>9. /\ SessionTypes' /\ CallTypes' /\ MapTypes' /\ RestoreTypes' /\ TailTypes'
      /\ EntryPart' /\ TodoPart' /\ MapPart' /\ TailPart' /\ NothingStranded'
  BY <1>0, Kept
<1> QED
  BY <1>3, <1>5, <1>7, <1>8, <1>9 DEF BookInv

\* A request that times out keeps the invariant: its frame belongs to none.
LEMMA RequestTimesOutStep ==
    ASSUME BookInv, NEW o \in Owners, RequestTimesOut(o), Still, Same
    PROVE  BookInv'
<1>0. UNCHANGED <<domain, env, phase, session, reg, nextId, entries, patternsBySubId,
                  pending, pc, pat, waitsFor, held, aborted, ended, since, restore, tail,
                  bulk, skippedRestore>>
  BY DEF RequestTimesOut, Still, Same, notice, broker, calls
<1>1. HandlerPart /\ RequestPart /\ ReqTypes /\ PhasePart /\ FramePart
  BY DEF BookInv
<1>2. /\ req[o].st \in {"waiting", "sent"} /\ req'[o].st = "failed"
      /\ req' \in [Owners -> [st : Stages, id : Ids \cup {NoId}]]
      /\ \A k \in Owners : k # o => req'[k] = req[k]
  BY <1>1 DEF RequestTimesOut, ReqTypes, Stages
<1>3. PICK n \in Nat : n = Len(out)
  BY <1>1 DEF ReqTypes
<1>4. DOMAIN out = 1..n /\ \A i \in 1..n : out[i] \in Frame
  BY <1>1, <1>3 DEF ReqTypes
<1>5. /\ DOMAIN out' = 1..n
      /\ \A i \in 1..n : out'[i] = IF out[i].op = o THEN [out[i] EXCEPT !.op = Nobody]
                                   ELSE out[i]
      /\ out' = [i \in 1..n |-> IF out[i].op = o THEN [out[i] EXCEPT !.op = Nobody]
                                ELSE out[i]]
  BY <1>4 DEF RequestTimesOut, Disown
<1>6. \A i \in 1..n : /\ out'[i] \in Frame
                      /\ out'[i].kind = out[i].kind /\ out'[i].pat = out[i].pat
                      /\ out'[i].op = IF out[i].op = o THEN Nobody ELSE out[i].op
  <2> SUFFICES ASSUME NEW i \in 1..n
               PROVE  /\ out'[i] \in Frame
                      /\ out'[i].kind = out[i].kind /\ out'[i].pat = out[i].pat
                      /\ out'[i].op = IF out[i].op = o THEN Nobody ELSE out[i].op
    OBVIOUS
  <2>1. out[i] \in Frame
    BY <1>4
  <2>2. PICK f \in Frame : f = out[i]
    BY <2>1
  <2>3. out'[i] = IF f.op = o THEN [f EXCEPT !.op = Nobody] ELSE f
    BY <1>5, <2>2
  <2>4. [f EXCEPT !.op = Nobody] \in Frame
    BY DEF Frame
  <2> QED
    BY <2>2, <2>3, <2>4 DEF Frame
<1>7. ReqTypes'
  <2>1. out' \in [1..n -> Frame]
    BY <1>5, <1>6
  <2>2. out' \in Seq(Frame)
    BY <2>1, SeqDef
  <2> QED
    BY <1>2, <2>2 DEF ReqTypes
<1>8. FramePart'
  <2>1. \A i \in 1..n : out'[i].op # Nobody =>
          /\ out'[i].op = out[i].op /\ out[i].op # o
          /\ req'[out'[i].op] = req[out[i].op]
    BY <1>2, <1>4, <1>6 DEF Frame
  <2>2. Nobody \notin Patterns /\ Restorer # Nobody
    BY OwnersApart
  <2> QED
    BY <1>0, <1>1, <1>4, <1>5, <1>6, <2>1, <2>2 DEF FramePart
<1>9. PhasePart'
  <2>1. phase = "lost" => out' = <<>>
    <3>1. ASSUME phase = "lost" PROVE n = 0
      BY <1>1, <1>3, <3>1 DEF PhasePart
    <3> QED
      BY <1>5, <1>7, <3>1, EmptySeq DEF ReqTypes
  <2> QED
    BY <1>0, <1>1, <1>2, <2>1 DEF PhasePart
<1>10. \A k \in Owners : req'[k].st # "none" <=> req[k].st # "none"
  BY <1>2
<1>11. HandlerPart'
  <2>1. \A k \in Handlers : pc[k] = "registering" => pat[k] \in Owners
    BY <1>1, OwnersApart DEF HandlerPart
  <2> QED
    BY <1>0, <1>1, <1>10, <2>1, OwnersApart DEF HandlerPart
<1>12. RequestPart'
  BY <1>0, <1>1, <1>2, <1>10, OwnersApart DEF RequestPart
<1>13. /\ SessionTypes' /\ CallTypes' /\ MapTypes' /\ RestoreTypes' /\ TailTypes'
       /\ EntryPart' /\ TodoPart' /\ MapPart' /\ TailPart' /\ NothingStranded'
  BY <1>0, Kept
<1> QED
  BY <1>7, <1>8, <1>9, <1>11, <1>12, <1>13 DEF BookInv

\* An answer reaches the one request that waits for it, if any does.
LEMMA AnswerArrives ==
    ASSUME BookInv, out # <<>>, NEW st \in {"ok", "refused"}, NEW id \in Ids \cup {NoId},
           AnswerHead(st, id),
           st = "ok" /\ Head(out).kind = "subscribe" => id \in Ids,
           UNCHANGED notice, SessionTypes', Same
    PROVE  BookInv'
<1> DEFINE o == Head(out).op
<1>0. UNCHANGED <<domain, env, phase, session, entries, patternsBySubId, pending, pc, pat,
                  waitsFor, held, aborted, ended, since, restore, tail, bulk, skippedRestore>>
  BY DEF AnswerHead, Same, notice, calls
<1>1. HandlerPart /\ RequestPart /\ ReqTypes /\ PhasePart /\ FramePart /\ SessionTypes
  BY DEF BookInv
<1>2. PICK n \in Nat : n = Len(out)
  BY <1>1 DEF ReqTypes
<1>3. n > 0
  BY <1>1, <1>2, EmptySeq DEF ReqTypes
<1>4. /\ DOMAIN out = 1..n /\ \A i \in 1..n : out[i] \in Frame
      /\ Head(out) = out[1] /\ 1 \in 1..n
  BY <1>1, <1>2, <1>3 DEF ReqTypes
<1>5. /\ out' \in Seq(Frame) /\ DOMAIN out' = 1..(n - 1)
      /\ \A i \in 1..(n - 1) : i + 1 \in 1..n /\ out'[i] = out[i + 1]
  BY <1>1, <1>2, <1>3 DEF AnswerHead, ReqTypes
<1>6. o \in Owners \cup {Nobody}
  BY <1>4 DEF Frame
<1>7. /\ req' \in [Owners -> [st : Stages, id : Ids \cup {NoId}]]
      /\ \A k \in Owners : k # o => req'[k] = req[k]
      /\ o # Nobody => req'[o] = [st |-> st, id |-> id]
  <2>1. [st |-> st, id |-> id] \in [st : Stages, id : Ids \cup {NoId}]
    BY DEF Stages
  <2>2. req' = IF o = Nobody THEN req ELSE [req EXCEPT ![o] = [st |-> st, id |-> id]]
    BY DEF AnswerHead
  <2> QED
    BY <1>1, <1>6, <2>1, <2>2 DEF ReqTypes
<1>8. o # Nobody => /\ req[o].st = "sent" /\ req'[o].st = st /\ req'[o].id = id
                    /\ o \in Owners
                    /\ o \in Patterns => Head(out).kind = "subscribe"
                    /\ o = Restorer /\ ~ restore.rolling => Head(out).kind = "subscribe"
  BY <1>1, <1>4, <1>6, <1>7 DEF FramePart
<1> HIDE DEF o
<1>9. \A i \in 1..(n - 1) : out[i + 1].op # Nobody => out[i + 1].op # o
  <2> SUFFICES ASSUME NEW i \in 1..(n - 1), out[i + 1].op # Nobody, out[i + 1].op = o
               PROVE  FALSE
    OBVIOUS
  <2>1. i + 1 = 1
    BY <1>1, <1>4, <1>5 DEF FramePart, o
  <2> QED
    BY <2>1
<1>10. ReqTypes'
  BY <1>5, <1>7 DEF ReqTypes
<1>11. FramePart'
  <2>1. ASSUME NEW i \in 1..(n - 1)
        PROVE  /\ out'[i].kind # "unsubscribeAll" => out'[i].pat \in Patterns
               /\ out'[i].op # Nobody => req'[out'[i].op].st = "sent"
               /\ out'[i].op \in Patterns => out'[i].kind = "subscribe"
               /\ out'[i].op = Restorer /\ ~ restore.rolling => out'[i].kind = "subscribe"
    <3>1. i + 1 \in DOMAIN out /\ out'[i] = out[i + 1] /\ out[i + 1] \in Frame
      BY <1>4, <1>5
    <3>2. out'[i].op # Nobody => req'[out'[i].op] = req[out[i + 1].op]
      BY <1>7, <1>9, <3>1 DEF Frame
    <3> QED
      BY <1>1, <3>1, <3>2 DEF FramePart
  <2>2. ASSUME NEW i \in 1..(n - 1), NEW j \in 1..(n - 1),
               out'[i].op = out'[j].op, out'[i].op # Nobody
        PROVE  i = j
    <3>1. i + 1 = j + 1
      BY <1>1, <1>4, <1>5, <2>2 DEF FramePart
    <3> QED
      BY <3>1
  <2> QED
    BY <1>0, <1>5, <2>1, <2>2 DEF FramePart
<1>12. PhasePart'
  <2>1. phase # "lost"
    BY <1>1 DEF PhasePart
  <2>2. phase = "restoring" => o \in {Restorer, Nobody}
    BY <1>1, <1>6, <1>8 DEF PhasePart
  <2> QED
    BY <1>0, <1>1, <1>7, <2>1, <2>2, OwnersApart DEF PhasePart
<1>13. \A k \in Owners : req'[k].st # "none" <=> req[k].st # "none"
  BY <1>7, <1>8, OwnersApart
<1>14. HandlerPart'
  <2>1. \A k \in Handlers : pc[k] = "registering" => pat[k] \in Owners
    BY <1>1, OwnersApart DEF HandlerPart
  <2> QED
    BY <1>0, <1>1, <1>13, <2>1, OwnersApart DEF HandlerPart
<1>15. RequestPart'
  <2>1. \A p \in Patterns : req'[p].st = "ok" => req'[p].id \in Ids
    BY <1>1, <1>7, <1>8, OwnersApart DEF RequestPart
  <2>2. req'[Restorer].st = "ok" /\ ~ restore.rolling => req'[Restorer].id \in Ids
    BY <1>1, <1>7, <1>8, OwnersApart DEF RequestPart
  <2>3. req'[Restorer].st = "waiting" => req[Restorer].st = "waiting"
    BY <1>7, <1>8, OwnersApart
  <2> QED
    BY <1>0, <1>1, <1>13, <2>1, <2>2, <2>3, OwnersApart DEF RequestPart
<1>16. /\ CallTypes' /\ MapTypes' /\ RestoreTypes' /\ TailTypes' /\ EntryPart'
       /\ TodoPart' /\ MapPart' /\ TailPart' /\ NothingStranded'
  BY <1>0, Kept
<1> QED
  BY <1>10, <1>11, <1>12, <1>14, <1>15, <1>16 DEF BookInv

\* The head of the frames, and the pattern it names.
LEMMA FirstFrame ==
    ASSUME BookInv, out # <<>>
    PROVE  /\ Head(out) \in Frame
           /\ Head(out).kind # "unsubscribeAll" => Head(out).pat \in Patterns
<1>1. ReqTypes /\ FramePart
  BY DEF BookInv
<1>2. PICK n \in Nat : n = Len(out)
  BY <1>1 DEF ReqTypes
<1>3. n > 0
  BY <1>1, <1>2, EmptySeq DEF ReqTypes
<1>4. DOMAIN out = 1..n /\ Head(out) = out[1] /\ 1 \in 1..n
  BY <1>1, <1>2, <1>3 DEF ReqTypes
<1> QED
  BY <1>1, <1>4 DEF FramePart, ReqTypes

\* Every answer of the broker keeps the invariant.
LEMMA BrokerStepKeeps ==
    ASSUME BookInv, Same, \/ BrokerStep /\ Still
                          \/ BrokerUnsubscribesAll
    PROVE  BookInv'
<1>1. SessionTypes /\ NoId \in Ids \cup {NoId} /\ nextId \in Nat /\ MaxIds \in Nat
  BY Bounds DEF BookInv, SessionTypes
<1>2. CASE BrokerSubscribes /\ Still
  <2>1. /\ out # <<>> /\ Head(out).kind = "subscribe" /\ UNCHANGED notice
        /\ UNCHANGED <<phase, session>>
    BY <1>2 DEF BrokerSubscribes, Still, AnswerHead
  <2>2. Head(out).pat \in Patterns
    BY <2>1, FirstFrame
  <2>3. \/ /\ nextId \in Ids /\ reg' = [reg EXCEPT ![Head(out).pat] = nextId]
           /\ nextId' = nextId + 1 /\ AnswerHead("ok", nextId)
        \/ /\ reg[Head(out).pat] \in Ids /\ AnswerHead("ok", reg[Head(out).pat])
           /\ UNCHANGED broker
    BY <1>1, <1>2, <2>2 DEF BrokerSubscribes, SessionTypes
  <2>4. CASE /\ nextId \in Ids /\ reg' = [reg EXCEPT ![Head(out).pat] = nextId]
             /\ nextId' = nextId + 1 /\ AnswerHead("ok", nextId)
    <3>1. SessionTypes'
      BY <1>1, <2>1, <2>2, <2>4 DEF SessionTypes, Ids
    <3> QED
      BY <2>1, <2>4, <3>1, AnswerArrives
  <2>5. CASE /\ reg[Head(out).pat] \in Ids /\ AnswerHead("ok", reg[Head(out).pat])
             /\ UNCHANGED broker
    <3>1. SessionTypes'
      BY <1>1, <2>1, <2>5 DEF SessionTypes, broker
    <3> QED
      BY <2>1, <2>5, <3>1, AnswerArrives
  <2> QED
    BY <2>3, <2>4, <2>5
<1>3. CASE BrokerUnsubscribes /\ Still
  <2>1. /\ out # <<>> /\ Head(out).kind = "unsubscribe" /\ UNCHANGED notice
        /\ AnswerHead("ok", NoId) /\ UNCHANGED <<phase, session, nextId>>
        /\ reg' = [reg EXCEPT ![Head(out).pat] = NoId]
    BY <1>3 DEF BrokerUnsubscribes, Still, AnswerHead
  <2>2. SessionTypes'
    BY <1>1, <2>1 DEF SessionTypes
  <2> QED
    BY <1>1, <2>1, <2>2, AnswerArrives
<1>4. CASE BrokerRefuses /\ Still
  <2>1. /\ out # <<>> /\ UNCHANGED notice /\ AnswerHead("refused", NoId)
        /\ UNCHANGED <<phase, session, reg, nextId>>
    BY <1>4 DEF BrokerRefuses, Still, AnswerHead, broker
  <2>2. SessionTypes'
    BY <1>1, <2>1 DEF SessionTypes
  <2> QED
    BY <1>1, <2>1, <2>2, AnswerArrives
<1>5. CASE BrokerUnsubscribesAll
  <2>1. /\ out # <<>> /\ Head(out).kind = "unsubscribeAll" /\ UNCHANGED notice
        /\ AnswerHead("ok", NoId) /\ UNCHANGED <<phase, session, nextId>>
        /\ reg' = [p \in Patterns |-> NoId]
    BY <1>5 DEF BrokerUnsubscribesAll, AnswerHead
  <2>2. SessionTypes'
    BY <1>1, <2>1 DEF SessionTypes
  <2> QED
    BY <1>1, <2>1, <2>2, AnswerArrives
<1> QED
  BY <1>2, <1>3, <1>4, <1>5 DEF BrokerStep

-------------------------------------------------------------------------------
(* Sessions and the restore *)

\* The end of a session keeps the invariant: what was under way fails.
LEMMA LossStep ==
    ASSUME BookInv, Loss, Still, Same
    PROVE  BookInv'
<1>0. UNCHANGED <<domain, env, session, nextId, entries, patternsBySubId, pending, pc, pat,
                  waitsFor, held, aborted, ended, since, restore, tail, bulk, skippedRestore>>
  BY DEF Loss, Still, Same, notice, calls
<1>1. HandlerPart /\ RequestPart /\ ReqTypes /\ SessionTypes
  BY DEF BookInv
<1>2. /\ phase = "ready" /\ phase' = "lost" /\ session < MaxSessions /\ out' = <<>>
      /\ reg' = [p \in Patterns |-> NoId]
      /\ \A o \in Owners : req[o].st # "waiting"
      /\ req' = [o \in Owners |-> IF req[o].st = "sent" THEN [st |-> "failed", id |-> NoId]
                                  ELSE req[o]]
  BY DEF Loss
<1>3. \A o \in Owners : \/ req[o].st = "sent" /\ req'[o].st = "failed"
                        \/ req[o].st # "sent" /\ req'[o] = req[o]
  BY <1>2
<1>4. SessionTypes'
  BY <1>0, <1>1, <1>2 DEF SessionTypes
<1>5. ReqTypes'
  BY <1>1, <1>2 DEF ReqTypes, Stages
<1>6. HandlerPart'
  <2>1. \A k \in Handlers : pc[k] = "registering" => pat[k] \in Owners
    BY <1>1, OwnersApart DEF HandlerPart
  <2> QED
    BY <1>0, <1>1, <1>3, <2>1, OwnersApart DEF HandlerPart
<1>7. RequestPart'
  BY <1>0, <1>1, <1>2, <1>3, OwnersApart DEF RequestPart
<1>8. PhasePart' /\ TodoPart' /\ FramePart'
  BY <1>0, <1>2, <1>3 DEF PhasePart, TodoPart, FramePart
<1>9. /\ CallTypes' /\ MapTypes' /\ RestoreTypes' /\ TailTypes' /\ EntryPart' /\ MapPart'
      /\ TailPart' /\ NothingStranded'
  BY <1>0, Kept
<1> QED
  BY <1>4, <1>5, <1>6, <1>7, <1>8, <1>9 DEF BookInv

\* Without a session, once the continuations have run, requests are at most waiting.
LEMMA LostRests ==
    ASSUME BookInv, phase = "lost", LoopTurns
    PROVE  /\ out = <<>> /\ session < MaxSessions
           /\ \A o \in Owners : req[o].st \in {"none", "waiting"}
           /\ req[Restorer].st = "none"
<1>1. PhasePart /\ ReqTypes /\ RequestPart
  BY DEF BookInv
<1>2. \A o \in Owners : req[o].st \in Stages
  BY <1>1 DEF ReqTypes
<1> QED
  BY <1>1, <1>2, OwnersApart DEF PhasePart, RequestPart, LoopTurns, Answered, Stages

\* The next session keeps the invariant: a restore begins with every entry before it.
LEMMA ReconnectStep ==
    ASSUME BookInv, Reconnects, Same
    PROVE  BookInv'
<1>0. UNCHANGED <<domain, env, reg, nextId, out, req, entries, patternsBySubId, pending, pc,
                  pat, waitsFor, held, aborted, ended, since, tail, bulk, skippedRestore>>
  BY DEF Reconnects, Reconnect, Still, Same, notice, broker, calls
<1>1. EntryPart /\ RequestPart /\ SessionTypes /\ TailTypes
  BY DEF BookInv
<1>2. /\ phase = "lost" /\ out = <<>> /\ session < MaxSessions
      /\ \A o \in Owners : req[o].st \in {"none", "waiting"}
      /\ req[Restorer].st = "none"
  BY LostRests DEF Reconnects, Reconnect
<1>3. /\ session' = session + 1 /\ phase' \in {"ready", "restoring"}
      /\ restore' = [NotRestoring EXCEPT !.todo = {p \in Patterns : entries[p] # Nobody}]
      /\ \A b \in Bulks : bulk[b] # "requesting"
  BY DEF Reconnects, Reconnect, BulkPending
<1>4. /\ restore'.todo = {p \in Patterns : entries[p] # Nobody}
      /\ restore'.cur = Nobody /\ restore'.rolling = FALSE /\ restore'.failed = {}
      /\ restore'.done = [p \in Patterns |-> Nobody]
      /\ restore' \in [todo : SUBSET Patterns, cur : Patterns \cup {Nobody},
                       rolling : BOOLEAN, failed : SUBSET Patterns,
                       done : [Patterns -> Entry \cup {Nobody}]]
  BY <1>3 DEF NotRestoring
<1>5. SessionTypes'
  BY <1>0, <1>1, <1>2, <1>3, Bounds DEF SessionTypes
<1>6. RestoreTypes'
  BY <1>4 DEF RestoreTypes
<1>7. EntryPart'
  BY <1>0, <1>1, <1>4 DEF EntryPart
<1>8. RequestPart'
  BY <1>0, <1>1, <1>2, <1>4 DEF RequestPart
<1>9. PhasePart'
  BY <1>0, <1>2, <1>3 DEF PhasePart
<1>10. TodoPart' /\ FramePart'
  BY <1>0, <1>2, <1>4 DEF TodoPart, FramePart
<1>11. /\ CallTypes' /\ MapTypes' /\ ReqTypes' /\ TailTypes' /\ HandlerPart' /\ MapPart'
       /\ TailPart' /\ NothingStranded'
  BY <1>0, Kept
<1> QED
  BY <1>5, <1>6, <1>7, <1>8, <1>9, <1>10, <1>11 DEF BookInv

\* A session whose restore is skipped keeps the invariant.
LEMMA SkipRestoreStep ==
    ASSUME BookInv, SkipRestore, Same
    PROVE  BookInv'
<1>0. UNCHANGED <<domain, env, reg, nextId, out, req, entries, patternsBySubId, pending, pc,
                  pat, waitsFor, held, aborted, ended, since, restore, tail, bulk>>
  BY DEF SkipRestore, Same, broker, calls
<1>1. RequestPart /\ SessionTypes /\ TailTypes
  BY DEF BookInv
<1>2. phase = "lost" /\ session < MaxSessions /\ req[Restorer].st = "none"
  BY LostRests DEF SkipRestore
<1>3. session' = session + 1 /\ phase' = "ready" /\ skippedRestore' = TRUE
  BY DEF SkipRestore
<1>4. SessionTypes'
  BY <1>0, <1>1, <1>2, <1>3, Bounds DEF SessionTypes
<1>5. TailTypes'
  BY <1>0, <1>1, <1>3 DEF TailTypes
<1>6. RequestPart'
  BY <1>0, <1>1, <1>2 DEF RequestPart
<1>7. PhasePart' /\ TodoPart'
  BY <1>3 DEF PhasePart, TodoPart
<1>8. /\ CallTypes' /\ MapTypes' /\ ReqTypes' /\ RestoreTypes' /\ HandlerPart' /\ EntryPart'
      /\ FramePart' /\ MapPart' /\ TailPart' /\ NothingStranded'
  BY <1>0, Kept
<1> QED
  BY <1>4, <1>5, <1>6, <1>7, <1>8 DEF BookInv

\* The calls of a step of the restore, which concerns its own request only.
LEMMA RestorerMoves ==
    ASSUME BookInv, UNCHANGED <<pc, pat, held, bulk, session>>,
           phase = "restoring", phase' \in {"restoring", "ready"},
           \A k \in Owners : k # Restorer => req'[k] = req[k],
           req'[Restorer].st # "none" =>
             /\ phase' = "restoring" /\ restore'.cur \in Patterns
             /\ req'[Restorer].st \notin {"waiting", "ok"}
             /\ restore'.rolling => restore'.done[restore'.cur] # Nobody
             /\ ~ restore'.rolling => restore'.cur \in restore'.todo
    PROVE  HandlerPart' /\ RequestPart' /\ PhasePart'
<1>1. HandlerPart /\ RequestPart /\ PhasePart
  BY DEF BookInv
<1>2. HandlerPart'
  <2>1. \A k \in Handlers : pc[k] = "registering" => pat[k] \in Owners /\ pat[k] # Restorer
    BY <1>1, OwnersApart DEF HandlerPart
  <2> QED
    BY <1>1, <2>1, OwnersApart DEF HandlerPart
<1>3. RequestPart'
  BY <1>1, OwnersApart DEF RequestPart
<1>4. PhasePart'
  BY <1>1 DEF PhasePart
<1> QED
  BY <1>2, <1>3, <1>4

\* The restore's next request keeps the invariant, and so does the roll-back's.
LEMMA RestorerSendsStep ==
    ASSUME BookInv, NEW p \in Patterns, RestoreSends(p) \/ RollbackSends(p), Still, Same
    PROVE  BookInv'
<1>0. UNCHANGED <<domain, env, phase, session, reg, nextId, entries, pending, pc, pat,
                  waitsFor, held, aborted, ended, since, tail, bulk, skippedRestore>>
  BY DEF RestoreSends, RollbackSends, Still, Same, notice, broker, calls
<1>1. ReqTypes /\ RestoreTypes /\ EntryPart /\ TodoPart /\ MapTypes /\ MapPart
      /\ NothingStranded
  BY DEF BookInv
<1>2. /\ phase = "restoring" /\ req[Restorer].st = "none"
      /\ restore' = [restore EXCEPT !.cur = p]
      /\ \E kind \in {"subscribe", "unsubscribe"} :
            /\ Request(Restorer, kind, p, NoId)
            /\ ~ restore.rolling => kind = "subscribe"
      /\ restore.rolling => restore.done[p] # Nobody
      /\ ~ restore.rolling => p \in restore.todo
  BY DEF RestoreSends, RollbackSends
<1>3. /\ restore'.cur = p /\ restore'.todo = restore.todo /\ restore'.done = restore.done
      /\ restore'.rolling = restore.rolling /\ RestoreTypes'
  BY <1>1, <1>2 DEF RestoreTypes
<1>4. /\ ReqTypes' /\ FramePart'
      /\ req' = [req EXCEPT ![Restorer] = [st |-> IF MaySend(Restorer) THEN "sent"
                                                 ELSE "waiting", id |-> NoId]]
  <2>1. PICK kind \in {"subscribe", "unsubscribe"} :
           Request(Restorer, kind, p, NoId) /\ (~ restore.rolling => kind = "subscribe")
    BY <1>2
  <2>2. Restorer \in Owners /\ Restorer \notin Patterns /\ NoId \in Ids \cup {NoId}
    BY OwnersApart
  <2> QED
    BY <1>0, <1>2, <1>3, <2>1, <2>2, RequestSent
<1>5. req'[Restorer].st = "sent" /\ \A k \in Owners : k # Restorer => req'[k] = req[k]
  BY <1>1, <1>2, <1>4, OwnersApart DEF ReqTypes, MaySend
<1>6. HandlerPart' /\ RequestPart' /\ PhasePart'
  BY <1>0, <1>2, <1>3, <1>5, RestorerMoves
<1>7. EntryPart' /\ TodoPart'
  BY <1>0, <1>1, <1>3 DEF EntryPart, TodoPart
<1>8. MapTypes' /\ MapPart' /\ NothingStranded'
  <2>1. CASE UNCHANGED patternsBySubId
    BY <1>0, <2>1, Kept
  <2>2. CASE domain = "lease" /\ restore.done[p] # Nobody
             /\ patternsBySubId' = [patternsBySubId EXCEPT ![restore.done[p].id] = Nobody]
    <3>1. pending' = {} /\ domain' = "lease"
      BY <1>0, <1>1, <2>2 DEF MapPart
    <3>2. MapTypes'
      BY <1>0, <1>1, <2>2 DEF MapTypes
    <3> QED
      BY <3>1, <3>2 DEF MapPart, NothingStranded
  <2> QED
    BY <2>1, <2>2 DEF RestoreSends, RollbackSends, LeaseRolledBack
<1>9. SessionTypes' /\ CallTypes' /\ TailTypes' /\ TailPart'
  BY <1>0, Kept
<1> QED
  BY <1>3, <1>4, <1>6, <1>7, <1>8, <1>9 DEF BookInv

\* The restore takes up an answer: what every such step keeps.
LEMMA RestorerTakes ==
    ASSUME BookInv, Answered(Restorer), phase = "restoring", phase' \in {"restoring", "ready"},
           req' = [req EXCEPT ![Restorer] = Idle],
           ~ restore'.rolling => ~ restore.rolling,
           UNCHANGED <<domain, env, session, reg, nextId, out, pc, pat, waitsFor, held,
                       aborted, ended, since, tail, bulk, skippedRestore>>
    PROVE  /\ SessionTypes' /\ CallTypes' /\ ReqTypes' /\ TailTypes' /\ HandlerPart'
           /\ RequestPart' /\ PhasePart' /\ FramePart' /\ TailPart'
<1>1. /\ ReqTypes' /\ FramePart' /\ req'[Restorer].st = "none"
      /\ \A k \in Owners : k # Restorer => req'[k] = req[k]
  BY AnswerTaken, OwnersApart
<1>2. HandlerPart' /\ RequestPart' /\ PhasePart'
  BY <1>1, RestorerMoves
<1>3. CallTypes' /\ TailTypes' /\ TailPart'
  BY Kept
<1>4. SessionTypes'
  BY DEF BookInv, SessionTypes
<1> QED
  BY <1>1, <1>2, <1>3, <1>4

\* A restored entry keeps the invariant; after the last one the copies are the map.
LEMMA RestoreEntryStep ==
    ASSUME BookInv, RestoreEntry, Still, Same
    PROVE  BookInv'
<1> DEFINE p == restore.cur
           copy == [id |-> req[Restorer].id, handlers |-> entries[p].handlers,
                    unsub |-> Nobody]
           done == [restore.done EXCEPT ![p] = copy]
           ps == [i \in Ids |->
                    IF \E q \in Patterns : done[q] # Nobody /\ done[q].id = i
                       THEN CHOOSE q \in Patterns : done[q] # Nobody /\ done[q].id = i
                       ELSE Nobody]
<1>0. UNCHANGED <<domain, env, session, reg, nextId, out, pc, pat, waitsFor, held, aborted,
                  ended, since, tail, bulk, skippedRestore>>
  BY DEF RestoreEntry, Still, Same, notice, broker, calls
<1>1. /\ RestoreTypes /\ EntryPart /\ TodoPart /\ MapTypes /\ MapPart /\ NothingStranded
      /\ RequestPart /\ ReqTypes
  BY DEF BookInv
<1>2. /\ phase = "restoring" /\ ~ restore.rolling /\ Answered(Restorer)
      /\ req[Restorer].st = "ok" /\ req' = [req EXCEPT ![Restorer] = Idle]
  BY DEF RestoreEntry, Answered
<1>3. p \in Patterns /\ p \in restore.todo /\ req[Restorer].id \in Ids
  BY <1>1, <1>2 DEF RequestPart
<1>4. entries[p] \in Entry
  BY <1>1, <1>2, <1>3 DEF TodoPart, MapTypes
<1>5. copy \in Entry /\ copy.handlers = entries[p].handlers /\ copy.id = req[Restorer].id
  BY <1>3, <1>4 DEF Entry
<1>6. \/ /\ phase' = phase /\ UNCHANGED <<entries, pending>>
         /\ restore' = [restore EXCEPT !.todo = @ \ {p}, !.done = done]
         /\ patternsBySubId' = IF domain = "lease" THEN LeaseRestored(p, copy.id)
                               ELSE patternsBySubId
      \/ /\ phase' = "ready" /\ entries' = done /\ restore' = NotRestoring
         /\ patternsBySubId' = IF domain = "lease" THEN LeaseRestored(p, copy.id) ELSE ps
         /\ pending' = {i \in pending : ~ Resolves(i, done, ps)}
  BY DEF RestoreEntry
<1>7. LeaseRestored(p, copy.id) \in [Ids -> Patterns \cup {Nobody}]
  BY <1>1, <1>3, <1>5 DEF LeaseRestored, MapTypes
<1>8. /\ ps \in [Ids -> Patterns \cup {Nobody}]
      /\ \A i \in Ids : ps[i] # Nobody => done[ps[i]] # Nobody /\ done[ps[i]].id = i
  <2> HIDE DEF done
  <2>1. ASSUME NEW i \in Ids
        PROVE  /\ ps[i] \in Patterns \cup {Nobody}
               /\ ps[i] # Nobody => done[ps[i]] # Nobody /\ done[ps[i]].id = i
    <3>1. CASE \E q \in Patterns : done[q] # Nobody /\ done[q].id = i
      <4>1. ps[i] = CHOOSE q \in Patterns : done[q] # Nobody /\ done[q].id = i
        BY <3>1
      <4> HIDE DEF ps
      <4> QED
        BY <3>1, <4>1
    <3>2. CASE ~ \E q \in Patterns : done[q] # Nobody /\ done[q].id = i
      <4>1. ps[i] = Nobody
        BY <3>2
      <4> QED
        BY <4>1
    <3> QED
      BY <3>1, <3>2
  <2> QED
    BY <2>1
<1> HIDE DEF copy, ps
<1>9. /\ done \in [Patterns -> Entry \cup {Nobody}] /\ done[p] = copy /\ copy # Nobody
      /\ \A q \in Patterns : q # p => done[q] = restore.done[q]
  BY <1>1, <1>3, <1>5, EntryExists DEF RestoreTypes
<1> HIDE DEF done
<1>10. \A q \in Patterns : done[q] # Nobody =>
          \A h \in done[q].handlers : pat[h] = q /\ pc[h] # "idle"
  BY <1>1, <1>2, <1>3, <1>5, <1>9 DEF EntryPart, TodoPart
<1>11. CASE /\ phase' = phase /\ UNCHANGED <<entries, pending>>
            /\ restore' = [restore EXCEPT !.todo = @ \ {p}, !.done = done]
            /\ patternsBySubId' = IF domain = "lease" THEN LeaseRestored(p, copy.id)
                                  ELSE patternsBySubId
  <2>1. /\ restore'.todo = restore.todo \ {p} /\ restore'.done = done
        /\ restore'.rolling = restore.rolling /\ RestoreTypes'
    BY <1>1, <1>9, <1>11 DEF RestoreTypes
  <2>2. /\ SessionTypes' /\ CallTypes' /\ ReqTypes' /\ TailTypes' /\ HandlerPart'
        /\ RequestPart' /\ PhasePart' /\ FramePart' /\ TailPart'
    BY <1>0, <1>2, <1>11, <2>1, RestorerTakes
  <2>3. MapTypes'
    BY <1>1, <1>7, <1>11 DEF MapTypes
  <2>4. EntryPart'
    BY <1>0, <1>1, <1>10, <1>11, <2>1 DEF EntryPart
  <2>5. TodoPart'
    BY <1>1, <1>11, <2>1 DEF TodoPart
  <2>6. MapPart' /\ NothingStranded'
    <3>1. CASE domain = "lease"
      <4>1. pending' = {} /\ domain' = "lease"
        BY <1>0, <1>1, <1>11, <3>1 DEF MapPart
      <4> QED
        BY <4>1 DEF MapPart, NothingStranded
    <3>2. CASE domain # "lease"
      BY <1>0, <1>11, <3>2, Kept
    <3> QED
      BY <3>1, <3>2
  <2> QED
    BY <2>1, <2>2, <2>3, <2>4, <2>5, <2>6 DEF BookInv
<1>12. CASE /\ phase' = "ready" /\ entries' = done /\ restore' = NotRestoring
            /\ patternsBySubId' = IF domain = "lease" THEN LeaseRestored(p, copy.id) ELSE ps
            /\ pending' = {i \in pending : ~ Resolves(i, done, ps)}
  <2>1. restore'.done = [q \in Patterns |-> Nobody] /\ ~ restore'.rolling /\ RestoreTypes'
    BY <1>12 DEF RestoreTypes, NotRestoring
  <2>2. /\ SessionTypes' /\ CallTypes' /\ ReqTypes' /\ TailTypes' /\ HandlerPart'
        /\ RequestPart' /\ PhasePart' /\ FramePart' /\ TailPart'
    BY <1>0, <1>2, <1>12, RestorerTakes
  <2>3. MapTypes'
    BY <1>1, <1>7, <1>8, <1>9, <1>12 DEF MapTypes
  <2>4. EntryPart'
    BY <1>0, <1>10, <1>12, <2>1 DEF EntryPart
  <2>5. TodoPart'
    BY <1>12 DEF TodoPart
  <2>6. MapPart' /\ NothingStranded'
    <3>1. CASE domain = "lease"
      <4>1. pending' = {} /\ domain' = "lease"
        BY <1>0, <1>1, <1>12, <3>1 DEF MapPart
      <4> QED
        BY <4>1 DEF MapPart, NothingStranded
    <3>2. CASE domain # "lease"
      <4>1. patternsBySubId' = ps /\ domain' # "lease"
        BY <1>0, <1>12, <3>2
      <4>2. domain = "kv" => pending' = {}
        BY <1>1, <1>12 DEF MapPart
      <4> QED
        BY <1>0, <1>8, <1>12, <4>1, <4>2 DEF MapPart, NothingStranded
    <3> QED
      BY <3>1, <3>2
  <2> QED
    BY <2>1, <2>2, <2>3, <2>4, <2>5, <2>6 DEF BookInv
<1> QED
  BY <1>6, <1>11, <1>12

\* A restore that fails, and the roll-back of an entry, keep the invariant.
LEMMA RestoreUnwindsStep ==
    ASSUME BookInv, RestoreFails \/ RollbackEntry, Still, Same
    PROVE  BookInv'
<1>0. UNCHANGED <<domain, env, phase, session, reg, nextId, out, entries, patternsBySubId,
                  pending, pc, pat, waitsFor, held, aborted, ended, since, tail, bulk,
                  skippedRestore>>
  BY DEF RestoreFails, RollbackEntry, Still, Same, notice, broker, calls
<1>1. RestoreTypes /\ EntryPart /\ RequestPart /\ TodoPart
  BY DEF BookInv
<1>2. /\ phase = "restoring" /\ Answered(Restorer) /\ req' = [req EXCEPT ![Restorer] = Idle]
      /\ \/ restore' = [restore EXCEPT !.rolling = TRUE, !.todo = {},
                                       !.failed = @ \cup {restore.cur}]
         \/ restore.rolling /\ restore' = [restore EXCEPT !.done[restore.cur] = Nobody]
  BY DEF RestoreFails, RollbackEntry, Answered
<1>3. restore.cur \in Patterns
  BY <1>1, <1>2 DEF RequestPart, Answered
<1>4. /\ RestoreTypes' /\ restore'.rolling /\ restore'.todo \subseteq restore.todo
      /\ \A q \in Patterns : restore'.done[q] \in {restore.done[q], Nobody}
  <2>1. CASE restore' = [restore EXCEPT !.rolling = TRUE, !.todo = {},
                                        !.failed = @ \cup {restore.cur}]
    BY <1>1, <1>3, <2>1 DEF RestoreTypes
  <2>2. CASE restore.rolling /\ restore' = [restore EXCEPT !.done[restore.cur] = Nobody]
    <3>1. /\ restore'.rolling = restore.rolling /\ restore'.todo = restore.todo
          /\ restore'.cur = restore.cur /\ restore'.failed = restore.failed
          /\ restore'.done = [restore.done EXCEPT ![restore.cur] = Nobody]
          /\ restore' = [restore EXCEPT !.done = restore'.done]
      BY <1>1, <2>2 DEF RestoreTypes
    <3>2. restore'.done \in [Patterns -> Entry \cup {Nobody}]
      BY <1>1, <3>1 DEF RestoreTypes
    <3>3. RestoreTypes'
      BY <1>1, <3>1, <3>2 DEF RestoreTypes
    <3>4. \A q \in Patterns : restore'.done[q] \in {restore.done[q], Nobody}
      BY <1>1, <3>1 DEF RestoreTypes
    <3> QED
      BY <2>2, <3>1, <3>3, <3>4
  <2> QED
    BY <1>2, <2>1, <2>2
<1>5. /\ SessionTypes' /\ CallTypes' /\ ReqTypes' /\ TailTypes' /\ HandlerPart'
      /\ RequestPart' /\ PhasePart' /\ FramePart' /\ TailPart'
  BY <1>0, <1>2, <1>4, RestorerTakes
<1>6. EntryPart'
  BY <1>0, <1>1, <1>4 DEF EntryPart
<1>7. TodoPart'
  BY <1>0, <1>1, <1>4 DEF TodoPart
<1>8. MapTypes' /\ MapPart' /\ NothingStranded'
  BY <1>0, Kept
<1> QED
  BY <1>4, <1>5, <1>6, <1>7, <1>8 DEF BookInv

\* A restore that gives up keeps the invariant: its request was taken up.
LEMMA RestoreGivesUpStep ==
    ASSUME BookInv, RestoreGivesUp, Still, Same
    PROVE  BookInv'
<1>0. UNCHANGED <<domain, env, session, reg, nextId, out, req, entries, patternsBySubId,
                  pending, pc, pat, waitsFor, held, aborted, ended, since, tail, bulk,
                  skippedRestore>>
  BY DEF RestoreGivesUp, Still, Same, notice, broker, calls
<1>1. RestoreTypes /\ EntryPart /\ RequestPart /\ FramePart /\ SessionTypes
  BY DEF BookInv
<1>2. /\ phase = "restoring" /\ phase' = "ready" /\ restore.rolling
      /\ \A q \in Patterns : restore.done[q] = Nobody
      /\ restore' = [NotRestoring EXCEPT !.failed = restore.failed]
  BY DEF RestoreGivesUp
<1>3. /\ restore'.done = [q \in Patterns |-> Nobody] /\ restore'.failed = restore.failed
      /\ restore'.rolling = FALSE /\ RestoreTypes'
  BY <1>1, <1>2 DEF RestoreTypes, NotRestoring
<1>4. req[Restorer].st = "none"
  BY <1>1, <1>2 DEF RequestPart
<1>5. HandlerPart' /\ RequestPart' /\ PhasePart'
  BY <1>0, <1>2, <1>4, RestorerMoves
<1>6. FramePart'
  <2>1. \A i \in DOMAIN out : out[i].op # Restorer
    BY <1>1, <1>4, OwnersApart DEF FramePart
  <2> QED
    BY <1>0, <1>1, <2>1 DEF FramePart
<1>7. EntryPart'
  BY <1>0, <1>1, <1>3 DEF EntryPart
<1>8. TodoPart' /\ SessionTypes'
  BY <1>0, <1>1, <1>2 DEF TodoPart, SessionTypes
<1>9. /\ CallTypes' /\ MapTypes' /\ ReqTypes' /\ TailTypes' /\ MapPart' /\ TailPart'
      /\ NothingStranded'
  BY <1>0, Kept
<1> QED
  BY <1>3, <1>5, <1>6, <1>7, <1>8, <1>9 DEF BookInv

-------------------------------------------------------------------------------
(* serialize() and unsubscribeAll() *)

\* The tail with one more call, which has begun and was not in it.
LEMMA TailGrows ==
    ASSUME BookInv, NEW x \in Handlers \cup Bulks, tail' = Append(tail, x),
           UNCHANGED skippedRestore, pc' \in [Handlers -> PcValues],
           bulk' \in [Bulks -> {"idle", "queued", "turn", "requesting", "done", "failed"}],
           \A h \in Handlers : h # x => pc'[h] = pc[h],
           \A b \in Bulks : b # x => bulk'[b] = bulk[b],
           x \in Handlers => /\ pc[x] = "idle" /\ pc'[x] # "idle"
                             /\ tail # <<>> => pc'[x] = "queued",
           x \in Bulks => /\ bulk[x] = "idle" /\ bulk'[x] # "idle"
                          /\ tail # <<>> => bulk'[x] = "queued"
    PROVE  TailTypes' /\ TailPart'
<1>1. TailTypes /\ TailPart
  BY DEF BookInv
<1>2. PICK n \in Nat : n = Len(tail)
  BY <1>1 DEF TailTypes
<1>3. /\ DOMAIN tail = 1..n /\ DOMAIN tail' = 1..(n + 1)
      /\ \A k \in 1..n : tail'[k] = tail[k] /\ tail[k] \in Handlers \cup Bulks
      /\ tail'[n + 1] = x /\ tail' \in Seq(Handlers \cup Bulks)
  BY <1>1, <1>2 DEF TailTypes
<1>4. n > 0 => tail # <<>>
  BY <1>1, <1>2, EmptySeq DEF TailTypes
<1>5. \A k \in 1..n : tail[k] # x
  BY <1>1, <1>3 DEF TailPart
<1>6. ASSUME NEW k \in DOMAIN tail'
      PROVE  /\ tail'[k] \in Handlers =>
                  pc'[tail'[k]] # "idle" /\ (k > 1 => pc'[tail'[k]] = "queued")
             /\ tail'[k] \in Bulks =>
                  bulk'[tail'[k]] # "idle" /\ (k > 1 => bulk'[tail'[k]] = "queued")
  <2>1. CASE k \in 1..n
    BY <1>1, <1>3, <1>5, <2>1 DEF TailPart
  <2>2. CASE k = n + 1
    BY <1>3, <1>4, <2>2
  <2> QED
    BY <1>3, <2>1, <2>2
<1>7. \A k, l \in DOMAIN tail' : tail'[k] = tail'[l] => k = l
  BY <1>1, <1>3, <1>5 DEF TailPart
<1> QED
  BY <1>1, <1>3, <1>6, <1>7 DEF TailTypes, TailPart

\* A notice subscribe() takes its place in the tail, which keeps the invariant.
LEMMA NoticeSubscribeStep ==
    ASSUME BookInv, NEW h \in Handlers, NEW p \in Patterns, NoticeSubscribe(h, p), Same
    PROVE  BookInv'
<1>0. UNCHANGED <<domain, env, phase, session, reg, nextId, out, req, entries,
                  patternsBySubId, pending, aborted, ended, since, waitsFor, held, restore,
                  bulk, skippedRestore>>
  BY DEF NoticeSubscribe, Same, broker
<1>1. CallTypes /\ HandlerPart /\ EntryPart /\ TailTypes
  BY DEF BookInv
<1> DEFINE v == IF tail = <<>> THEN "resuming" ELSE "queued"
<1>2. /\ pc[h] = "idle" /\ tail' = Append(tail, h)
      /\ pat' = [pat EXCEPT ![h] = p] /\ pc' = [pc EXCEPT ![h] = v]
  BY DEF NoticeSubscribe
<1>3. v \in {"resuming", "queued"} /\ v \in PcValues /\ (tail # <<>> => v = "queued")
  BY DEF PcValues
<1> HIDE DEF v
<1>4. /\ pc' \in [Handlers -> PcValues] /\ pc'[h] = v
      /\ pat' \in [Handlers -> Patterns \cup {Nobody}] /\ pat'[h] = p
      /\ \A k \in Handlers : k # h => pc'[k] = pc[k] /\ pat'[k] = pat[k]
  BY <1>1, <1>2, <1>3 DEF CallTypes
<1>5. TailTypes' /\ TailPart'
  <2>1. bulk' \in [Bulks -> {"idle", "queued", "turn", "requesting", "done", "failed"}]
    BY <1>0, <1>1 DEF TailTypes
  <2>2. h \in Handlers \cup Bulks /\ h \notin Bulks
    BY OwnersApart
  <2> QED
    BY <1>0, <1>2, <1>3, <1>4, <2>1, <2>2, TailGrows
<1>6. CallTypes'
  BY <1>0, <1>1, <1>4 DEF CallTypes
<1>7. HandlerPart'
  BY <1>0, <1>1, <1>2, <1>3, <1>4 DEF HandlerPart
<1>8. EntryPart'
  <2>1. \A k \in Handlers : pc[k] # "idle" => pc'[k] # "idle" /\ pat'[k] = pat[k]
    BY <1>2, <1>4
  <2> QED
    BY <1>0, <2>1, EntriesUntouched
<1>9. /\ SessionTypes' /\ MapTypes' /\ ReqTypes' /\ RestoreTypes' /\ RequestPart'
      /\ PhasePart' /\ TodoPart' /\ FramePart' /\ MapPart' /\ NothingStranded'
  BY <1>0, Kept
<1> QED
  BY <1>5, <1>6, <1>7, <1>8, <1>9 DEF BookInv

\* An unsubscribeAll() takes its place in the tail, which keeps the invariant.
LEMMA BulkCallStep ==
    ASSUME BookInv, NEW b \in Bulks, BulkCall(b), Same
    PROVE  BookInv'
<1>0. UNCHANGED <<domain, env, phase, session, reg, nextId, out, req, entries,
                  patternsBySubId, pending, pc, pat, waitsFor, held, aborted, ended, since,
                  restore, skippedRestore>>
  BY DEF BulkCall, Same, broker, calls
<1>1. CallTypes /\ RequestPart /\ PhasePart /\ TailTypes
  BY DEF BookInv
<1> DEFINE v == IF tail = <<>> THEN "turn" ELSE "queued"
<1>2. bulk[b] = "idle" /\ tail' = Append(tail, b) /\ bulk' = [bulk EXCEPT ![b] = v]
  BY DEF BulkCall
<1>3. v \in {"turn", "queued"} /\ (tail # <<>> => v = "queued")
  OBVIOUS
<1> HIDE DEF v
<1>4. /\ bulk' \in [Bulks -> {"idle", "queued", "turn", "requesting", "done", "failed"}]
      /\ bulk'[b] = v /\ \A c \in Bulks : c # b => bulk'[c] = bulk[c]
  BY <1>1, <1>2, <1>3 DEF TailTypes
<1>5. TailTypes' /\ TailPart'
  <2>1. pc' \in [Handlers -> PcValues]
    BY <1>0, <1>1 DEF CallTypes
  <2>2. b \in Handlers \cup Bulks /\ b \notin Handlers
    BY OwnersApart
  <2> QED
    BY <1>0, <1>2, <1>3, <1>4, <2>1, <2>2, TailGrows
<1>6. RequestPart'
  BY <1>0, <1>1, <1>2, <1>3, <1>4 DEF RequestPart
<1>7. PhasePart'
  BY <1>0, <1>1, <1>3, <1>4 DEF PhasePart
<1>8. /\ SessionTypes' /\ CallTypes' /\ MapTypes' /\ ReqTypes' /\ RestoreTypes'
      /\ HandlerPart' /\ EntryPart' /\ TodoPart' /\ FramePart' /\ MapPart'
      /\ NothingStranded'
  BY <1>0, Kept
<1> QED
  BY <1>5, <1>6, <1>7, <1>8 DEF BookInv

\* release() lets the next call go on, which keeps the invariant.
LEMMA ReleaseStep ==
    ASSUME BookInv, Release, Same
    PROVE  BookInv'
<1>0. UNCHANGED <<domain, env, phase, session, reg, nextId, out, req, entries,
                  patternsBySubId, pending, pat, waitsFor, held, aborted, ended, since,
                  restore, skippedRestore>>
  BY DEF Release, Same, broker, calls
<1>1. CallTypes /\ HandlerPart /\ RequestPart /\ PhasePart /\ TailTypes /\ TailPart
  BY DEF BookInv
<1> DEFINE next == IF Len(tail) > 1 THEN tail[2] ELSE Nobody
<1>2. /\ tail # <<>> /\ tail' = Tail(tail)
      /\ pc' = [h \in Handlers |-> IF h = next THEN "resuming" ELSE pc[h]]
      /\ bulk' = [b \in Bulks |-> IF b = next THEN "turn" ELSE bulk[b]]
  BY DEF Release
<1>3. PICK n \in Nat : n = Len(tail)
  BY <1>1 DEF TailTypes
<1>4. n > 0
  BY <1>1, <1>2, <1>3, EmptySeq DEF TailTypes
<1>5. /\ DOMAIN tail = 1..n /\ DOMAIN tail' = 1..(n - 1)
      /\ \A k \in 1..(n - 1) : k + 1 \in 1..n /\ tail'[k] = tail[k + 1]
      /\ \A k \in 1..n : tail[k] \in Handlers \cup Bulks
      /\ tail' \in Seq(Handlers \cup Bulks)
  BY <1>1, <1>2, <1>3, <1>4 DEF TailTypes
<1>6. /\ next \in Handlers => pc[next] = "queued" /\ n > 1 /\ next = tail[2]
      /\ next \in Bulks => bulk[next] = "queued" /\ n > 1 /\ next = tail[2]
  <2>1. CASE n > 1
    BY <1>1, <1>3, <1>5, <2>1 DEF TailPart
  <2>2. CASE ~ n > 1
    BY <1>3, <2>2, OwnersApart
  <2> QED
    BY <2>1, <2>2
<1> HIDE DEF next
<1>7. /\ \A h \in Handlers : \/ pc'[h] = pc[h] /\ h # next
                             \/ pc[h] = "queued" /\ pc'[h] = "resuming" /\ h = next
      /\ \A b \in Bulks : \/ bulk'[b] = bulk[b] /\ b # next
                          \/ bulk[b] = "queued" /\ bulk'[b] = "turn" /\ b = next
      /\ pc' \in [Handlers -> PcValues]
      /\ bulk' \in [Bulks -> {"idle", "queued", "turn", "requesting", "done", "failed"}]
  BY <1>1, <1>2, <1>6 DEF CallTypes, TailTypes, PcValues
<1>8. TailTypes' /\ CallTypes'
  BY <1>0, <1>1, <1>5, <1>7 DEF TailTypes, CallTypes
<1>9. TailPart'
  <2>1. ASSUME NEW k \in 1..(n - 1)
        PROVE  /\ tail'[k] \in Handlers =>
                    pc'[tail'[k]] # "idle" /\ (k > 1 => pc'[tail'[k]] = "queued")
               /\ tail'[k] \in Bulks =>
                    bulk'[tail'[k]] # "idle" /\ (k > 1 => bulk'[tail'[k]] = "queued")
    <3>1. k + 1 \in DOMAIN tail /\ tail'[k] = tail[k + 1] /\ k + 1 > 1
      BY <1>5
    <3>2. /\ tail[k + 1] \in Handlers => pc[tail[k + 1]] = "queued"
          /\ tail[k + 1] \in Bulks => bulk[tail[k + 1]] = "queued"
      BY <1>1, <3>1 DEF TailPart
    <3>3. ASSUME k > 1, tail[k + 1] = next, next \in Handlers \cup Bulks PROVE FALSE
      <4>1. 2 \in DOMAIN tail /\ tail[2] = tail[k + 1]
        BY <1>5, <1>6, <3>1, <3>3
      <4>2. 2 = k + 1
        BY <1>1, <3>1, <4>1 DEF TailPart
      <4> QED
        BY <3>3, <4>2
    <3> QED
      BY <1>7, <3>1, <3>2, <3>3
  <2>2. ASSUME NEW k \in 1..(n - 1), NEW l \in 1..(n - 1), tail'[k] = tail'[l] PROVE k = l
    <3>1. k + 1 = l + 1
      BY <1>1, <1>5, <2>2 DEF TailPart
    <3> QED
      BY <3>1
  <2> QED
    BY <1>5, <2>1, <2>2 DEF TailPart
<1>10. HandlerPart'
  BY <1>0, <1>1, <1>7 DEF HandlerPart
<1>11. EntryPart'
  BY <1>0, <1>7, EntriesUntouched
<1>12. RequestPart'
  BY <1>0, <1>1, <1>7 DEF RequestPart
<1>13. PhasePart'
  BY <1>0, <1>1, <1>7 DEF PhasePart
<1>14. /\ SessionTypes' /\ MapTypes' /\ ReqTypes' /\ RestoreTypes' /\ TodoPart' /\ FramePart'
       /\ MapPart' /\ NothingStranded'
  BY <1>0, Kept
<1> QED
  BY <1>8, <1>9, <1>10, <1>11, <1>12, <1>13, <1>14 DEF BookInv

\* The tail when an unsubscribeAll() that has its turn goes on.
LEMMA BulkMoves ==
    ASSUME BookInv, NEW b \in Bulks, bulk[b] \in {"turn", "requesting"},
           NEW v \in {"requesting", "done", "failed"}, bulk' = [bulk EXCEPT ![b] = v],
           UNCHANGED tail, skippedRestore' \in BOOLEAN,
           \A h \in Handlers : pc'[h] = pc[h] \/ (pc[h] \notin {"idle", "queued"}
                                                  /\ pc'[h] \notin {"idle", "queued"})
    PROVE  /\ TailTypes' /\ TailPart' /\ bulk'[b] = v
           /\ \A c \in Bulks : c # b => bulk'[c] = bulk[c]
<1>1. TailTypes /\ TailPart
  BY DEF BookInv
<1>2. bulk'[b] = v /\ (\A c \in Bulks : c # b => bulk'[c] = bulk[c]) /\ TailTypes'
  BY <1>1 DEF TailTypes
<1>3. TailPart'
  BY <1>1, <1>2 DEF TailPart
<1> QED
  BY <1>2, <1>3

\* The request of an unsubscribeAll() keeps the invariant.
LEMMA BulkRequestsStep ==
    ASSUME BookInv, NEW b \in Bulks, BulkRequests(b), Same
    PROVE  BookInv'
<1>0. UNCHANGED <<domain, env, phase, session, reg, nextId, entries, patternsBySubId,
                  pending, pc, pat, waitsFor, held, aborted, ended, since, restore, tail,
                  skippedRestore>>
  BY DEF BulkRequests, Same, broker, calls
<1>1. HandlerPart /\ RequestPart /\ PhasePart /\ TailTypes /\ ReqTypes
  BY DEF BookInv
<1>2. /\ bulk[b] = "turn" /\ phase # "restoring"
      /\ bulk' = [bulk EXCEPT ![b] = "requesting"]
      /\ Request(b, "unsubscribeAll", Nobody, NoId)
  BY DEF BulkRequests
<1>3. b \in Owners \ {Restorer} /\ b \notin Patterns /\ b \notin Handlers
  BY OwnersApart
<1>4. req[b].st = "none"
  <2>1. bulk[b] # "requesting"
    BY <1>2
  <2> QED
    BY <1>1, <2>1 DEF RequestPart
<1>5. /\ TailTypes' /\ TailPart' /\ bulk'[b] = "requesting"
      /\ \A c \in Bulks : c # b => bulk'[c] = bulk[c]
  <2>1. skippedRestore' \in BOOLEAN
    BY <1>0, <1>1 DEF TailTypes
  <2> QED
    BY <1>0, <1>2, <2>1, BulkMoves
<1>6. /\ ReqTypes' /\ FramePart'
      /\ req' = [req EXCEPT ![b] = [st |-> IF MaySend(b) THEN "sent" ELSE "waiting",
                                    id |-> NoId]]
      /\ phase = "lost" => out' = out
  BY <1>0, <1>2, <1>3, <1>4, RequestSent
<1>7. req'[b].st # "none" /\ \A k \in Owners : k # b => req'[k] = req[k]
  BY <1>1, <1>3, <1>6 DEF ReqTypes
<1>8. PhasePart'
  BY <1>0, <1>2, <1>3, <1>6, RequestPhase
<1>9. HandlerPart'
  <2>1. \A k \in Handlers : pc[k] = "registering" => pat[k] \in Owners /\ pat[k] # b
    BY <1>1, <1>3, OwnersApart DEF HandlerPart
  <2> QED
    BY <1>0, <1>1, <1>3, <1>7, <2>1, OwnersApart DEF HandlerPart
<1>10. RequestPart'
  BY <1>0, <1>1, <1>3, <1>5, <1>7, OwnersApart DEF RequestPart
<1>11. /\ SessionTypes' /\ CallTypes' /\ MapTypes' /\ RestoreTypes' /\ EntryPart'
       /\ TodoPart' /\ MapPart' /\ NothingStranded'
  BY <1>0, Kept
<1> QED
  BY <1>5, <1>6, <1>8, <1>9, <1>10, <1>11 DEF BookInv

\* SetToSeq of a finite set lists its members, each once.
LEMMA SetToSeqOnce ==
    ASSUME NEW S, IsFiniteSet(S)
    PROVE  /\ SetToSeq(S) \in Seq(S)
           /\ \A i, j \in DOMAIN SetToSeq(S) : SetToSeq(S)[i] = SetToSeq(S)[j] => i = j
<1>1. PICK n \in Nat : n = Cardinality(S) /\ ExistsBijection(1..n, S)
  BY FS_CardinalityType
<1>2. \E f \in [1..n -> S] : IsInjective(f)
  BY <1>1 DEF ExistsBijection, Bijection, Injection
<1>3. SetToSeq(S) \in [1..n -> S] /\ IsInjective(SetToSeq(S))
  BY <1>1, <1>2 DEF SetToSeq
<1>4. SetToSeq(S) \in Seq(S)
  BY <1>3, SeqDef
<1> QED
  BY <1>3, <1>4 DEF IsInjective

\* Handlers in the map have begun; those whose handle is live have no request.
LEMMA LiveHandlers ==
    ASSUME BookInv
    PROVE  /\ Subscribed \subseteq Handlers /\ Live \subseteq Handlers
           /\ \A h \in Live : /\ pc[h] \in {"active", "detached"} /\ req[h].st = "none"
                              /\ pat[h] \in Patterns /\ entries[pat[h]] \in Entry
<1>1. MapTypes /\ EntryPart /\ HandlerPart
  BY DEF BookInv
<1>2. \A h \in Subscribed :
         h \in Handlers /\ pat[h] \in Patterns /\ entries[pat[h]] \in Entry
  <2> SUFFICES ASSUME NEW p \in Patterns, entries[p] # Nobody, NEW h \in entries[p].handlers
               PROVE  h \in Handlers /\ pat[h] \in Patterns /\ entries[pat[h]] \in Entry
    BY DEF Subscribed
  <2>1. entries[p] \in Entry
    BY <1>1 DEF MapTypes
  <2>2. pat[h] = p
    BY <1>1 DEF EntryPart
  <2> QED
    BY <2>1, <2>2 DEF Entry
<1>3. \A h \in Live : h \in Subscribed /\ pc[h] \in {"active", "detached"}
  BY DEF Live
<1> QED
  BY <1>1, <1>2, <1>3 DEF HandlerPart

\* The maps of a step that clears them, which no restoring session sees.
LEMMA MapsCleared ==
    ASSUME BookInv, ClearAll, phase' # "restoring", UNCHANGED <<domain, restore, pat>>,
           \A h \in Handlers : pc[h] # "idle" => pc'[h] # "idle"
    PROVE  MapTypes' /\ EntryPart' /\ TodoPart' /\ MapPart' /\ NothingStranded'
<1>1. MapTypes /\ EntryPart /\ MapPart /\ RestoreTypes
  BY DEF BookInv
<1>2. /\ entries' = [p \in Patterns |-> Nobody] /\ patternsBySubId' = [i \in Ids |-> Nobody]
      /\ pending' \subseteq pending
  BY DEF ClearAll
<1>3. MapTypes'
  BY <1>1, <1>2 DEF MapTypes
<1>4. EntryPart'
  <2>1. \A q \in Patterns : restore.done[q] # Nobody => restore.done[q].handlers \subseteq Handlers
    BY <1>1 DEF RestoreTypes, Entry
  <2> QED
    BY <1>1, <1>2, <2>1 DEF EntryPart
<1>5. TodoPart' /\ MapPart'
  BY <1>1, <1>2 DEF TodoPart, MapPart
<1>6. NothingStranded'
  BY <1>1, <1>2 DEF NothingStranded, Resolves, MapTypes
<1> QED
  BY <1>3, <1>4, <1>5, <1>6

\* The requests of a step that fails the handles: those of the handlers that send
\* their entry's UNSUBSCRIBE come on top of the others.
LEMMA FailingHandlesSend ==
    ASSUME BookInv, NEW b \in Bulks, Answered(b), phase # "restoring",
           NEW last \in SUBSET Live,
           req' = [o \in Owners |->
                     IF o = b THEN Idle
                     ELSE IF o \in last
                          THEN [st |-> IF MaySend(o) THEN "sent" ELSE "waiting", id |-> NoId]
                     ELSE req[o]],
           out' = IF phase = "ready"
                  THEN out \o SetToSeq({[op |-> h, kind |-> "unsubscribe", pat |-> pat[h],
                                         id |-> entries[pat[h]].id] : h \in last})
                  ELSE out,
           UNCHANGED <<phase, session, restore>>
    PROVE  /\ ReqTypes' /\ FramePart' /\ PhasePart' /\ req'[b].st = "none"
           /\ \A h \in last : req'[h].st \in {"sent", "waiting"}
           /\ \A o \in Owners : o # b /\ o \notin last => req'[o] = req[o]
<1> DEFINE frames == {[op |-> h, kind |-> "unsubscribe", pat |-> pat[h],
                       id |-> entries[pat[h]].id] : h \in last}
           s == SetToSeq(frames)
<1>1. ReqTypes /\ FramePart /\ PhasePart /\ SessionTypes
  BY DEF BookInv
<1>2. /\ last \subseteq Handlers /\ b \notin last
      /\ \A h \in last : /\ req[h].st = "none" /\ h \in Owners
                         /\ pat[h] \in Patterns /\ entries[pat[h]].id \in Ids
  BY LiveHandlers, OwnersApart DEF Entry
<1>3. /\ req'[b].st = "none"
      /\ \A h \in last : req'[h].st = IF phase = "ready" THEN "sent" ELSE "waiting"
      /\ \A o \in Owners : o # b /\ o \notin last => req'[o] = req[o]
  BY <1>2, OwnersApart DEF Idle, MaySend
<1>4. req' \in [Owners -> [st : Stages, id : Ids \cup {NoId}]]
  <2>1. \A o \in Owners : [st |-> IF MaySend(o) THEN "sent" ELSE "waiting", id |-> NoId]
                            \in [st : Stages, id : Ids \cup {NoId}]
    BY DEF Stages
  <2>2. Idle \in [st : Stages, id : Ids \cup {NoId}]
    BY DEF Stages, Idle
  <2> QED
    BY <1>1, <2>1, <2>2 DEF ReqTypes
<1>5. PhasePart' \/ phase = "ready"
  BY <1>1, <1>2, <1>3, OwnersApart DEF PhasePart, SessionTypes, Answered
<1>6. IsFiniteSet(frames)
  <2>1. IsFiniteSet(last)
    BY <1>2, SubAssumption, FS_Subset
  <2> DEFINE f == [h \in last |-> [op |-> h, kind |-> "unsubscribe", pat |-> pat[h],
                                   id |-> entries[pat[h]].id]]
  <2>2. f \in Surjection(last, frames)
    BY DEF Surjection
  <2> QED
    BY <2>1, <2>2, FS_Surjection
<1>7. \A g \in frames : /\ g \in Frame /\ g.op \in last /\ g.kind = "unsubscribe"
                        /\ g.pat \in Patterns
  BY <1>2 DEF Frame
<1>8. \A g1, g2 \in frames : g1.op = g2.op => g1 = g2
  OBVIOUS
<1>9. /\ s \in Seq(frames)
      /\ \A i, j \in DOMAIN s : s[i] = s[j] => i = j
  BY <1>6, SetToSeqOnce
<1>10. out' = IF phase = "ready" THEN out \o s ELSE out
  OBVIOUS
<1> HIDE DEF s, frames
<1>11. PICK m \in Nat : m = Len(s)
  BY <1>9
<1>12. /\ DOMAIN s = 1..m
       /\ \A i \in 1..m : s[i] \in frames
  BY <1>9, <1>11
<1>13. s \in Seq(Frame)
  BY <1>7, <1>9, <1>12
<1>14. ReqTypes'
  <2>1. out \o s \in Seq(Frame)
    BY <1>1, <1>13, ConcatProperties DEF ReqTypes
  <2> QED
    BY <1>1, <1>4, <1>10, <2>1 DEF ReqTypes
<1>15. PICK n \in Nat : n = Len(out)
  BY <1>1 DEF ReqTypes
<1>16. DOMAIN out = 1..n /\ \A i \in 1..n : out[i] \in Frame
  BY <1>1, <1>15 DEF ReqTypes
<1>17. \A i \in 1..n : out[i].op # Nobody =>
          /\ out[i].op \in Owners /\ out[i].op # b /\ out[i].op \notin last
          /\ req'[out[i].op] = req[out[i].op]
  BY <1>1, <1>2, <1>3, <1>16 DEF FramePart, Frame, Answered
<1>18. FramePart'
  <2>1. CASE out' = out
    BY <1>1, <1>16, <1>17, <2>1 DEF FramePart
  <2>2. CASE phase = "ready" /\ out' = out \o s
    <3>1. /\ DOMAIN out' = 1..(n + m)
          /\ \A i \in 1..(n + m) : out'[i] = IF i <= n THEN out[i] ELSE s[i - n]
      <4>1. out \in Seq(Frame)
        BY <1>1 DEF ReqTypes
      <4>2. /\ out \o s \in Seq(Frame) /\ Len(out \o s) = n + m
            /\ \A i \in 1..(n + m) : (out \o s)[i] = IF i <= n THEN out[i] ELSE s[i - n]
        BY <1>11, <1>13, <1>15, <4>1, ConcatProperties
      <4>3. DOMAIN (out \o s) = 1..(n + m)
        BY <4>2, LenProperties
      <4> QED
        BY <2>2, <4>2, <4>3
    <3>2. \A i \in 1..(n + m) : \/ i \in 1..n /\ out'[i] = out[i]
                                \/ /\ i > n /\ i - n \in 1..m /\ out'[i] = s[i - n]
                                   /\ out'[i].op \in last /\ out'[i].kind = "unsubscribe"
                                   /\ out'[i].pat \in Patterns
      <4> SUFFICES ASSUME NEW i \in 1..(n + m)
                   PROVE  \/ i \in 1..n /\ out'[i] = out[i]
                          \/ /\ i > n /\ i - n \in 1..m /\ out'[i] = s[i - n]
                             /\ out'[i].op \in last /\ out'[i].kind = "unsubscribe"
                             /\ out'[i].pat \in Patterns
        OBVIOUS
      <4>1. CASE i <= n
        BY <3>1, <4>1
      <4>2. CASE ~ i <= n
        <5>1. i > n /\ i - n \in 1..m
          BY <4>2
        <5>2. out'[i] = s[i - n]
          BY <3>1, <4>2
        <5>3. s[i - n] \in frames
          BY <1>12, <5>1
        <5> QED
          BY <1>7, <5>1, <5>2, <5>3
      <4> QED
        BY <4>1, <4>2
    <3>3. ASSUME NEW i \in 1..(n + m)
          PROVE  /\ out'[i].kind # "unsubscribeAll" => out'[i].pat \in Patterns
                 /\ out'[i].op # Nobody => req'[out'[i].op].st = "sent"
                 /\ out'[i].op \in Patterns => out'[i].kind = "subscribe"
                 /\ out'[i].op = Restorer /\ ~ restore.rolling => out'[i].kind = "subscribe"
      <4>1. CASE i \in 1..n /\ out'[i] = out[i]
        BY <1>1, <1>16, <1>17, <4>1 DEF FramePart
      <4>2. CASE /\ out'[i].op \in last /\ out'[i].kind = "unsubscribe"
                 /\ out'[i].pat \in Patterns
        <5>1. PICK h \in last : h = out'[i].op
          BY <4>2
        <5>2. h \in Handlers /\ req'[h].st = "sent"
          BY <1>2, <1>3, <2>2
        <5> QED
          BY <4>2, <5>1, <5>2, OwnersApart
      <4> QED
        BY <3>2, <4>1, <4>2
    <3>4. ASSUME NEW i \in 1..(n + m), NEW j \in 1..(n + m), out'[i].op = out'[j].op,
                 out'[i].op # Nobody
          PROVE  i = j
      <4>1. CASE i \in 1..n /\ j \in 1..n /\ out'[i] = out[i] /\ out'[j] = out[j]
        BY <1>1, <1>16, <3>4, <4>1 DEF FramePart
      <4>2. CASE /\ i - n \in 1..m /\ out'[i] = s[i - n]
                 /\ j - n \in 1..m /\ out'[j] = s[j - n]
        <5>1. s[i - n] \in frames /\ s[j - n] \in frames
          BY <1>12, <4>2
        <5>2. s[i - n] = s[j - n]
          BY <1>8, <3>4, <4>2, <5>1
        <5>3. i - n = j - n
          BY <1>9, <1>12, <4>2, <5>2
        <5> QED
          BY <5>3
      <4>3. ~ (i \in 1..n /\ out'[i] = out[i] /\ out'[j].op \in last)
        BY <1>17, <3>4
      <4>4. ~ (j \in 1..n /\ out'[j] = out[j] /\ out'[i].op \in last)
        BY <1>17, <3>4
      <4> QED
        BY <3>2, <4>1, <4>2, <4>3, <4>4
    <3> QED
      BY <3>1, <3>3, <3>4 DEF FramePart
  <2> QED
    BY <1>10, <2>1, <2>2
<1>19. PhasePart'
  BY <1>5 DEF PhasePart
<1> QED
  BY <1>3, <1>14, <1>18, <1>19

\* The settling of an unsubscribeAll() keeps the invariant: confirmed, it completes
\* every handle; failed after a skipped restore, it fails them.
LEMMA BulkSettlesStep ==
    ASSUME BookInv, NEW b \in Bulks, BulkSettles(b), Same
    PROVE  BookInv'
<1>0. UNCHANGED <<domain, env, phase, session, reg, nextId, pat, aborted, since, waitsFor,
                  restore, tail>>
  BY DEF BulkSettles, Same, broker
<1>1. /\ CallTypes /\ HandlerPart /\ RequestPart /\ PhasePart /\ ReqTypes /\ TailTypes
      /\ MapTypes
  BY DEF BookInv
<1>2. /\ bulk[b] = "requesting" /\ Answered(b) /\ skippedRestore' = FALSE
      /\ bulk' = [bulk EXCEPT ![b] = IF req[b].st = "ok" THEN "done" ELSE "failed"]
  BY DEF BulkSettles
<1>3. b \in Owners /\ b # Restorer /\ b \notin Patterns /\ b \notin Handlers
  BY OwnersApart
<1>4. phase # "restoring"
  BY <1>1, <1>2 DEF PhasePart
<1>5. /\ Subscribed \subseteq Handlers /\ Live \subseteq Handlers
      /\ \A h \in Live : /\ pc[h] \in {"active", "detached"} /\ req[h].st = "none"
                         /\ pat[h] \in Patterns /\ entries[pat[h]] \in Entry
  BY LiveHandlers
<1>6. PICK last \in SUBSET Live :
         /\ pc' \in [Handlers -> PcValues]
         /\ \A h \in Handlers :
               IF h \in last THEN pc'[h] = "unsubscribing"
               ELSE pc'[h] = pc[h] \/ (h \in Live /\ pc'[h] = "done")
         /\ held' \in [Handlers -> Ids \cup {NoId}] /\ ended' \subseteq Handlers
         /\ \A h \in Handlers : IF h \in last THEN held'[h] \in Ids ELSE held'[h] = held[h]
         /\ ReqTypes' /\ FramePart' /\ PhasePart'
         /\ req'[b].st = "none" /\ (\A h \in last : req'[h].st # "none")
         /\ \A o \in Owners : o # b /\ o \notin last => req'[o] = req[o]
         /\ ClearAll \/ UNCHANGED <<entries, patternsBySubId, pending>>
  <2>1. CASE /\ req' = [req EXCEPT ![b] = Idle] /\ UNCHANGED <<held, out>>
             /\ \/ BulkSucceeds(b)
                \/ UNCHANGED <<entries, patternsBySubId, pending, pc, ended>>
    <3>1. /\ ReqTypes' /\ FramePart' /\ req'[b].st = "none"
          /\ \A o \in Owners : o # b => req'[o] = req[o]
      BY <1>0, <1>2, <1>3, <2>1, AnswerTaken
    <3>2. PhasePart'
      <4>1. \A c \in Bulks : bulk'[c] # "requesting" \/ bulk'[c] = bulk[c]
        BY <1>1, <1>2 DEF TailTypes
      <4> QED
        BY <1>0, <1>1, <1>4, <2>1, <3>1 DEF PhasePart
    <3>3. /\ pc' \in [Handlers -> PcValues]
          /\ \A h \in Handlers : pc'[h] = pc[h] \/ (h \in Live /\ pc'[h] = "done")
      BY <1>1, <2>1 DEF BulkSucceeds, CallTypes, PcValues
    <3>4. /\ held' \in [Handlers -> Ids \cup {NoId}] /\ ended' \subseteq Handlers
          /\ \A h \in Handlers : held'[h] = held[h]
      BY <1>1, <1>5, <2>1 DEF BulkSucceeds, CallTypes
    <3>5. ClearAll \/ UNCHANGED <<entries, patternsBySubId, pending>>
      BY <2>1 DEF BulkSucceeds
    <3> QED
      <4> WITNESS {} \in SUBSET Live
      <4> QED
        BY <3>1, <3>2, <3>3, <3>4, <3>5
  <2>2. CASE BulkFailsHandles(b)
    <3> DEFINE last == {h \in Live : entries[pat[h]].handlers \subseteq Live
                                     /\ h = CHOOSE k \in entries[pat[h]].handlers : TRUE}
    <3>1. last \in SUBSET Live
      OBVIOUS
    <3>2. /\ ClearAll /\ ended' = ended \cup Live
          /\ pc' = [h \in Handlers |-> IF h \in last THEN "unsubscribing"
                                       ELSE IF h \in Live THEN "done" ELSE pc[h]]
          /\ held' = [h \in Handlers |-> IF h \in last THEN entries[pat[h]].id ELSE held[h]]
          /\ req' = [o \in Owners |->
                       IF o = b THEN Idle
                       ELSE IF o \in last
                            THEN [st |-> IF MaySend(o) THEN "sent" ELSE "waiting", id |-> NoId]
                       ELSE req[o]]
          /\ out' = IF phase = "ready"
                    THEN out \o SetToSeq({[op |-> h, kind |-> "unsubscribe", pat |-> pat[h],
                                           id |-> entries[pat[h]].id] : h \in last})
                    ELSE out
      BY <2>2 DEF BulkFailsHandles
    <3> HIDE DEF last
    <3>3. /\ ReqTypes' /\ FramePart' /\ PhasePart' /\ req'[b].st = "none"
          /\ \A h \in last : req'[h].st \in {"sent", "waiting"}
          /\ \A o \in Owners : o # b /\ o \notin last => req'[o] = req[o]
      BY <1>0, <1>2, <1>4, <3>1, <3>2, FailingHandlesSend
    <3>4. /\ pc' \in [Handlers -> PcValues]
          /\ \A h \in Handlers :
                IF h \in last THEN pc'[h] = "unsubscribing"
                ELSE pc'[h] = pc[h] \/ (h \in Live /\ pc'[h] = "done")
      BY <1>1, <3>2 DEF CallTypes, PcValues
    <3>5. /\ held' \in [Handlers -> Ids \cup {NoId}] /\ ended' \subseteq Handlers
          /\ \A h \in Handlers : IF h \in last THEN held'[h] \in Ids
                                 ELSE held'[h] = held[h]
      <4>1. \A h \in last : entries[pat[h]].id \in Ids
        BY <1>5, <3>1 DEF Entry
      <4> QED
        BY <1>1, <1>5, <3>2, <4>1 DEF CallTypes
    <3> QED
      <4> WITNESS last \in SUBSET Live
      <4> QED
        BY <3>2, <3>3, <3>4, <3>5
  <2> QED
    BY <2>1, <2>2 DEF BulkSettles, BulkSucceeds
<1>7. \A h \in Live : h \in Handlers /\ pc[h] \in {"active", "detached"} /\ req[h].st = "none"
  BY <1>5
<1>8. \A h \in Handlers : pc'[h] = pc[h] \/ (pc[h] \notin {"idle", "queued"}
                                            /\ pc'[h] \notin {"idle", "queued"})
  BY <1>6, <1>7
<1>9. /\ TailTypes' /\ TailPart' /\ bulk'[b] \in {"done", "failed"}
      /\ \A c \in Bulks : c # b => bulk'[c] = bulk[c]
  BY <1>0, <1>2, <1>8, BulkMoves
<1>10. CallTypes'
  BY <1>0, <1>1, <1>6 DEF CallTypes
<1>11. HandlerPart'
  <2>1. \A h \in Handlers : pc[h] = "registering" =>
           pat[h] \in Owners /\ pat[h] # b /\ pat[h] \notin last
    BY <1>1, <1>3, <1>5, OwnersApart DEF HandlerPart
  <2>2. \A h \in Handlers : h \in Owners /\ h # b
    BY <1>3, OwnersApart
  <2> QED
    BY <1>0, <1>1, <1>6, <1>7, <2>1, <2>2 DEF HandlerPart
<1>12. RequestPart'
  <2>1. \A o \in Patterns \cup Bulks \cup {Restorer} : o \in Owners /\ o \notin last
    BY <1>5, OwnersApart
  <2> QED
    BY <1>0, <1>1, <1>2, <1>3, <1>6, <1>9, <2>1 DEF RequestPart
<1>13. MapTypes' /\ EntryPart' /\ TodoPart' /\ MapPart' /\ NothingStranded'
  <2>1. \A h \in Handlers : pc[h] # "idle" => pc'[h] # "idle" /\ pat'[h] = pat[h]
    BY <1>0, <1>8
  <2>2. CASE ClearAll
    BY <1>0, <1>4, <2>1, <2>2, MapsCleared
  <2>3. CASE UNCHANGED <<entries, patternsBySubId, pending>>
    <3>1. MapTypes' /\ TodoPart' /\ MapPart' /\ NothingStranded'
      BY <1>0, <2>3, Kept
    <3>2. EntryPart'
      BY <1>0, <2>1, <2>3, EntriesUntouched
    <3> QED
      BY <3>1, <3>2
  <2> QED
    BY <1>6, <2>2, <2>3
<1>14. SessionTypes' /\ RestoreTypes'
  BY <1>0, Kept
<1> QED
  BY <1>6, <1>9, <1>10, <1>11, <1>12, <1>13, <1>14 DEF BookInv

-------------------------------------------------------------------------------
(* Every step, and the theorems *)

\* Every step of every client keeps the invariant.
LEMMA NextKeeps == BookInv /\ [Next]_nvars => BookInv'
<1> SUFFICES ASSUME BookInv, [Next]_nvars PROVE BookInv'
  OBVIOUS
<1>1. CASE UNCHANGED nvars
  BY <1>1, Kept DEF nvars, vars, notice, BookInv
<1>2. CASE (Continue \/ SendStep \/ RestoreStep \/ HandleStep) /\ Still /\ Same
  <2>1. CASE SendStep
    BY <1>2, <2>1, SendWaitingStep DEF SendStep
  <2>2. CASE RestoreStep
    BY <1>2, <2>2, RestorerSendsStep, RestoreEntryStep, RestoreUnwindsStep,
       RestoreGivesUpStep DEF RestoreStep
  <2> QED
    BY <1>2, <2>1, <2>2, ContinueKeeps, HandleStepKeeps
<1>3. CASE ((BrokerStep /\ Still) \/ BrokerUnsubscribesAll) /\ Same
  BY <1>3, BrokerStepKeeps
<1>4. CASE WorldStep /\ Still /\ Same
  BY <1>4, NotifyStep, RequestTimesOutStep, LossStep DEF WorldStep
<1>5. CASE (Reconnects \/ SkipRestore) /\ Same
  BY <1>5, ReconnectStep, SkipRestoreStep
<1>6. CASE (\E h \in Handlers, p \in Patterns : Subscribe(h, p)) /\ Still /\ Same
  BY <1>6, LookUpStep DEF Subscribe
<1>7. CASE /\ \/ BulkStep
              \/ \E h \in Handlers, p \in Patterns : NoticeSubscribe(h, p)
              \/ \E b \in Bulks : BulkCall(b)
           /\ Same
  BY <1>7, ReleaseStep, BulkRequestsStep, BulkSettlesStep, NoticeSubscribeStep, BulkCallStep
     DEF BulkStep
<1> QED
  BY <1>1, <1>2, <1>3, <1>4, <1>5, <1>6, <1>7 DEF Next

\* The bookkeeping invariant holds throughout, for every client and environment:
\* maps, requests, frames, restore and tail fit together.
THEOREM NoticeCorrect == Spec => []BookInv
<1>1. NInit => BookInv
  BY InitBook
<1>2. BookInv /\ [Next]_nvars => BookInv'
  BY NextKeeps
<1> QED
  BY <1>1, <1>2, PTL DEF Spec

\* The variables have their types, and a subscribe() that registers always shares
\* a SUBSCRIBE that is under way (registerSingleFlight()).
THEOREM NoticeTypeCorrect == Spec => []NTypeOK
<1>1. BookInv /\ spoiled \subseteq Patterns => NTypeOK
  <2> SUFFICES ASSUME BookInv, spoiled \subseteq Patterns PROVE NTypeOK
    OBVIOUS
  <2>1. /\ SessionTypes /\ CallTypes /\ MapTypes /\ ReqTypes /\ RestoreTypes /\ TailTypes
        /\ HandlerPart
    BY DEF BookInv
  <2>2. \A i \in DOMAIN out : out[i] \in Frame
    BY <2>1 DEF ReqTypes
  <2> QED
    BY <2>1, <2>2 DEF NTypeOK, TypeOK, SessionTypes, CallTypes, MapTypes, ReqTypes,
       RestoreTypes, TailTypes, HandlerPart, Frame, Stages, PcValues
<1>2. NInit => spoiled \subseteq Patterns
  BY DEF NInit
<1>3. spoiled \subseteq Patterns /\ [Next]_nvars => (spoiled \subseteq Patterns)'
  <2>1. Next => spoiled' \subseteq Patterns
    BY DEF Next, Same, Remember
  <2> QED
    BY <2>1 DEF nvars
<1>4. Spec => [](spoiled \subseteq Patterns)
  BY <1>2, <1>3, PTL DEF Spec
<1> QED
  BY <1>1, <1>4, NoticeCorrect, PTL

\* A buffered notification never waits under a subId that resolves: whichever of
\* subscribe(), unsubscribe(), restore and unsubscribeAll() changed the maps, the
\* buffer was flushed with them (pendingNotifications.flush()).
THEOREM NoticeNothingStranded == Spec => []NothingStranded
<1>1. BookInv => NothingStranded
  BY DEF BookInv
<1> QED
  BY <1>1, NoticeCorrect, PTL

===============================================================================
