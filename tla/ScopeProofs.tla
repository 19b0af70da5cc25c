------------------------------ MODULE ScopeProofs ------------------------------
(***************************************************************************)
(* Proofs about TaskGroup and Scope, for every set of workers, of leaves,  *)
(* of error policies and of scenes, and every number of runs.              *)
(***************************************************************************)
EXTENDS Scope, SequenceTheorems, TLAPS

--------------------------------------------------------------------------------
(* The task group *)

Ended == {"stopped", "failed"}

\* The inductive invariant of a task group: the current promise is settled just
\* when the group is at an end, then no task is left; state.error is the failure
\* that struck the current run; and a settled promise was rejected if that failure
\* tests true.
GroupPart ==
    /\ GroupTypeOK
    /\ \A r \in 1..MaxRuns : r > run => promise[r] = "pending"
    /\ promise[run] # "pending" <=> status \in Ended
    /\ status \in {"idle"} \cup Ended => \A w \in Workers : task[w] = "none"
    /\ status = "idle" => error = "none"
    /\ struck[run] = error
    /\ \A r \in 1..MaxRuns : r > run => struck[r] = "none"
    /\ \A r \in 1..run : promise[r] # "pending" => (promise[r] = "rejected" <=> struck[r] = "error")

\* A new group satisfies the invariant.
LEMMA GroupStarts == GroupInit => GroupPart
<1> SUFFICES ASSUME GroupInit PROVE GroupPart
  OBVIOUS
<1>1. GroupTypeOK
  <2>1. run \in 1..MaxRuns /\ 0 \in 0..MaxRestarts
    BY TaskGroupAssumption DEF GroupInit
  <2>2. promise \in [1..MaxRuns -> {"pending", "resolved", "rejected"}]
    BY DEF GroupInit
  <2>3. task \in [Workers -> {"none", "running", "ended"}]
    BY DEF GroupInit
  <2>4. struck \in [1..MaxRuns -> Failures \cup {"none"}]
    BY DEF GroupInit
  <2> QED
    BY <2>1, <2>2, <2>3, <2>4 DEF GroupInit, GroupTypeOK
<1> QED
  BY <1>1, TaskGroupAssumption DEF GroupInit, GroupPart, Ended

\* start(): the new run has a promise of its own that nobody has settled.
LEMMA StartGroupStep ==
    ASSUME GroupPart, StartGroup
    PROVE  GroupPart'
<1>0. /\ GroupTypeOK /\ MaxRuns \in Nat \ {0} /\ run \in 1..MaxRuns /\ run' \in 1..MaxRuns
      /\ status' = "running" /\ error' = "none" /\ promise' = promise /\ struck' = struck
  BY TaskGroupAssumption DEF GroupPart, StartGroup, GroupTypeOK
<1>1. GroupTypeOK'
  <2>1. task' \in [Workers -> {"none", "running", "ended"}]
    BY DEF StartGroup
  <2> QED
    BY <1>0, <2>1 DEF StartGroup, GroupTypeOK
<1>2. CASE status = "idle"
  BY <1>0, <1>1, <1>2 DEF StartGroup, GroupPart, Ended
<1>3. CASE status = "stopped"
  <2>1. run' = run + 1 /\ struck[run'] = "none"
    BY <1>0, <1>3 DEF StartGroup, GroupPart
  <2>2. \A r \in 1..run' : r \in 1..run \/ r = run'
    BY <1>0, <2>1
  <2>3. promise[run'] = "pending" /\ \A r \in 1..MaxRuns : r > run' => r > run
    BY <1>0, <2>1 DEF GroupPart
  <2> QED
    BY <1>0, <1>1, <2>1, <2>2, <2>3 DEF GroupPart, Ended
<1> QED
  BY <1>2, <1>3 DEF StartGroup

\* stop(): a group that never ran is over at once, a running one is told.
LEMMA StopGroupStep ==
    ASSUME GroupPart, StopGroup
    PROVE  GroupPart'
<1>0. /\ GroupTypeOK /\ MaxRuns \in Nat \ {0} /\ run \in 1..MaxRuns
      /\ UNCHANGED <<policy, error, run, task, restarts, struck>>
      /\ promise \in [1..MaxRuns -> {"pending", "resolved", "rejected"}]
      /\ status \in {"idle", "running", "stopping", "stopped", "failed"}
  BY TaskGroupAssumption DEF GroupPart, StopGroup, GroupTypeOK
<1>1. aborted' \in BOOLEAN
  BY DEF StopGroup
<1>2. CASE status = "idle"
  <2>1. status' = "stopped" /\ promise' = [promise EXCEPT ![run] = "resolved"]
    BY <1>2 DEF StopGroup
  <2>2. GroupTypeOK'
    BY <1>0, <1>1, <2>1 DEF GroupTypeOK
  <2>3. /\ promise'[run] = "resolved"
        /\ \A r \in 1..MaxRuns : r # run => promise'[r] = promise[r]
    BY <1>0, <2>1
  <2>4. \A r \in 1..MaxRuns : r > run => r # run
    BY <1>0
  <2>5. \A r \in 1..run : r \in 1..MaxRuns
    BY <1>0
  <2> QED
    BY <1>0, <1>2, <2>1, <2>2, <2>3, <2>4, <2>5 DEF GroupPart, Ended
<1>3. CASE status # "idle"
  <2>1. promise' = promise /\ status' = IF status = "running" THEN "stopping" ELSE status
    BY <1>3 DEF StopGroup
  <2>2. GroupTypeOK'
    BY <1>0, <1>1, <2>1 DEF GroupTypeOK
  <2> QED
    BY <1>0, <1>3, <2>1, <2>2 DEF GroupPart, Ended
<1> QED
  BY <1>2, <1>3

\* A worker's iteration ends; under "stop-group" a failure strikes the run.
LEMMA RunSettlesStep ==
    ASSUME GroupPart, NEW w \in Workers, NEW how \in {"ok", "abort"} \cup Failures,
           RunSettles(w, how)
    PROVE  GroupPart'
<1>0. /\ GroupTypeOK /\ MaxRuns \in Nat \ {0} /\ MaxRestarts \in Nat /\ run \in 1..MaxRuns
      /\ UNCHANGED <<policy, run, promise>> /\ task[w] = "running"
      /\ "none" \notin Failures
  BY TaskGroupAssumption DEF GroupPart, RunSettles, GroupTypeOK, Failures
<1>1. status \in {"running", "stopping"} /\ promise[run] = "pending"
  BY <1>0 DEF GroupPart, GroupTypeOK, Ended
<1>2. CASE UNCHANGED <<status, error, aborted, restarts, struck>>
           /\ task' = [task EXCEPT ![w] = "ended"]
  <2>1. GroupTypeOK'
    BY <1>0, <1>2 DEF GroupTypeOK
  <2> QED
    BY <1>0, <1>1, <1>2, <2>1 DEF GroupPart, Ended
<1>3. CASE how \in Failures /\ HandleWorkerError(how) /\ UNCHANGED restarts
           /\ task' = [task EXCEPT ![w] = "ended"]
  <2>1. /\ error' = how /\ status' = "stopping" /\ aborted' = TRUE
        /\ struck' = [struck EXCEPT ![run] = how]
    BY <1>3 DEF HandleWorkerError
  <2>2. GroupTypeOK'
    <3>1. struck' \in [1..MaxRuns -> Failures \cup {"none"}]
      BY <1>0, <1>3, <2>1 DEF GroupTypeOK
    <3> QED
      BY <1>0, <1>3, <2>1, <3>1 DEF GroupTypeOK
  <2>3. struck'[run] = how /\ \A r \in 1..MaxRuns : r # run => struck'[r] = struck[r]
    BY <1>0, <2>1 DEF GroupTypeOK
  <2>4. \A r \in 1..run : r \in 1..MaxRuns
    BY <1>0
  <2> QED
    BY <1>0, <1>1, <1>3, <2>1, <2>2, <2>3, <2>4 DEF GroupPart, Ended
<1>4. CASE /\ restarts < MaxRestarts /\ restarts' = restarts + 1
           /\ UNCHANGED <<status, error, aborted, task, struck>>
  <2>1. GroupTypeOK'
    BY <1>0, <1>4 DEF GroupTypeOK
  <2> QED
    BY <1>0, <1>1, <1>4, <2>1 DEF GroupPart, Ended
<1> QED
  BY <1>2, <1>3, <1>4 DEF RunSettles

\* A task leaves the set; the last one completes the run.
LEMMA UntrackStep ==
    ASSUME GroupPart, NEW w \in Workers, Untrack(w)
    PROVE  GroupPart'
<1>0. /\ GroupTypeOK /\ MaxRuns \in Nat \ {0} /\ run \in 1..MaxRuns
      /\ UNCHANGED <<policy, error, aborted, run, restarts, struck>> /\ task[w] = "ended"
      /\ task' = [task EXCEPT ![w] = "none"]
      /\ promise \in [1..MaxRuns -> {"pending", "resolved", "rejected"}]
      /\ task \in [Workers -> {"none", "running", "ended"}]
  BY TaskGroupAssumption DEF GroupPart, Untrack, GroupTypeOK
<1>1. status \in {"running", "stopping"} /\ promise[run] = "pending"
  BY <1>0 DEF GroupPart, GroupTypeOK, Ended
<1>2. CASE \A v \in Workers \ {w} : task[v] = "none"
  <2>1. Complete
    BY <1>2 DEF Untrack, MaybeFinish
  <2>2. \A v \in Workers : task'[v] = "none"
    BY <1>0, <1>2
  <2>3. PICK o \in {"resolved", "rejected"} :
           /\ promise' = [promise EXCEPT ![run] = o]
           /\ o = "rejected" <=> error = "error"
           /\ status' \in Ended
    BY <2>1 DEF Complete, Ended
  <2>4. GroupTypeOK'
    BY <1>0, <2>3 DEF GroupTypeOK, Ended
  <2>5. /\ promise'[run] = o
        /\ \A r \in 1..MaxRuns : r # run => promise'[r] = promise[r]
    BY <1>0, <2>3
  <2>6. \A r \in 1..MaxRuns : r > run => r # run
    BY <1>0
  <2>7. \A r \in 1..run : r \in 1..MaxRuns
    BY <1>0
  <2> QED
    BY <1>0, <2>2, <2>3, <2>4, <2>5, <2>6, <2>7 DEF GroupPart, Ended
<1>3. CASE ~ \A v \in Workers \ {w} : task[v] = "none"
  <2>1. UNCHANGED <<status, promise>>
    BY <1>3 DEF Untrack, MaybeFinish
  <2>2. GroupTypeOK'
    BY <1>0, <2>1 DEF GroupTypeOK
  <2> QED
    BY <1>0, <1>1, <2>1, <2>2 DEF GroupPart, Ended
<1> QED
  BY <1>2, <1>3

\* Every step keeps the group's invariant, and no promise becomes pending again.
LEMMA GroupKeeps ==
    ASSUME GroupPart, GroupStep \/ UNCHANGED groupVars
    PROVE  /\ GroupPart'
           /\ \A r \in 1..MaxRuns : promise[r] # "pending" => promise'[r] # "pending"
<1>1. CASE StartGroup
  BY <1>1, StartGroupStep DEF StartGroup
<1>2. CASE StopGroup
  BY <1>2, StopGroupStep DEF StopGroup, GroupPart, GroupTypeOK
<1>3. ASSUME NEW w \in Workers, Untrack(w)
      PROVE  /\ GroupPart'
             /\ \A r \in 1..MaxRuns : promise[r] # "pending" => promise'[r] # "pending"
  <2>1. \/ promise' = promise
        \/ promise' = [promise EXCEPT ![run] = "rejected"]
        \/ promise' = [promise EXCEPT ![run] = "resolved"]
    BY <1>3 DEF Untrack, MaybeFinish, Complete
  <2>2. promise \in [1..MaxRuns -> {"pending", "resolved", "rejected"}]
    BY DEF GroupPart, GroupTypeOK
  <2> QED
    BY <1>3, <2>1, <2>2, UntrackStep
<1>4. ASSUME NEW w \in Workers, NEW how \in {"ok", "abort"} \cup Failures, RunSettles(w, how)
      PROVE  /\ GroupPart'
             /\ \A r \in 1..MaxRuns : promise[r] # "pending" => promise'[r] # "pending"
  BY <1>4, RunSettlesStep DEF RunSettles
<1>5. CASE UNCHANGED groupVars
  BY <1>5 DEF groupVars, GroupPart, GroupTypeOK
<1> QED
  BY <1>1, <1>2, <1>3, <1>4, <1>5 DEF GroupStep

\* A step of the whole is a step of the task group or leaves it alone.
LEMMA StepIsGroupStep == [Next]_vars => GroupStep \/ UNCHANGED groupVars
<1> SUFFICES ASSUME [Next]_vars PROVE GroupStep \/ UNCHANGED groupVars
  OBVIOUS
<1>1. ASSUME NEW c \in Containers, DisposeResource(c) PROVE GroupStep \/ UNCHANGED groupVars
  BY <1>1 DEF DisposeResource, GroupStep
<1>2. ASSUME NEW c \in Containers, NEW x \in Resources, Add(c, x) PROVE UNCHANGED groupVars
  BY <1>2 DEF Add
<1>3. ASSUME NEW c \in Containers, Dispose(c) \/ ResourceDisposed(c) \/ Disposed(c)
      PROVE  UNCHANGED groupVars
  BY <1>3 DEF Dispose, ResourceDisposed, Disposed
<1>4. ASSUME NEW x \in Leaves, NEW ok \in BOOLEAN, LeafCloses(x, ok) PROVE UNCHANGED groupVars
  BY <1>4 DEF LeafCloses
<1>5. CASE UNCHANGED vars
  BY <1>5 DEF vars
<1> QED
  BY <1>1, <1>2, <1>3, <1>4, <1>5 DEF Next

\* A task group keeps its invariant for ever, also when a scope stops it.
THEOREM GroupCorrect == Spec => []GroupPart
<1>1. Init => GroupPart
  BY GroupStarts DEF Init
<1>2. GroupPart /\ [Next]_vars => GroupPart'
  BY GroupKeeps, StepIsGroupStep
<1> QED
  BY <1>1, <1>2, PTL DEF Spec

\* join() and stop() settle when no worker of their run is left, and reject
\* exactly when the failure of a worker stopped it and tests true, whatever the
\* workers reject with and however often the group is started again.
THEOREM JoinIsTruthful == Spec => []JoinTellsTheOutcome
<1>1. GroupPart => JoinTellsTheOutcome
  BY DEF GroupPart, Ended, JoinTellsTheOutcome
<1> QED
  BY <1>1, GroupCorrect, PTL

--------------------------------------------------------------------------------
(* Scopes: the inductive invariant *)

\* The lists of a container: open, it will dispose of all it accepted; while it
\* disposes, what is left is the beginning of that, backwards; what it awaits
\* is the next one.
ListOK(c) ==
    /\ stage[c] = "absent" => added[c] = <<>>
    /\ stage[c] \in {"absent", "open"} => resources[c] = added[c] /\ todo[c] = <<>>
    /\ stage[c] = "disposing" =>
          /\ Len(todo[c]) <= Len(added[c])
          /\ \A i \in 1..Len(todo[c]) : todo[c][i] = added[c][Len(todo[c]) + 1 - i]
    /\ stage[c] = "disposed" => todo[c] = <<>>
    /\ busy[c] # Nothing =>
          stage[c] = "disposing" /\ todo[c] # <<>> /\ busy[c] = Head(todo[c])

ListPart == \A c \in Containers : ListOK(c)

\* No resource is in two places, none contains itself, and those that exist are
\* in some container.
Holds(x) == \E c \in Containers : \E i \in 1..Len(added[c]) : added[c][i] = x

OncePart ==
    /\ \A c, d \in Containers : \A i \in 1..Len(added[c]), j \in 1..Len(added[d]) :
          added[c][i] = added[d][j] => c = d /\ i = j
    /\ \A c \in Containers : \A i \in 1..Len(added[c]) : added[c][i] # c
    /\ \A x \in {Child, Group} : stage[x] # "absent" <=> Holds(x)

\* The i-th resource of c has yet to be asked to release itself.
Waits(c, i) ==
    \/ stage[c] = "open"
    \/ stage[c] = "disposing" /\ (i < Len(todo[c]) \/ (i = Len(todo[c]) /\ busy[c] = Nothing))

\* A subscription group is closed by its container or by the application: when
\* the container finds it closed (and does not wait), it was the application.
SharePart ==
    /\ \A c \in Containers : \A i \in 1..Len(added[c]) :
          added[c][i] = Group /\ Waits(c, i) => stage[Group] = "open" \/ Group \in byApp
    /\ \A c \in Containers : busy[c] = Group /\ shared[c] =>
          Group \in byApp /\ stage[Group] \in {"disposing", "disposed"}
    /\ \A c \in Containers : busy[c] = Crew => awaited # 0

\* The types of the scopes' own variables.
ScopeTypes ==
    /\ scene \in Scenes /\ byApp \subseteq Containers /\ awaited \in 0..MaxRuns
    /\ stage \in [Containers -> {"absent", "open", "disposing", "disposed"}]
    /\ resources \in [Containers -> Seq(scene)]
    /\ todo \in [Containers -> Seq(scene)]
    /\ added \in [Containers -> Seq(scene)]
    /\ busy \in [Containers -> scene \cup {Nothing}]
    /\ shared \in [Containers -> BOOLEAN] /\ failed \in [Containers -> BOOLEAN]
    /\ leaf \in [Leaves -> {"new", "held", "closing", "closed"}]

ScopeInv ==
    GroupPart /\ ScopeTypes /\ ListPart /\ OncePart /\ SharePart /\ ReleasesNewestFirst

--------------------------------------------------------------------------------
(* Facts about the lists *)

\* The resources of a scene are no container's name but Child's and Group's.
LEMMA SceneFacts ==
    ASSUME ScopeTypes
    PROVE  /\ scene \subseteq Resources
           /\ Nothing \notin scene /\ Root \notin scene
           /\ Containers = {Root, Child, Group}
           /\ \A x \in scene : x \in Leaves \/ x = Child \/ x = Group \/ x = Crew
           /\ \A x \in Leaves : x \notin Containers /\ x # Crew
           /\ Crew \notin Containers
BY ScopeAssumption DEF ScopeTypes, Resources, Containers

\* Every list is a sequence of the scene's resources.
LEMMA ListFacts ==
    ASSUME ScopeTypes, NEW c \in Containers
    PROVE  /\ added[c] \in Seq(scene) /\ todo[c] \in Seq(scene) /\ resources[c] \in Seq(scene)
           /\ Len(added[c]) \in Nat /\ Len(todo[c]) \in Nat
           /\ \A i \in 1..Len(added[c]) : added[c][i] \in scene
<1>1. added[c] \in Seq(scene) /\ todo[c] \in Seq(scene) /\ resources[c] \in Seq(scene)
  BY DEF ScopeTypes
<1> QED
  BY <1>1, LenProperties, ElementOfSeq

\* The resource that a disposing container comes to next is the newest one of
\* those it has left.
LEMMA NextResource ==
    ASSUME ScopeTypes, NEW c \in Containers, ListOK(c), stage[c] = "disposing", todo[c] # <<>>
    PROVE  /\ Len(todo[c]) \in 1..Len(added[c]) /\ Len(todo[c]) >= 1
           /\ Head(todo[c]) = added[c][Len(todo[c])]
           /\ Head(todo[c]) \in scene
<1>0. todo[c] \in Seq(scene) /\ Len(added[c]) \in Nat /\ Len(todo[c]) \in Nat
  BY ListFacts
<1>1. Len(todo[c]) # 0
  BY <1>0, EmptySeq
<1>2. Head(todo[c]) = todo[c][1] /\ Head(todo[c]) \in scene
  BY <1>0, HeadTailProperties
<1>3. Len(todo[c]) <= Len(added[c]) /\ todo[c][1] = added[c][Len(todo[c]) + 1 - 1]
  BY <1>0, <1>1 DEF ListOK
<1>4. Len(todo[c]) + 1 - 1 = Len(todo[c])
  BY <1>0
<1> QED
  BY <1>0, <1>1, <1>2, <1>3, <1>4

\* What dispose() does before its first await: all that was accepted, backwards.
LEMMA BeginsEffect ==
    ASSUME ScopeTypes, NEW x \in Containers, ListOK(x), Begins(x)
    PROVE  /\ todo' \in [Containers -> Seq(scene)] /\ resources' \in [Containers -> Seq(scene)]
           /\ stage' \in [Containers -> {"absent", "open", "disposing", "disposed"}]
           /\ \A d \in Containers : d # x \/ stage[x] # "open" =>
                 stage'[d] = stage[d] /\ todo'[d] = todo[d] /\ resources'[d] = resources[d]
           /\ stage[x] = "open" =>
                 /\ stage'[x] = "disposing"
                 /\ Len(todo'[x]) = Len(added[x])
                 /\ \A i \in 1..Len(added[x]) : todo'[x][i] = added[x][Len(added[x]) + 1 - i]
<1>0. /\ added[x] \in Seq(scene) /\ Len(added[x]) \in Nat
      /\ stage \in [Containers -> {"absent", "open", "disposing", "disposed"}]
      /\ todo \in [Containers -> Seq(scene)] /\ resources \in [Containers -> Seq(scene)]
  BY ListFacts DEF ScopeTypes
<1>1. CASE stage[x] # "open"
  <2>1. UNCHANGED <<stage, todo, resources>>
    BY <1>1 DEF Begins
  <2> QED
    BY <1>0, <1>1, <2>1
<1>2. CASE stage[x] = "open"
  <2>1. /\ stage' = [stage EXCEPT ![x] = "disposing"]
        /\ todo' = [todo EXCEPT ![x] = Reverse(added[x])]
        /\ resources' = [resources EXCEPT ![x] = <<>>]
    BY <1>2 DEF Begins, ListOK
  <2>2. PICK q \in Seq(scene) : /\ q = Reverse(added[x]) /\ Len(q) = Len(added[x])
                                /\ \A i \in 1..Len(added[x]) : q[i] = added[x][Len(added[x]) + 1 - i]
    <3>1. /\ Reverse(added[x]) \in Seq(scene) /\ Len(Reverse(added[x])) = Len(added[x])
          /\ \A i \in 1..Len(added[x]) : Reverse(added[x])[i] = added[x][Len(added[x]) - i + 1]
      BY <1>0 DEF Reverse
    <3>2. \A i \in 1..Len(added[x]) : Len(added[x]) - i + 1 = Len(added[x]) + 1 - i
      BY <1>0
    <3> QED
      BY <3>1, <3>2
  <2>3. <<>> \in Seq(scene)
    BY EmptySeq
  <2> QED
    BY <1>0, <1>2, <2>1, <2>2, <2>3
<1> QED
  BY <1>1, <1>2

\* The list of a container that a step does not touch.
LEMMA ListKept ==
    ASSUME NEW d, ListOK(d), stage'[d] = stage[d], todo'[d] = todo[d],
           resources'[d] = resources[d], added'[d] = added[d], busy'[d] = busy[d]
    PROVE  ListOK(d)'
BY DEF ListOK

\* What is released stays released.
LEMMA ReleasedStays ==
    ASSUME NEW x, Released(x),
           x \in Leaves /\ leaf[x] = "closed" => leaf'[x] = "closed",
           x \in {Child, Group} /\ stage[x] = "disposed" => stage'[x] = "disposed",
           x = Group /\ stage[x] = "disposing" => stage'[x] \in {"disposing", "disposed"},
           byApp \subseteq byApp',
           x = Crew => awaited' = awaited,
           x = Crew /\ awaited # 0 /\ promise[awaited] # "pending" => promise'[awaited] # "pending"
    PROVE  Released(x)'
BY DEF Released

\* A step that leaves every list alone keeps what the lists say.
LEMMA OnceKept ==
    ASSUME OncePart, added' = added,
           \A x \in {Child, Group} : stage'[x] = "absent" <=> stage[x] = "absent"
    PROVE  OncePart'
BY DEF OncePart, Holds

--------------------------------------------------------------------------------
(* Scopes: the actions *)

\* add(): the resource is new to every container, and the container still open.
LEMMA AddStep ==
    ASSUME ScopeInv, NEW c \in Containers, NEW x \in Resources, Add(c, x)
    PROVE  ScopeTypes' /\ ListPart' /\ OncePart' /\ SharePart' /\ ReleasesNewestFirst'
<1>0. /\ ScopeTypes /\ ListPart /\ OncePart /\ SharePart /\ ReleasesNewestFirst
      /\ stage[c] = "open" /\ x \in scene /\ (x = Group => c # Group) /\ (x = Child => c = Root)
      /\ UNCHANGED <<groupVars, scene, todo, busy, shared, failed, awaited, byApp>>
      /\ resources' = [resources EXCEPT ![c] = Append(resources[c], x)]
      /\ added' = [added EXCEPT ![c] = Append(added[c], x)]
      /\ stage' = (IF x \in Containers THEN [stage EXCEPT ![x] = "open"] ELSE stage)
      /\ leaf' = (IF x \in Leaves THEN [leaf EXCEPT ![x] = "held"] ELSE leaf)
  BY DEF ScopeInv, Add, Accepts
<1>1. \A d \in Containers : \A i \in 1..Len(added[d]) : added[d][i] # x
  BY DEF Add, Contains
<1>2. /\ \A d \in Containers : added[d] \in Seq(scene) /\ Len(added[d]) \in Nat
      /\ \A d \in Containers : \A i \in 1..Len(added[d]) : added[d][i] \in scene
      /\ resources[c] = added[c] /\ x # c /\ x # Root /\ Root # Child
      /\ stage \in [Containers -> {"absent", "open", "disposing", "disposed"}]
      /\ added \in [Containers -> Seq(scene)] /\ resources \in [Containers -> Seq(scene)]
      /\ leaf \in [Leaves -> {"new", "held", "closing", "closed"}]
      /\ Containers = {Root, Child, Group}
  BY <1>0, ListFacts, SceneFacts, ScopeAssumption DEF ListPart, ListOK, ScopeTypes
<1>3. PICK q \in Seq(scene) :
         /\ q = Append(added[c], x) /\ Len(q) = Len(added[c]) + 1
         /\ \A i \in 1..Len(added[c]) : q[i] = added[c][i]
         /\ q[Len(added[c]) + 1] = x
  <2>1. /\ Append(added[c], x) \in Seq(scene) /\ Len(Append(added[c], x)) = Len(added[c]) + 1
        /\ \A i \in 1..Len(added[c]) : Append(added[c], x)[i] = added[c][i]
        /\ Append(added[c], x)[Len(added[c]) + 1] = x
    BY <1>0, <1>2, AppendProperties
  <2> QED
    BY <2>1
<1>4. /\ added'[c] = q /\ resources'[c] = q
      /\ \A d \in Containers : d # c => added'[d] = added[d] /\ resources'[d] = resources[d]
  BY <1>0, <1>2, <1>3
<1>5. \A d \in Containers : \A i \in 1..Len(added'[d]) :
         \/ i \in 1..Len(added[d]) /\ added'[d][i] = added[d][i]
         \/ d = c /\ i = Len(added[c]) + 1 /\ added'[d][i] = x
  <2> SUFFICES ASSUME NEW d \in Containers, NEW i \in 1..Len(added'[d])
               PROVE  \/ i \in 1..Len(added[d]) /\ added'[d][i] = added[d][i]
                      \/ d = c /\ i = Len(added[c]) + 1 /\ added'[d][i] = x
    OBVIOUS
  <2>1. CASE d # c
    BY <1>4, <2>1
  <2>2. CASE d = c
    <3>1. i \in 1..(Len(added[c]) + 1) /\ Len(added[c]) \in Nat
      BY <1>2, <1>3, <1>4, <2>2
    <3>2. i \in 1..Len(added[c]) \/ i = Len(added[c]) + 1
      BY <3>1
    <3> QED
      BY <1>3, <1>4, <2>2, <3>2
  <2> QED
    BY <2>1, <2>2
<1>6. \A d \in Containers : \A i \in 1..Len(added[d]) :
         i \in 1..Len(added'[d]) /\ added'[d][i] = added[d][i]
  <2>1. \A i \in 1..Len(added[c]) : i \in 1..Len(added'[c]) /\ added'[c][i] = added[c][i]
    BY <1>2, <1>3, <1>4
  <2> QED
    BY <1>4, <2>1
<1>7. x \in {Child, Group} => stage[x] = "absent"
  BY <1>0, <1>1 DEF OncePart, Holds
<1>8. /\ \A d \in Containers : d # x => stage'[d] = stage[d]
      /\ x \in Containers => x \in {Child, Group} /\ stage'[x] = "open"
  BY <1>0, <1>2
<1>9. ScopeTypes'
  <2>1. /\ added' \in [Containers -> Seq(scene)] /\ resources' \in [Containers -> Seq(scene)]
    BY <1>0, <1>2, <1>3
  <2>2. stage' \in [Containers -> {"absent", "open", "disposing", "disposed"}]
    BY <1>0, <1>2
  <2>3. leaf' \in [Leaves -> {"new", "held", "closing", "closed"}]
    BY <1>0, <1>2
  <2> QED
    BY <1>0, <2>1, <2>2, <2>3 DEF ScopeTypes
<1>10. ListPart'
  <2>1. ASSUME NEW d \in Containers PROVE ListOK(d)'
    <3>0. ListOK(d)
      BY <1>0 DEF ListPart
    <3>1. CASE d # c /\ d # x
      BY <1>0, <1>4, <1>8, <3>0, <3>1, ListKept
    <3>2. CASE d = c
      BY <1>0, <1>2, <1>4, <1>8, <3>0, <3>2 DEF ListOK
    <3>3. CASE d = x
      BY <1>0, <1>2, <1>4, <1>7, <1>8, <3>0, <3>3 DEF ListOK
    <3> QED
      BY <3>1, <3>2, <3>3
  <2> QED
    BY <2>1 DEF ListPart
<1>11. OncePart'
  <2>1. ASSUME NEW d \in Containers, NEW e \in Containers, NEW i \in 1..Len(added'[d]),
               NEW j \in 1..Len(added'[e]), added'[d][i] = added'[e][j]
        PROVE  d = e /\ i = j
    <3>1. CASE i \in 1..Len(added[d]) /\ added'[d][i] = added[d][i]
      BY <1>0, <1>1, <1>5, <2>1, <3>1 DEF OncePart
    <3>2. CASE d = c /\ i = Len(added[c]) + 1 /\ added'[d][i] = x
      BY <1>1, <1>5, <2>1, <3>2
    <3> QED
      BY <1>5, <3>1, <3>2
  <2>2. \A d \in Containers : \A i \in 1..Len(added'[d]) : added'[d][i] # d
    BY <1>0, <1>2, <1>5 DEF OncePart
  <2>3. ASSUME NEW y \in {Child, Group} PROVE stage'[y] # "absent" <=> Holds(y)'
    <3>1. CASE y = x
      <4>1. Len(added[c]) + 1 \in 1..Len(added'[c]) /\ added'[c][Len(added[c]) + 1] = x
        BY <1>2, <1>3, <1>4
      <4> QED
        BY <1>2, <1>8, <3>1, <4>1 DEF Holds
    <3>2. CASE y # x
      <4>1. Holds(y)' <=> Holds(y)
        BY <1>5, <1>6, <3>2 DEF Holds
      <4> QED
        BY <1>0, <1>2, <1>8, <3>2, <4>1 DEF OncePart
    <3> QED
      BY <3>1, <3>2
  <2> QED
    BY <2>1, <2>2, <2>3 DEF OncePart
<1>12. SharePart'
  <2>1. ASSUME NEW d \in Containers, NEW i \in 1..Len(added'[d]), added'[d][i] = Group,
               Waits(d, i)'
        PROVE  stage'[Group] = "open" \/ Group \in byApp'
    <3>1. CASE x = Group
      BY <1>2, <1>8, <3>1
    <3>2. CASE x # Group
      <4>1. i \in 1..Len(added[d]) /\ added[d][i] = Group
        BY <1>5, <2>1, <3>2
      <4>2. CASE d # x
        <5>1. Waits(d, i)
          BY <1>0, <1>8, <2>1, <4>2 DEF Waits
        <5> QED
          BY <1>0, <1>2, <1>8, <3>2, <4>1, <5>1 DEF SharePart
      <4>3. CASE d = x
        <5>1. stage[d] = "absent"
          BY <1>2, <1>7, <1>8, <4>3
        <5>2. Len(added[d]) = 0
          BY <1>0, <5>1, EmptySeq DEF ListPart, ListOK
        <5> QED
          BY <4>1, <5>2
      <4> QED
        BY <4>2, <4>3
    <3> QED
      BY <3>1, <3>2
  <2>2. ASSUME NEW d \in Containers, busy'[d] = Group, shared'[d]
        PROVE  Group \in byApp' /\ stage'[Group] \in {"disposing", "disposed"}
    <3>1. Group \in byApp /\ stage[Group] \in {"disposing", "disposed"}
      BY <1>0, <2>2 DEF SharePart
    <3> QED
      BY <1>0, <1>2, <1>7, <1>8, <3>1
  <2> QED
    BY <1>0, <2>1, <2>2 DEF SharePart
<1>13. ReleasesNewestFirst'
  <2> SUFFICES ASSUME NEW d \in Containers, stage'[d] \in {"disposing", "disposed"},
                      NEW i \in (Len(todo'[d]) + 1)..Len(added'[d])
               PROVE  Released(added[d][i])'
    BY DEF ReleasesNewestFirst
  <2>1. d # c /\ d # x /\ stage[d] = stage'[d] /\ added'[d] = added[d] /\ todo'[d] = todo[d]
    BY <1>0, <1>2, <1>4, <1>8
  <2>2. Released(added[d][i])
    BY <1>0, <2>1 DEF ReleasesNewestFirst
  <2>3. Len(todo[d]) \in Nat /\ i \in 1..Len(added[d])
    BY <1>0, <1>2, <2>1, ListFacts
  <2>4. PICK y \in scene : y = added[d][i] /\ y # x
    BY <1>1, <1>2, <2>3
  <2>5. /\ y \in Leaves => leaf'[y] = leaf[y]
        /\ y \in {Child, Group} => stage'[y] = stage[y]
    BY <1>0, <1>2, <1>8, <2>4
  <2>6. Released(y)'
    BY <1>0, <2>2, <2>4, <2>5, ReleasedStays DEF groupVars
  <2> QED
    BY <2>1, <2>4, <2>6 DEF Released
<1> QED
  BY <1>9, <1>10, <1>11, <1>12, <1>13

\* dispose() of an open container by the application.
LEMMA DisposeStep ==
    ASSUME ScopeInv, NEW c \in Containers, Dispose(c)
    PROVE  ScopeTypes' /\ ListPart' /\ OncePart' /\ SharePart' /\ ReleasesNewestFirst'
<1>0. /\ ScopeTypes /\ ListPart /\ OncePart /\ SharePart /\ ReleasesNewestFirst
      /\ stage[c] = "open" /\ Begins(c) /\ byApp' = byApp \cup {c}
      /\ UNCHANGED <<groupVars, scene, busy, shared, failed, leaf, awaited, added>>
  BY DEF ScopeInv, Dispose
<1>1. /\ todo' \in [Containers -> Seq(scene)] /\ resources' \in [Containers -> Seq(scene)]
      /\ stage' \in [Containers -> {"absent", "open", "disposing", "disposed"}]
      /\ \A d \in Containers : d # c =>
            stage'[d] = stage[d] /\ todo'[d] = todo[d] /\ resources'[d] = resources[d]
      /\ stage'[c] = "disposing" /\ Len(todo'[c]) = Len(added[c])
      /\ \A i \in 1..Len(added[c]) : todo'[c][i] = added[c][Len(added[c]) + 1 - i]
  BY <1>0, BeginsEffect DEF ListPart
<1>2. Len(added[c]) \in Nat /\ Containers = {Root, Child, Group}
  BY <1>0, ListFacts, SceneFacts
<1>3. ScopeTypes'
  BY <1>0, <1>1 DEF ScopeTypes
<1>4. ListPart'
  <2>1. ASSUME NEW d \in Containers, d # c PROVE ListOK(d)'
    BY <1>0, <1>1, <2>1, ListKept DEF ListPart
  <2>2. busy[c] = Nothing
    BY <1>0 DEF ListPart, ListOK
  <2>3. ListOK(c)'
    BY <1>0, <1>1, <1>2, <2>2 DEF ListOK
  <2> QED
    BY <2>1, <2>3 DEF ListPart
<1>5. OncePart'
  BY <1>0, <1>1, <1>2, OnceKept
<1>6. SharePart'
  <2>1. ASSUME NEW d \in Containers, NEW i \in 1..Len(added[d]), added[d][i] = Group,
               Waits(d, i)'
        PROVE  stage'[Group] = "open" \/ Group \in byApp'
    <3>1. Waits(d, i)
      BY <1>0, <1>1, <2>1 DEF Waits
    <3> QED
      BY <1>0, <1>1, <1>2, <2>1, <3>1 DEF SharePart
  <2>2. \A d \in Containers : busy[d] = Group /\ shared[d] =>
           Group \in byApp' /\ stage'[Group] \in {"disposing", "disposed"}
    BY <1>0, <1>1, <1>2 DEF SharePart
  <2> QED
    BY <1>0, <2>1, <2>2 DEF SharePart
<1>7. ReleasesNewestFirst'
  <2> SUFFICES ASSUME NEW d \in Containers, stage'[d] \in {"disposing", "disposed"},
                      NEW i \in (Len(todo'[d]) + 1)..Len(added'[d])
               PROVE  Released(added[d][i])'
    BY DEF ReleasesNewestFirst
  <2>1. d # c
    BY <1>0, <1>1, <1>2
  <2>2. stage[d] = stage'[d] /\ todo'[d] = todo[d] /\ added' = added
    BY <1>0, <1>1, <2>1
  <2>3. PICK y : y = added[d][i] /\ Released(y)
    BY <1>0, <2>2 DEF ReleasesNewestFirst
  <2>4. Released(y)'
    BY <1>0, <1>1, <1>2, <2>3, ReleasedStays DEF groupVars
  <2> QED
    BY <2>2, <2>3, <2>4 DEF Released
<1> QED
  BY <1>3, <1>4, <1>5, <1>6, <1>7

\* The container asks its newest resource that is left to release itself.
LEMMA DisposeResourceStep ==
    ASSUME ScopeInv, NEW c \in Containers, DisposeResource(c),
           \A r \in 1..MaxRuns : promise[r] # "pending" => promise'[r] # "pending"
    PROVE  ScopeTypes' /\ ListPart' /\ OncePart' /\ SharePart' /\ ReleasesNewestFirst'
<1>0. /\ ScopeTypes /\ ListPart /\ OncePart /\ SharePart /\ ReleasesNewestFirst /\ GroupPart
      /\ stage[c] = "disposing" /\ busy[c] = Nothing /\ todo[c] # <<>>
      /\ UNCHANGED <<scene, failed, byApp, added>>
  BY DEF ScopeInv, DisposeResource
<1>1. PICK x \in scene : x = Head(todo[c])
  BY <1>0, NextResource DEF ListPart
<1>2. /\ Len(todo[c]) \in 1..Len(added[c]) /\ x = added[c][Len(todo[c])]
  BY <1>0, <1>1, NextResource DEF ListPart
<1>3. /\ busy' = [busy EXCEPT ![c] = x]
      /\ shared' = [shared EXCEPT ![c] = x \in Containers /\ stage[x] # "open"]
      /\ leaf' = (IF x \in Leaves THEN [leaf EXCEPT ![x] = "closing"] ELSE leaf)
      /\ awaited' = (IF x = Crew THEN run ELSE awaited)
      /\ IF x \in Containers THEN Begins(x) ELSE UNCHANGED <<stage, todo, resources>>
  BY <1>1 DEF DisposeResource
<1>4. /\ x # c /\ x # Nothing /\ Containers = {Root, Child, Group}
      /\ \A y \in Leaves : y \notin Containers /\ y # Crew
      /\ Crew \notin Containers /\ Group # Crew
      /\ x \in Containers => x \in {Child, Group}
      /\ x \in Leaves \/ x = Child \/ x = Group \/ x = Crew
  BY <1>0, <1>2, SceneFacts, ScopeAssumption DEF OncePart
<1>5. /\ todo' \in [Containers -> Seq(scene)] /\ resources' \in [Containers -> Seq(scene)]
      /\ stage' \in [Containers -> {"absent", "open", "disposing", "disposed"}]
      /\ \A d \in Containers : d # x \/ stage[d] # "open" =>
            stage'[d] = stage[d] /\ todo'[d] = todo[d] /\ resources'[d] = resources[d]
      /\ x \in Containers /\ stage[x] = "open" =>
            /\ stage'[x] = "disposing" /\ Len(todo'[x]) = Len(added[x])
            /\ \A i \in 1..Len(added[x]) : todo'[x][i] = added[x][Len(added[x]) + 1 - i]
  <2>1. CASE x \in Containers
    <3>1. ListOK(x) /\ Begins(x)
      BY <1>0, <1>3, <2>1 DEF ListPart
    <3> QED
      BY <1>0, <2>1, <3>1, BeginsEffect
  <2>2. CASE x \notin Containers
    BY <1>0, <1>3, <2>2 DEF ScopeTypes
  <2> QED
    BY <2>1, <2>2
<1>6. /\ busy'[c] = x /\ \A d \in Containers : d # c => busy'[d] = busy[d] /\ shared'[d] = shared[d]
      /\ shared'[c] = (x \in Containers /\ stage[x] # "open")
  BY <1>0, <1>3 DEF ScopeTypes
<1>7. ScopeTypes'
  <2>1. awaited' \in 0..MaxRuns
    BY <1>0, <1>3, TaskGroupAssumption DEF ScopeTypes, GroupPart, GroupTypeOK
  <2>2. busy' \in [Containers -> scene \cup {Nothing}]
    BY <1>0, <1>3 DEF ScopeTypes
  <2>3. shared' \in [Containers -> BOOLEAN]
    <3>1. (x \in Containers /\ stage[x] # "open") \in BOOLEAN /\ shared \in [Containers -> BOOLEAN]
      BY <1>0 DEF ScopeTypes
    <3> QED
      BY <1>3, <3>1
  <2>4. leaf' \in [Leaves -> {"new", "held", "closing", "closed"}]
    BY <1>0, <1>3 DEF ScopeTypes
  <2> QED
    BY <1>0, <1>5, <2>1, <2>2, <2>3, <2>4 DEF ScopeTypes
<1>8. ListPart'
  <2>1. ASSUME NEW d \in Containers PROVE ListOK(d)'
    <3>0. ListOK(d)
      BY <1>0 DEF ListPart
    <3>1. CASE d = c
      <4>1. stage'[c] = stage[c] /\ todo'[c] = todo[c] /\ resources'[c] = resources[c] /\ added' = added
        BY <1>0, <1>4, <1>5
      <4> QED
        BY <1>0, <1>1, <1>6, <3>0, <3>1, <4>1 DEF ListOK
    <3>2. CASE d # c /\ (d # x \/ stage[d] # "open")
      BY <1>0, <1>5, <1>6, <3>0, <3>2, ListKept
    <3>3. CASE d # c /\ d = x /\ stage[d] = "open"
      <4>1. busy[d] = Nothing /\ Len(added[d]) \in Nat
        BY <1>0, <3>0, <3>3, ListFacts DEF ListOK
      <4> QED
        BY <1>0, <1>5, <1>6, <3>3, <4>1 DEF ListOK
    <3> QED
      BY <3>1, <3>2, <3>3
  <2> QED
    BY <2>1 DEF ListPart
<1>9. \A y \in {Child, Group} : /\ stage'[y] = "absent" <=> stage[y] = "absent"
                                /\ stage[y] = "disposed" => stage'[y] = "disposed"
                                /\ stage[y] = "disposing" => stage'[y] = "disposing"
  BY <1>4, <1>5
<1>10. OncePart'
  BY <1>0, <1>9, OnceKept
<1>11. SharePart'
  <2>1. ASSUME NEW d \in Containers, NEW i \in 1..Len(added[d]), added[d][i] = Group,
               Waits(d, i)'
        PROVE  stage'[Group] = "open" \/ Group \in byApp
    <3>1. Waits(d, i) /\ ~(d = c /\ i = Len(todo[c]))
      <4>0. Len(todo[c]) \in Nat /\ Len(added[d]) \in Nat /\ i \in Nat
        BY <1>0, ListFacts
      <4>1. CASE d = c
        BY <1>0, <1>4, <1>5, <1>6, <2>1, <4>0, <4>1 DEF Waits
      <4>2. CASE d # c
        BY <1>0, <1>5, <1>6, <2>1, <4>2 DEF Waits
      <4> QED
        BY <4>1, <4>2
    <3>2. x # Group
      BY <1>0, <1>2, <2>1, <3>1 DEF OncePart
    <3>3. stage[Group] = "open" \/ Group \in byApp
      BY <1>0, <2>1, <3>1 DEF SharePart
    <3> QED
      BY <1>4, <1>5, <3>2, <3>3
  <2>2. ASSUME NEW d \in Containers, busy'[d] = Group, shared'[d]
        PROVE  Group \in byApp /\ stage'[Group] \in {"disposing", "disposed"}
    <3>1. CASE d = c
      <4>1. x = Group /\ stage[Group] # "open"
        BY <1>6, <2>2, <3>1
      <4>2. Waits(c, Len(todo[c]))
        BY <1>0 DEF Waits
      <4>3. Group \in byApp
        BY <1>0, <1>2, <4>1, <4>2 DEF SharePart
      <4>4. stage[Group] # "absent"
        <5>1. Holds(Group)
          BY <1>2, <4>1 DEF Holds
        <5> QED
          BY <1>0, <5>1 DEF OncePart
      <4>5. stage[Group] \in {"disposing", "disposed"}
        BY <1>0, <1>4, <4>1, <4>4 DEF ScopeTypes
      <4> QED
        BY <1>9, <4>3, <4>5
    <3>2. CASE d # c
      <4>1. Group \in byApp /\ stage[Group] \in {"disposing", "disposed"}
        BY <1>0, <1>6, <2>2, <3>2 DEF SharePart
      <4> QED
        BY <1>9, <4>1
    <3> QED
      BY <3>1, <3>2
  <2>3. ASSUME NEW d \in Containers, busy'[d] = Crew PROVE awaited' # 0
    <3>1. run # 0
      BY <1>0, TaskGroupAssumption DEF GroupPart, GroupTypeOK
    <3> QED
      BY <1>0, <1>3, <1>6, <2>3, <3>1 DEF SharePart
  <2> QED
    BY <1>0, <2>1, <2>2, <2>3 DEF SharePart
<1>12. ReleasesNewestFirst'
  <2> SUFFICES ASSUME NEW d \in Containers, stage'[d] \in {"disposing", "disposed"},
                      NEW i \in (Len(todo'[d]) + 1)..Len(added'[d])
               PROVE  Released(added[d][i])'
    BY DEF ReleasesNewestFirst
  <2>0. Len(added[d]) \in Nat /\ Len(todo[d]) \in Nat /\ added' = added
    BY <1>0, ListFacts
  <2>1. d # x \/ stage[d] # "open"
    BY <1>5, <2>0
  <2>2. stage[d] = stage'[d] /\ todo'[d] = todo[d]
    BY <1>5, <2>1
  <2>3. PICK y \in scene : y = added[d][i] /\ Released(y)
    BY <1>0, <2>0, <2>2, ListFacts DEF ReleasesNewestFirst
  <2>4. y # x
    <3>1. d # c \/ i # Len(todo[c])
      BY <2>0, <2>2
    <3>2. i \in 1..Len(added[d])
      BY <2>0, <2>2
    <3> QED
      BY <1>0, <1>2, <2>3, <3>1, <3>2 DEF OncePart
  <2>5. /\ y \in Leaves => leaf'[y] = leaf[y]
        /\ y = Crew => awaited' = awaited
    BY <1>0, <1>3, <2>4 DEF ScopeTypes
  <2>6. y = Crew /\ awaited # 0 /\ promise[awaited] # "pending" => promise'[awaited] # "pending"
    <3>1. awaited # 0 => awaited \in 1..MaxRuns
      BY <1>0, TaskGroupAssumption DEF ScopeTypes
    <3> QED
      BY <3>1
  <2>7. Released(y)'
    BY <1>0, <1>9, <2>3, <2>5, <2>6, ReleasedStays
  <2> QED
    BY <2>0, <2>3, <2>7 DEF Released
<1> QED
  BY <1>7, <1>8, <1>10, <1>11, <1>12

\* The awaited release is over: the resource is released, and the next one's turn.
LEMMA ResourceDisposedStep ==
    ASSUME ScopeInv, NEW c \in Containers, ResourceDisposed(c)
    PROVE  ScopeTypes' /\ ListPart' /\ OncePart' /\ SharePart' /\ ReleasesNewestFirst'
<1>0. /\ ScopeTypes /\ ListPart /\ OncePart /\ SharePart /\ ReleasesNewestFirst
      /\ busy[c] # Nothing /\ IsOver(c)
      /\ busy' = [busy EXCEPT ![c] = Nothing]
      /\ todo' = [todo EXCEPT ![c] = Tail(todo[c])]
      /\ shared' = [shared EXCEPT ![c] = FALSE]
      /\ failed' = [failed EXCEPT ![c] = failed[c] \/ IsFailure(c)]
      /\ UNCHANGED <<groupVars, scene, stage, resources, leaf, awaited, byApp, added>>
  BY DEF ScopeInv, ResourceDisposed
<1>1. stage[c] = "disposing" /\ todo[c] # <<>> /\ busy[c] = Head(todo[c]) /\ ListOK(c)
  BY <1>0 DEF ListPart, ListOK
<1>2. /\ Len(todo[c]) \in 1..Len(added[c]) /\ busy[c] = added[c][Len(todo[c])]
      /\ busy[c] \in scene /\ Len(todo[c]) \in Nat /\ Len(added[c]) \in Nat
  BY <1>0, <1>1, NextResource, ListFacts
<1>3. PICK q \in Seq(scene) :
         /\ q = Tail(todo[c]) /\ Len(q) = Len(todo[c]) - 1
         /\ \A i \in 1..Len(q) : q[i] = todo[c][i + 1]
  <2>1. todo[c] \in Seq(scene)
    BY <1>0, ListFacts
  <2>2. /\ Tail(todo[c]) \in Seq(scene) /\ Len(Tail(todo[c])) = Len(todo[c]) - 1
        /\ \A i \in 1..Len(Tail(todo[c])) : Tail(todo[c])[i] = todo[c][i + 1]
    BY <1>1, <2>1, HeadTailProperties
  <2> QED
    BY <2>2
<1>4. /\ todo'[c] = q /\ busy'[c] = Nothing /\ shared'[c] = FALSE
      /\ \A d \in Containers : d # c =>
            todo'[d] = todo[d] /\ busy'[d] = busy[d] /\ shared'[d] = shared[d]
  BY <1>0, <1>3 DEF ScopeTypes
<1>5. ScopeTypes'
  <2>1. todo' \in [Containers -> Seq(scene)]
    BY <1>0, <1>3 DEF ScopeTypes
  <2>2. busy' \in [Containers -> scene \cup {Nothing}]
    BY <1>0 DEF ScopeTypes
  <2>3. shared' \in [Containers -> BOOLEAN]
    BY <1>0 DEF ScopeTypes
  <2>4. failed' \in [Containers -> BOOLEAN]
    <3>1. (failed[c] \/ IsFailure(c)) \in BOOLEAN /\ failed \in [Containers -> BOOLEAN]
      BY <1>0 DEF ScopeTypes
    <3> QED
      BY <1>0, <3>1
  <2> QED
    BY <1>0, <2>1, <2>2, <2>3, <2>4 DEF ScopeTypes
<1>6. ListPart'
  <2>1. ASSUME NEW d \in Containers, d # c PROVE ListOK(d)'
    BY <1>0, <1>4, <2>1, ListKept DEF ListPart
  <2>2. ListOK(c)'
    <3>1. Len(q) <= Len(added[c])
      BY <1>2, <1>3
    <3>2. \A i \in 1..Len(q) : /\ i + 1 \in 1..Len(todo[c])
                               /\ Len(todo[c]) + 1 - (i + 1) = Len(q) + 1 - i
      <4>1. PICK n \in Nat : n = Len(todo[c]) /\ Len(q) = n - 1
        BY <1>2, <1>3
      <4>2. \A i \in 1..(n - 1) : i + 1 \in 1..n /\ n + 1 - (i + 1) = (n - 1) + 1 - i
        OBVIOUS
      <4> QED
        BY <4>1, <4>2
    <3>3. \A i \in 1..Len(todo[c]) : todo[c][i] = added[c][Len(todo[c]) + 1 - i]
      BY <1>1 DEF ListOK
    <3>4. \A i \in 1..Len(q) : q[i] = added[c][Len(q) + 1 - i]
      BY <1>3, <3>2, <3>3
    <3> QED
      BY <1>0, <1>1, <1>4, <3>1, <3>4 DEF ListOK
  <2> QED
    BY <2>1, <2>2 DEF ListPart
<1>7. OncePart'
  BY <1>0, OnceKept
<1>8. SharePart'
  <2>1. ASSUME NEW d \in Containers, NEW i \in 1..Len(added[d]), added[d][i] = Group,
               Waits(d, i)'
        PROVE  stage[Group] = "open" \/ Group \in byApp
    <3>0. Len(added[d]) \in Nat
      BY <1>0, ListFacts
    <3>1. CASE d = c
      <4>1. i < Len(todo[c])
        <5>1. Len(q) \in Int /\ i \in Nat
          BY <1>2, <1>3, <3>0
        <5>2. stage'[c] = "disposing" /\ Waits(c, i)'
          BY <1>0, <1>1, <2>1, <3>1
        <5>3. i < Len(q) \/ i = Len(q)
          BY <1>4, <5>2 DEF Waits
        <5> QED
          BY <1>2, <1>3, <5>1, <5>3
      <4> QED
        BY <1>0, <1>1, <2>1, <3>1, <4>1 DEF SharePart, Waits
    <3>2. CASE d # c
      <4>1. Waits(d, i)
        BY <1>0, <1>4, <2>1, <3>2 DEF Waits
      <4> QED
        BY <1>0, <2>1, <4>1 DEF SharePart
    <3> QED
      BY <3>1, <3>2
  <2>2. Nothing # Group /\ Nothing # Crew
    BY ScopeAssumption
  <2>3. \A d \in Containers : busy'[d] = Group /\ shared'[d] =>
           Group \in byApp /\ stage[Group] \in {"disposing", "disposed"}
    BY <1>0, <1>4, <2>2 DEF SharePart
  <2>4. \A d \in Containers : busy'[d] = Crew => awaited # 0
    BY <1>0, <1>4, <2>2 DEF SharePart
  <2> QED
    BY <1>0, <2>1, <2>3, <2>4 DEF SharePart
<1>9. Released(busy[c])
  <2>1. Group # Child /\ Group # Crew /\ Child # Crew
    BY ScopeAssumption
  <2> QED
    BY <1>0, <2>1 DEF IsOver, Released, SharePart
<1>10. ReleasesNewestFirst'
  <2> SUFFICES ASSUME NEW d \in Containers, stage'[d] \in {"disposing", "disposed"},
                      NEW i \in (Len(todo'[d]) + 1)..Len(added'[d])
               PROVE  Released(added[d][i])'
    BY DEF ReleasesNewestFirst
  <2>1. PICK y : y = added[d][i]
    OBVIOUS
  <2>2. Released(y)
    <3>1. CASE d = c /\ i = Len(todo[c])
      BY <1>2, <1>9, <2>1, <3>1
    <3>2. CASE ~(d = c /\ i = Len(todo[c]))
      <4>1. i \in (Len(todo[d]) + 1)..Len(added[d])
        <5>1. CASE d = c
          BY <1>0, <1>2, <1>3, <1>4, <3>2, <5>1
        <5>2. CASE d # c
          BY <1>0, <1>4, <5>2
        <5> QED
          BY <5>1, <5>2
      <4> QED
        BY <1>0, <2>1, <4>1 DEF ReleasesNewestFirst
    <3> QED
      BY <3>1, <3>2
  <2>3. Released(y)'
    BY <1>0, <2>2, ReleasedStays DEF groupVars
  <2> QED
    BY <1>0, <2>1, <2>3 DEF Released
<1> QED
  BY <1>5, <1>6, <1>7, <1>8, <1>10

\* The snapshot is worked off.
LEMMA DisposedStep ==
    ASSUME ScopeInv, NEW c \in Containers, Disposed(c)
    PROVE  ScopeTypes' /\ ListPart' /\ OncePart' /\ SharePart' /\ ReleasesNewestFirst'
<1>0. /\ ScopeTypes /\ ListPart /\ OncePart /\ SharePart /\ ReleasesNewestFirst
      /\ stage[c] = "disposing" /\ todo[c] = <<>>
      /\ stage' = [stage EXCEPT ![c] = "disposed"]
      /\ UNCHANGED <<groupVars, scene, resources, todo, busy, shared, failed, leaf, awaited,
                     byApp, added>>
  BY DEF ScopeInv, Disposed
<1>1. stage'[c] = "disposed" /\ \A d \in Containers : d # c => stage'[d] = stage[d]
  BY <1>0 DEF ScopeTypes
<1>2. ScopeTypes'
  BY <1>0 DEF ScopeTypes
<1>3. ListPart'
  <2>1. ASSUME NEW d \in Containers, d # c PROVE ListOK(d)'
    BY <1>0, <1>1, <2>1, ListKept DEF ListPart
  <2>2. ListOK(c)'
    BY <1>0, <1>1 DEF ListPart, ListOK
  <2> QED
    BY <2>1, <2>2 DEF ListPart
<1>4. Containers = {Root, Child, Group}
  BY DEF Containers
<1>5. OncePart'
  BY <1>0, <1>1, <1>4, OnceKept
<1>6. SharePart'
  <2>1. ASSUME NEW d \in Containers, NEW i \in 1..Len(added[d]), Waits(d, i)'
        PROVE  Waits(d, i)
    BY <1>0, <1>1, <2>1 DEF Waits
  <2> QED
    BY <1>0, <1>1, <1>4, <2>1 DEF SharePart
<1>7. ReleasesNewestFirst'
  <2> SUFFICES ASSUME NEW d \in Containers, stage'[d] \in {"disposing", "disposed"},
                      NEW i \in (Len(todo'[d]) + 1)..Len(added'[d])
               PROVE  Released(added[d][i])'
    BY DEF ReleasesNewestFirst
  <2>1. PICK y : y = added[d][i] /\ Released(y)
    BY <1>0, <1>1 DEF ReleasesNewestFirst
  <2>2. Released(y)'
    BY <1>0, <1>1, <1>4, <2>1, ReleasedStays DEF groupVars
  <2> QED
    BY <1>0, <2>1, <2>2 DEF Released
<1> QED
  BY <1>2, <1>3, <1>5, <1>6, <1>7

\* A closer settles, and steps of the task group: the lists stay as they are.
LEMMA OthersStep ==
    ASSUME ScopeInv,
           UNCHANGED <<scene, stage, resources, todo, busy, shared, awaited, byApp, added>>,
           failed' \in [Containers -> BOOLEAN],
           leaf' \in [Leaves -> {"new", "held", "closing", "closed"}],
           \A x \in Leaves : leaf[x] = "closed" => leaf'[x] = "closed",
           \A r \in 1..MaxRuns : promise[r] # "pending" => promise'[r] # "pending"
    PROVE  ScopeTypes' /\ ListPart' /\ OncePart' /\ SharePart' /\ ReleasesNewestFirst'
<1>0. ScopeTypes /\ ListPart /\ OncePart /\ SharePart /\ ReleasesNewestFirst
  BY DEF ScopeInv
<1>1. ScopeTypes'
  BY <1>0 DEF ScopeTypes
<1>2. ListPart'
  BY <1>0 DEF ListPart, ListOK
<1>3. OncePart'
  BY <1>0, OnceKept
<1>4. SharePart'
  BY <1>0 DEF SharePart, Waits
<1>5. ReleasesNewestFirst'
  <2> SUFFICES ASSUME NEW d \in Containers, stage'[d] \in {"disposing", "disposed"},
                      NEW i \in (Len(todo'[d]) + 1)..Len(added'[d])
               PROVE  Released(added[d][i])'
    BY DEF ReleasesNewestFirst
  <2>1. PICK y : y = added[d][i] /\ Released(y)
    BY <1>0 DEF ReleasesNewestFirst
  <2>2. awaited # 0 => awaited \in 1..MaxRuns
    BY <1>0, TaskGroupAssumption DEF ScopeTypes
  <2>3. Released(y)'
    BY <1>0, <2>1, <2>2, ReleasedStays
  <2> QED
    BY <2>1, <2>3 DEF Released
<1> QED
  BY <1>1, <1>2, <1>3, <1>4, <1>5

--------------------------------------------------------------------------------
(* Scopes: the theorems *)

\* The first state satisfies the invariant.
LEMMA ScopeInit == Init => ScopeInv
<1> SUFFICES ASSUME Init PROVE ScopeInv
  OBVIOUS
<1>1. GroupPart
  BY GroupStarts DEF Init
<1>2. /\ \A c \in Containers : /\ added[c] = <<>> /\ todo[c] = <<>> /\ resources[c] = <<>>
                               /\ busy[c] = Nothing /\ shared[c] = FALSE
                               /\ stage[c] = IF c = Root THEN "open" ELSE "absent"
      /\ Len(<<>>) = 0
  BY EmptySeq DEF Init
<1>3. ScopeTypes
  <2>1. <<>> \in Seq(scene)
    BY EmptySeq
  <2>2. /\ resources \in [Containers -> Seq(scene)] /\ added \in [Containers -> Seq(scene)]
        /\ todo \in [Containers -> Seq(scene)]
    BY <2>1 DEF Init
  <2>3. stage \in [Containers -> {"absent", "open", "disposing", "disposed"}]
    BY DEF Init
  <2>4. shared \in [Containers -> BOOLEAN] /\ failed \in [Containers -> BOOLEAN]
    BY DEF Init
  <2>5. busy \in [Containers -> scene \cup {Nothing}] /\ awaited \in 0..MaxRuns
    BY TaskGroupAssumption DEF Init
  <2> QED
    BY <2>2, <2>3, <2>4, <2>5 DEF Init, ScopeTypes
<1>4. ListPart
  BY <1>2 DEF ListPart, ListOK
<1>5. OncePart
  <2>1. Child # Root /\ Group # Root /\ Child \in Containers /\ Group \in Containers
    BY ScopeAssumption DEF Containers
  <2> QED
    BY <1>2, <2>1 DEF OncePart, Holds
<1>6. SharePart
  BY <1>2, ScopeAssumption DEF SharePart
<1>7. ReleasesNewestFirst
  BY <1>2 DEF ReleasesNewestFirst
<1> QED
  BY <1>1, <1>3, <1>4, <1>5, <1>6, <1>7 DEF ScopeInv

\* Every step keeps the invariant.
LEMMA ScopeNext == ScopeInv /\ [Next]_vars => ScopeInv'
<1> SUFFICES ASSUME ScopeInv, [Next]_vars PROVE ScopeInv'
  OBVIOUS
<1>1. /\ GroupPart'
      /\ \A r \in 1..MaxRuns : promise[r] # "pending" => promise'[r] # "pending"
  BY GroupKeeps, StepIsGroupStep DEF ScopeInv
<1> SUFFICES ScopeTypes' /\ ListPart' /\ OncePart' /\ SharePart' /\ ReleasesNewestFirst'
  BY <1>1 DEF ScopeInv
<1>2. ASSUME NEW c \in Containers, NEW x \in Resources, Add(c, x)
      PROVE  ScopeTypes' /\ ListPart' /\ OncePart' /\ SharePart' /\ ReleasesNewestFirst'
  BY <1>2, AddStep
<1>3. ASSUME NEW c \in Containers,
             Dispose(c) \/ DisposeResource(c) \/ ResourceDisposed(c) \/ Disposed(c)
      PROVE  ScopeTypes' /\ ListPart' /\ OncePart' /\ SharePart' /\ ReleasesNewestFirst'
  BY <1>1, <1>3, DisposeStep, DisposeResourceStep, ResourceDisposedStep, DisposedStep
<1>4. ASSUME NEW x \in Leaves, NEW ok \in BOOLEAN, LeafCloses(x, ok)
      PROVE  ScopeTypes' /\ ListPart' /\ OncePart' /\ SharePart' /\ ReleasesNewestFirst'
  <2>1. /\ leaf' \in [Leaves -> {"new", "held", "closing", "closed"}]
        /\ \A y \in Leaves : leaf[y] = "closed" => leaf'[y] = "closed"
    BY <1>4 DEF LeafCloses, ScopeInv, ScopeTypes
  <2>2. failed' \in [Containers -> BOOLEAN]
    <3>1. failed' = [c \in Containers |-> failed[c] \/ (busy[c] = x /\ ~ok)]
      BY <1>4 DEF LeafCloses
    <3>2. \A c \in Containers : (failed[c] \/ (busy[c] = x /\ ~ok)) \in BOOLEAN
      OBVIOUS
    <3> QED
      BY <3>1, <3>2
  <2> QED
    BY <1>1, <1>4, <2>1, <2>2, OthersStep DEF LeafCloses
<1>5. CASE UNCHANGED scopeVars
  BY <1>1, <1>5, OthersStep DEF scopeVars, ScopeInv, ScopeTypes
<1> QED
  BY <1>2, <1>3, <1>4, <1>5 DEF Next, vars

\* Scopes keep the invariant for ever.
THEOREM ScopeCorrect == Spec => []ScopeInv
BY ScopeInit, ScopeNext, PTL DEF Spec

\* The variables of scopes and of the task group have their types.
THEOREM ScopeTypeCorrect == Spec => []TypeOK
<1>1. ScopeInv => TypeOK
  BY DEF ScopeInv, ScopeTypes, GroupPart, TypeOK
<1> QED
  BY <1>1, ScopeCorrect, PTL

\* A disposal releases all that a scope or a subscription group ever accepted,
\* newest first, however disposals nest, overlap and fail.
THEOREM ScopeReleasesNewestFirst == Spec => []ReleasesNewestFirst
<1>1. ScopeInv => ReleasesNewestFirst
  BY DEF ScopeInv
<1> QED
  BY <1>1, ScopeCorrect, PTL

================================================================================
