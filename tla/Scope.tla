--------------------------------- MODULE Scope ---------------------------------
(***************************************************************************)
(* core/lifecycle.ts: scopes and subscription groups own resources and     *)
(* release them, newest first and one at a time, when they are disposed.   *)
(* The instance is a scope with, where the application creates them, a     *)
(* child scope, a subscription group, a task group whose stop() is         *)
(* registered for disposal, and leaves: resources with an asynchronous     *)
(* closer that may fail.  Every call may come at any time, during a        *)
(* disposal too.                                                           *)
(***************************************************************************)
EXTENDS TaskGroup, SequencesExt

CONSTANTS
    Leaves,                    \* resources with a closer of their own
    Root, Child, Group, Crew,  \* the scopes, the subscription and the task group
    Nothing,                   \* no resource
    Scenes                     \* which resources the application may add together

ASSUME ScopeAssumption ==
    /\ Scenes \subseteq SUBSET (Leaves \cup {Child, Group, Crew})
    /\ {Root, Child, Group, Crew, Nothing} \cap Leaves = {}
    /\ Root \notin {Child, Group, Crew, Nothing} /\ Child \notin {Group, Crew, Nothing}
    /\ Group \notin {Crew, Nothing} /\ Crew # Nothing

Containers == {Root, Child, Group}
Resources == Leaves \cup {Child, Group, Crew}

VARIABLES
    scene,      \* the resources of this behaviour
    stage,      \* container: absent, open, disposing, disposed
    resources,  \* its list
    todo,       \* what is left of the snapshot dispose() works through
    busy,       \* the resource whose release it awaits
    shared,     \* that release was begun by another call
    failed,     \* a release failed
    leaf,       \* leaf: new, held, closing, closed
    awaited,    \* the run of the task group that its release awaits
    byApp,      \* containers the application itself began to dispose
    added       \* all resources a container accepted, in order (history)

scopeVars == <<scene, stage, resources, todo, busy, shared, failed, leaf, awaited, byApp, added>>
vars == <<groupVars, scopeVars>>

Init ==
    /\ GroupInit
    /\ scene \in Scenes
    /\ stage = [c \in Containers |-> IF c = Root THEN "open" ELSE "absent"]
    /\ resources = [c \in Containers |-> <<>>] /\ added = resources /\ todo = resources
    /\ busy = [c \in Containers |-> Nothing]
    /\ shared = [c \in Containers |-> FALSE]
    /\ failed = [c \in Containers |-> FALSE]
    /\ leaf = [x \in Leaves |-> "new"]
    /\ awaited = 0 /\ byApp = {}

-----------------------------------------------------------------------------
(* A variant that refuses additions only once the disposal is over.        *)
AcceptsUntilDisposed(c) == stage[c] \in {"open", "disposing"}

(* add() throws when the scope is disposing or disposed, the group closed. *)
Accepts(c) == stage[c] = "open"

(* add(), createScope(name, parent) and createSubscriptionGroup().  A      *)
(* resource is added once; containers do not contain each other twice.     *)
Add(c, x) ==
    /\ Accepts(c) /\ x \in scene
    /\ \A d \in Containers : ~ Contains(added[d], x)
    /\ x = Child => c = Root
    /\ x = Group => c # Group
    /\ resources' = [resources EXCEPT ![c] = Append(@, x)]
    /\ added' = [added EXCEPT ![c] = Append(@, x)]
    /\ stage' = IF x \in Containers THEN [stage EXCEPT ![x] = "open"] ELSE stage
    /\ leaf' = IF x \in Leaves THEN [leaf EXCEPT ![x] = "held"] ELSE leaf
    /\ UNCHANGED <<groupVars, scene, todo, busy, shared, failed, awaited, byApp>>

(* dispose() or unsubscribe() of c up to its first await, if c is open.  A *)
(* later call changes nothing: a scope hands out the completion promise, a *)
(* group returns at once.                                                  *)
Begins(c) ==
    IF stage[c] # "open" THEN UNCHANGED <<stage, todo, resources>>
    ELSE /\ stage' = [stage EXCEPT ![c] = "disposing"]
         /\ todo' = [todo EXCEPT ![c] = Reverse(resources[c])]
         /\ resources' = [resources EXCEPT ![c] = <<>>]

Dispose(c) ==
    /\ stage[c] = "open"
    /\ Begins(c)
    /\ byApp' = byApp \cup {c}
    /\ UNCHANGED <<groupVars, scene, busy, shared, failed, leaf, awaited, added>>

(* disposeResource(): call the release of the next resource.               *)
DisposeResource(c) ==
    /\ stage[c] = "disposing" /\ busy[c] = Nothing /\ todo[c] # <<>>
    /\ LET x == Head(todo[c]) IN
       /\ busy' = [busy EXCEPT ![c] = x]
       /\ shared' = [shared EXCEPT ![c] = x \in Containers /\ stage[x] # "open"]
       /\ leaf' = IF x \in Leaves THEN [leaf EXCEPT ![x] = "closing"] ELSE leaf
       /\ awaited' = IF x = Crew THEN run ELSE awaited
       /\ IF x = Crew THEN StopGroup ELSE UNCHANGED groupVars
       /\ IF x \in Containers THEN Begins(x) ELSE UNCHANGED <<stage, todo, resources>>
    /\ UNCHANGED <<scene, failed, byApp, added>>

(* The awaited release is over; a group that somebody else closes is not   *)
(* awaited.                                                                *)
IsOver(c) ==
    LET x == busy[c] IN
    \/ x \in Leaves /\ leaf[x] = "closed"
    \/ x = Child /\ stage[x] = "disposed"
    \/ x = Group /\ (shared[c] \/ stage[x] = "disposed")
    \/ x = Crew /\ promise[awaited] # "pending"

(* It failed, as far as this call is told: who began the disposal of a     *)
(* scope is not told, who joined it is; with a group it is the reverse.    *)
IsFailure(c) ==
    LET x == busy[c] IN
    \/ x = Child /\ shared[c] /\ failed[x]
    \/ x = Group /\ ~shared[c] /\ failed[x]
    \/ x = Crew /\ promise[awaited] = "rejected"

(* The loop goes on with the next resource.                                *)
ResourceDisposed(c) ==
    /\ busy[c] # Nothing /\ IsOver(c)
    /\ busy' = [busy EXCEPT ![c] = Nothing]
    /\ todo' = [todo EXCEPT ![c] = Tail(@)]
    /\ shared' = [shared EXCEPT ![c] = FALSE]
    /\ failed' = [failed EXCEPT ![c] = @ \/ IsFailure(c)]
    /\ UNCHANGED <<groupVars, scene, stage, resources, leaf, awaited, byApp, added>>

(* A variant without the try block: a closer that fails ends the loop.     *)
LeafClosesOrThrows(x, ok) ==
    /\ leaf[x] = "closing"
    /\ leaf' = [leaf EXCEPT ![x] = IF ok THEN "closed" ELSE "broken"]
    /\ failed' = [c \in Containers |-> failed[c] \/ (busy[c] = x /\ ~ok)]
    /\ UNCHANGED <<groupVars, scene, stage, resources, todo, busy, shared, awaited, byApp, added>>

(* A leaf's closer settles; a failure is kept in errors.                   *)
LeafCloses(x, ok) ==
    /\ leaf[x] = "closing"
    /\ leaf' = [leaf EXCEPT ![x] = "closed"]
    /\ failed' = [c \in Containers |-> failed[c] \/ (busy[c] = x /\ ~ok)]
    /\ UNCHANGED <<groupVars, scene, stage, resources, todo, busy, shared, awaited, byApp, added>>

(* The snapshot is worked off: disposed, and the completion promise        *)
(* settles.                                                                *)
Disposed(c) ==
    /\ stage[c] = "disposing" /\ todo[c] = <<>>
    /\ stage' = [stage EXCEPT ![c] = "disposed"]
    /\ UNCHANGED <<groupVars, scene, resources, todo, busy, shared, failed, leaf, awaited, byApp, added>>

-----------------------------------------------------------------------------
Next ==
    \/ \E c \in Containers :
          \/ \E x \in Resources : Add(c, x)
          \/ Dispose(c) \/ DisposeResource(c) \/ ResourceDisposed(c) \/ Disposed(c)
    \/ \E x \in Leaves, ok \in BOOLEAN : LeafCloses(x, ok)
    \/ Crew \in scene /\ GroupStep /\ UNCHANGED scopeVars

(* Continuations run, closers settle, and a worker observes its signal, as *)
(* TaskContext asks ("task code must observe it to stop promptly").        *)
Fairness ==
    /\ \A c \in Containers :
          WF_vars(DisposeResource(c)) /\ WF_vars(ResourceDisposed(c)) /\ WF_vars(Disposed(c))
    /\ \A x \in Leaves : WF_vars(\E ok \in BOOLEAN : LeafCloses(x, ok))
    /\ \A w \in Workers :
          /\ WF_vars(Untrack(w) /\ UNCHANGED scopeVars)
          /\ WF_vars(/\ aborted /\ UNCHANGED scopeVars
                     /\ \E how \in {"ok", "abort"} \cup Failures : RunSettles(w, how))

Spec == Init /\ [][Next]_vars /\ Fairness

-----------------------------------------------------------------------------
(* Properties *)

(* The variables have their types.                                         *)
TypeOK ==
    /\ GroupTypeOK
    /\ scene \in Scenes /\ byApp \subseteq Containers /\ awaited \in 0..MaxRuns
    /\ stage \in [Containers -> {"absent", "open", "disposing", "disposed"}]
    /\ \A list \in {resources, todo, added} : list \in [Containers -> Seq(scene)]
    /\ busy \in [Containers -> scene \cup {Nothing}]
    /\ shared \in [Containers -> BOOLEAN] /\ failed \in [Containers -> BOOLEAN]
    /\ leaf \in [Leaves -> {"new", "held", "closing", "closed"}]

(* x is released, for the container that disposes of it.  A group that the *)
(* application is closing itself counts: nobody waits for it.              *)
Released(x) ==
    \/ x \in Leaves /\ leaf[x] = "closed"
    \/ x = Child /\ stage[x] = "disposed"
    \/ x = Group /\ (stage[x] = "disposed" \/ (x \in byApp /\ stage[x] = "disposing"))
    \/ x = Crew /\ awaited # 0 /\ promise[awaited] # "pending"

(* A disposal releases everything the container ever accepted, newest      *)
(* first: what it has worked through is released, and when it is over that *)
(* is all, additions during the disposal included ("silently orphaned,     *)
(* never disposed by this call or any future one").                        *)
ReleasesNewestFirst ==
    \A c \in Containers : stage[c] \in {"disposing", "disposed"} =>
        \A i \in (Len(todo[c]) + 1)..Len(added[c]) : Released(added[c][i])

(* Disposals end, whatever fails on the way and however nested and         *)
(* concurrent they are, and so does a group that was told to stop.         *)
EndsWhenAsked ==
    /\ \A c \in Containers : stage[c] = "disposing" ~> stage[c] = "disposed"
    /\ status = "stopping" ~> status \in {"stopped", "failed"}
================================================================================
