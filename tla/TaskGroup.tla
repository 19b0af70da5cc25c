------------------------------- MODULE TaskGroup -------------------------------
(***************************************************************************)
(* core/task-group.ts: a group of long-running workers that are started,   *)
(* aborted and joined together.  A worker runs iterations until one ends   *)
(* without being restarted; its promise is taken out of the set of tasks a *)
(* few microtasks later, and the last one to leave completes the group.    *)
(***************************************************************************)
EXTENDS Naturals

CONSTANTS
    Workers,     \* the workers of a run (concurrency of them)
    Policies,    \* error policies of this instance
    MaxRuns,     \* bound on completion promises, hence on start()
    MaxRestarts  \* bound on the iterations restarted in a behaviour

ASSUME TaskGroupAssumption ==
    /\ Policies \subseteq {"stop-group", "restart-task", "ignore"}
    /\ MaxRuns \in Nat \ {0} /\ MaxRestarts \in Nat

VARIABLES
    policy,    \* errorPolicy
    status,    \* state.status
    error,     \* state.error, "none" for null
    aborted,   \* the controller's signal is aborted
    run,       \* which completion promise is state.completion
    promise,   \* the completion promises: pending, resolved or rejected
    task,      \* each worker: none, running, or ended with its promise still in tasks
    restarts,  \* iterations restarted so far
    struck     \* the failure of a worker that stopped a run, or "none" (history)

groupVars == <<policy, status, error, aborted, run, promise, task, restarts, struck>>

(* What an iteration rejects with: an error, or a value such as undefined  *)
(* that tests false.                                                       *)
Failures == {"error", "falsy"}

GroupInit ==
    /\ policy \in Policies
    /\ status = "idle" /\ error = "none" /\ aborted = FALSE
    /\ run = 1 /\ promise = [r \in 1..MaxRuns |-> "pending"]
    /\ task = [w \in Workers |-> "none"]
    /\ restarts = 0 /\ struck = [r \in 1..MaxRuns |-> "none"]

(* start(): a failed group is not started again, a stopped one gets a new  *)
(* completion promise.                                                     *)
StartGroup ==
    /\ status \in {"idle", "stopped"}
    /\ run' = IF status = "stopped" THEN run + 1 ELSE run
    /\ run' \in 1..MaxRuns
    /\ status' = "running" /\ error' = "none" /\ aborted' = FALSE
    /\ task' = [w \in Workers |-> "running"]
    /\ UNCHANGED <<policy, promise, restarts, struck>>

(* stop() and dispose(), up to their await of the completion promise.      *)
StopGroup ==
    /\ status' = CASE status = "idle" -> "stopped"
                   [] status = "running" -> "stopping"
                   [] OTHER -> status
    /\ aborted' = (aborted \/ status = "running")
    /\ promise' = IF status = "idle" THEN [promise EXCEPT ![run] = "resolved"] ELSE promise
    /\ UNCHANGED <<policy, error, run, task, restarts, struck>>

(* handleWorkerError under "stop-group": the first failure stops the rest. *)
HandleWorkerError(how) ==
    /\ error' = how /\ status' = "stopping" /\ aborted' = TRUE
    /\ struck' = [struck EXCEPT ![run] = how]

(* An iteration of w ends: "ok", with an AbortError ("abort") or with a    *)
(* failure, which the policy decides about.                                *)
RunSettles(w, how) ==
    /\ task[w] = "running"
    /\ \/ /\ how \in {"ok", "abort"} \/ status = "stopping" \/ policy = "ignore"
          /\ task' = [task EXCEPT ![w] = "ended"]
          /\ UNCHANGED <<status, error, aborted, restarts, struck>>
       \/ /\ how \in Failures /\ status # "stopping" /\ policy = "stop-group"
          /\ HandleWorkerError(how)
          /\ task' = [task EXCEPT ![w] = "ended"]
          /\ UNCHANGED restarts
       \/ /\ how \in Failures /\ status # "stopping" /\ policy = "restart-task"
          /\ restarts < MaxRestarts /\ restarts' = restarts + 1
          /\ UNCHANGED <<status, error, aborted, task, struck>>
    /\ UNCHANGED <<policy, run, promise>>

(* complete(): the last task is gone; state.error is tested for truth.     *)
Complete ==
    IF error = "error"
    THEN status' = "failed" /\ promise' = [promise EXCEPT ![run] = "rejected"]
    ELSE status' = "stopped" /\ promise' = [promise EXCEPT ![run] = "resolved"]

(* A variant that completes a stopping group with its first task.          *)
MaybeFinishEarly(left) ==
    IF left = {} \/ status = "stopping" THEN Complete ELSE UNCHANGED <<status, promise>>

(* maybeFinish(), with the tasks that are left.                            *)
MaybeFinish(left) ==
    IF left = {} THEN Complete ELSE UNCHANGED <<status, promise>>

(* track()'s finally callback.                                             *)
Untrack(w) ==
    /\ task[w] = "ended"
    /\ task' = [task EXCEPT ![w] = "none"]
    /\ MaybeFinish({v \in Workers \ {w} : task[v] # "none"})
    /\ UNCHANGED <<policy, error, aborted, run, restarts, struck>>

GroupStep ==
    \/ StartGroup \/ StopGroup
    \/ \E w \in Workers : Untrack(w)
    \/ \E w \in Workers, how \in {"ok", "abort"} \cup Failures : RunSettles(w, how)

-----------------------------------------------------------------------------
(* The variables have their types.                                         *)
GroupTypeOK ==
    /\ policy \in Policies /\ aborted \in BOOLEAN /\ restarts \in 0..MaxRestarts
    /\ status \in {"idle", "running", "stopping", "stopped", "failed"}
    /\ error \in Failures \cup {"none"}
    /\ run \in 1..MaxRuns /\ struck \in [1..MaxRuns -> Failures \cup {"none"}]
    /\ promise \in [1..MaxRuns -> {"pending", "resolved", "rejected"}]
    /\ task \in [Workers -> {"none", "running", "ended"}]

(* join() and stop() tell the truth about their run: they settle when none *)
(* of its workers is left, and reject exactly when the failure of a worker *)
(* stopped it ("rejects with a stop-group worker failure"), with one        *)
(* exception: a rejection that tests false, like Promise.reject(), stops   *)
(* the run, but maybeFinish() (task-group.ts:102) takes it for no failure  *)
(* and the group ends as stopped.                                          *)
JoinTellsTheOutcome ==
    \A r \in 1..run : promise[r] # "pending" =>
        /\ promise[r] = "rejected" <=> struck[r] = "error"
        /\ r = run => \A w \in Workers : task[w] = "none"

(* What the comment on join() says, without the exception.                 *)
JoinRejectsEveryFailure ==
    \A r \in 1..run : promise[r] = "resolved" => struck[r] = "none"
================================================================================
