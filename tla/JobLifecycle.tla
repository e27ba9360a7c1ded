---------------------------- MODULE JobLifecycle ----------------------------
(***************************************************************************)
(* What a queue promises about each of its tasks, whoever claims it and    *)
(* whatever fails: the task waits, is claimed, runs, and ends exactly once; *)
(* an execution that ends consumes one attempt of the budget; only a claim *)
(* that never ran may be handed back without a charge; a task that cannot  *)
(* run again is dead, never waiting; an ended task changes no more, except *)
(* that retention removes it.                                              *)
(*                                                                         *)
(* Several tasks may step at once: a takeover or a release recovers all    *)
(* the claims of a worker in one transaction.                              *)
(***************************************************************************)
EXTENDS Integers

CONSTANTS
  Task,         \* task ids
  MaxAttempts   \* attempts each task may consume

VARIABLES
  phase,        \* the phase of each task
  attempts      \* attempts it has consumed

vars == <<phase, attempts>>

Phase == {"absent", "waiting", "claimed", "running", "done", "dead", "removed"}

Init ==
  /\ phase = [t \in Task |-> "absent"]
  /\ attempts = [t \in Task |-> 0]

Moves(t, from, to, charge) ==
  /\ phase[t] \in from
  /\ phase'[t] = to
  /\ attempts'[t] = attempts[t] + charge

Submit(t) == Moves(t, {"absent"}, "waiting", 0)

\* A task is claimed only while it has budget.
TakeUp(t) ==
  /\ attempts[t] < MaxAttempts[t]
  /\ Moves(t, {"waiting"}, "claimed", 0) \/ Moves(t, {"waiting"}, "running", 0)

Run(t) == Moves(t, {"claimed"}, "running", 0)

Complete(t) == Moves(t, {"claimed", "running"}, "done", 1)

\* A failed or lost execution returns to waiting if an attempt is left.
Fail(t) ==
  Moves(t, {"claimed", "running"},
        IF attempts[t] + 1 < MaxAttempts[t] THEN "waiting" ELSE "dead", 1)

HandBack(t) == Moves(t, {"claimed"}, "waiting", 0)

\* A row that cannot be read is killed by the claim that finds it.
Quarantine(t) == attempts[t] < MaxAttempts[t] /\ Moves(t, {"waiting"}, "dead", 1)

Remove(t) == Moves(t, {"done", "dead"}, "removed", 0)

Stays(t) == phase'[t] = phase[t] /\ attempts'[t] = attempts[t]

TaskStep(t) ==
  \/ Submit(t) \/ TakeUp(t) \/ Run(t) \/ Complete(t) \/ Fail(t)
  \/ HandBack(t) \/ Quarantine(t) \/ Remove(t) \/ Stays(t)

Next ==
  /\ phase' \in [Task -> Phase]
  /\ attempts' \in [Task -> Nat]
  /\ \A t \in Task : TaskStep(t)

Spec == Init /\ [][Next]_vars

=============================================================================
