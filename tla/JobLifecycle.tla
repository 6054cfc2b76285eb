---------------------------- MODULE JobLifecycle ----------------------------
(***************************************************************************)
(* What a job queue with retries promises about each job, told without     *)
(* workers, clones or a store: a job waits and is active in turn, at most  *)
(* Budget times; success is final, so is removal; a job out of budget is   *)
(* dead until it is revived with a fresh budget.  A job whose worker died  *)
(* is stuck: the queue has no visibility timeout that returns it.          *)
(***************************************************************************)
EXTENDS Naturals

CONSTANTS
  Jobs,
  Budget      \* attempts each job is worth between two revivals

VARIABLES
  phase,
  left        \* attempts left

Phase == {"none", "waiting", "active", "done", "dead", "stuck", "gone"}

Init ==
  /\ phase = [j \in Jobs |-> "none"]
  /\ left = Budget

Moves(j, from, to) == phase[j] = from /\ phase' = [phase EXCEPT ![j] = to]

Submit(j) == Moves(j, "none", "waiting") /\ UNCHANGED left

Start(j) ==
  /\ left[j] > 0
  /\ Moves(j, "waiting", "active")
  /\ left' = [left EXCEPT ![j] = @ - 1]

Succeed(j) == Moves(j, "active", "done") /\ UNCHANGED left

Retry(j) == left[j] > 0 /\ Moves(j, "active", "waiting") /\ UNCHANGED left

Bury(j) == left[j] = 0 /\ Moves(j, "active", "dead") /\ UNCHANGED left

\* The worker dies; a job deleted under it is gone, any other is stuck.
Abandon(j) ==
  /\ Moves(j, "active", "stuck") \/ Moves(j, "active", "gone")
  /\ UNCHANGED left

Revive(S) ==
  /\ \A j \in S : phase[j] = "dead"
  /\ phase' = [j \in Jobs |-> IF j \in S THEN "waiting" ELSE phase[j]]
  /\ left' = [j \in Jobs |-> IF j \in S THEN Budget[j] ELSE left[j]]

Remove(S) ==
  /\ \A j \in S : phase[j] \in {"waiting", "done", "dead", "stuck"}
  /\ phase' = [j \in Jobs |-> IF j \in S THEN "gone" ELSE phase[j]]
  /\ UNCHANGED left

Next ==
  \/ \E j \in Jobs :
       Submit(j) \/ Start(j) \/ Succeed(j) \/ Retry(j) \/ Bury(j) \/ Abandon(j)
  \/ \E S \in SUBSET Jobs : Revive(S) \/ Remove(S)

Spec == Init /\ [][Next]_<<phase, left>>

=============================================================================
