------------------------- MODULE NotificationsProofs -------------------------
(***************************************************************************)
(* Proofs about JobQueue and about Notifications, which is built on it.    *)
(*                                                                         *)
(* The queue: for every set of jobs and workers, every assignment of       *)
(* queues, priorities, handlers and retry budgets, and any subset of the   *)
(* workers crashing.  The service: for every set of users with any         *)
(* settings, any number of notifier calls about any events, any of which   *)
(* may be dropped or refused by the queue, and any number of mark_read     *)
(* calls.                                                                  *)
(***************************************************************************)
EXTENDS Notifications, TLAPS

(* An id nobody has drawn yet has left no trace.                           *)
FreshIds ==
  \A j \in JobIds \ minted :
    jobs[j] = NoJob /\ attempts[j] = 0 /\ successes[j] = 0 /\ j \notin lost /\ ~Held(j)

(* A job that died with its worker is never taken again.                   *)
LostIsNotHeld == \A j \in lost : ~Held(j)

(* What a worker's clone and the handler's outcome say about its job.      *)
HolderAccounting ==
  \A w \in Workers : pc[w] \in Busy =>
    /\ hand[w].id \in JobIds
    /\ hand[w].retries <= MaxRetries[hand[w].id]
    /\ successes[hand[w].id] = IF pc[w] = "succeeded" THEN 1 ELSE 0

(* The inductive invariant.                                                *)
IInv ==
  /\ TypeOK
  /\ FreshIds
  /\ SingleHolder
  /\ RunningIsHeld
  /\ LostIsNotHeld
  /\ RetryAccounting
  /\ HolderAccounting
  /\ NoRerunAfterSuccess

-----------------------------------------------------------------------------
LEMMA InitIInv == Init => IInv
<1> SUFFICES ASSUME Init PROVE IInv
  OBVIOUS
<1> USE DEF Init
<1>1. TypeOK
  <2>1. NoJob \in Job
    BY DEF NoJob, Job
  <2>2. revivals \in 0 .. MaxRevivals
    BY JobQueueAssumption
  <2>3. QED
    BY <2>1, <2>2 DEF TypeOK, Pc, Busy
<1>2. FreshIds /\ LostIsNotHeld /\ SingleHolder /\ HolderAccounting
  BY DEF FreshIds, LostIsNotHeld, SingleHolder, HolderAccounting, Held, Holds, Busy
<1>3. RunningIsHeld /\ RetryAccounting /\ NoRerunAfterSuccess
  BY JobQueueAssumption
  DEF RunningIsHeld, RetryAccounting, NoRerunAfterSuccess, NoJob, Held, Holds, Busy
<1>4. QED
  BY <1>1, <1>2, <1>3 DEF IInv

(***************************************************************************)
(* Clients: who holds what does not change.                                *)
(***************************************************************************)
LEMMA SameHolders ==
  ASSUME UNCHANGED <<pc, hand>>
  PROVE  /\ \A w \in Workers, j \in JobIds : Holds(w, j)' <=> Holds(w, j)
         /\ \A j \in JobIds : Held(j)' <=> Held(j)
<1>1. \A w \in Workers, j \in JobIds : Holds(w, j)' <=> Holds(w, j)
  BY DEF Holds
<1>2. QED
  BY <1>1 DEF Held

LEMMA EnqueueIInv ==
  ASSUME IInv, NEW j \in JobIds, NEW due \in BOOLEAN, Enqueue(j, due)
  PROVE  IInv'
<1> USE JobQueueAssumption DEF Enqueue, history
<1>1. /\ \A w \in Workers, k \in JobIds : Holds(w, k)' <=> Holds(w, k)
      /\ \A k \in JobIds : Held(k)' <=> Held(k)
  BY SameHolders
<1>2. j \notin lost /\ ~Held(j) /\ attempts[j] = 0 /\ successes[j] = 0
  BY DEF IInv, FreshIds
<1>3. TypeOK'
  BY DEF IInv, TypeOK, Job, Status
<1>4. FreshIds' /\ LostIsNotHeld'
  BY <1>1 DEF IInv, FreshIds, LostIsNotHeld, TypeOK
<1>5. SingleHolder'
  BY <1>1 DEF IInv, SingleHolder
<1>6. RunningIsHeld' /\ NoRerunAfterSuccess'
  BY <1>1, <1>2 DEF IInv, RunningIsHeld, NoRerunAfterSuccess, TypeOK
<1>7. RetryAccounting'
  <2>1. /\ jobs'[j] = [status |-> "Pending", retries |-> 0, due |-> due]
        /\ \A k \in JobIds \ {j} : jobs'[k] = jobs[k]
    BY DEF IInv, TypeOK
  <2>2. QED
    BY <1>2, <2>1 DEF IInv, RetryAccounting
<1>8. HolderAccounting'
  BY DEF IInv, HolderAccounting
<1>9. QED
  BY <1>3, <1>4, <1>5, <1>6, <1>7, <1>8 DEF IInv

LEMMA DeleteIInv ==
  ASSUME IInv, NEW j \in JobIds, Delete(j)
  PROVE  IInv'
<1> USE JobQueueAssumption DEF Delete, history
<1>1. /\ \A w \in Workers, k \in JobIds : Holds(w, k)' <=> Holds(w, k)
      /\ \A k \in JobIds : Held(k)' <=> Held(k)
  BY SameHolders
<1>2. TypeOK'
  BY DEF IInv, TypeOK, Job, NoJob, Status
<1>3. FreshIds' /\ LostIsNotHeld' /\ SingleHolder'
  BY <1>1 DEF IInv, FreshIds, LostIsNotHeld, SingleHolder, TypeOK
<1>4. RunningIsHeld' /\ NoRerunAfterSuccess'
  BY <1>1 DEF IInv, RunningIsHeld, NoRerunAfterSuccess, TypeOK, NoJob
<1>5. RetryAccounting'
  <2>1. /\ jobs'[j] = NoJob
        /\ \A k \in JobIds \ {j} : jobs'[k] = jobs[k]
    BY DEF IInv, TypeOK
  <2>2. QED
    BY <2>1 DEF IInv, RetryAccounting, NoJob
<1>6. HolderAccounting'
  BY DEF IInv, HolderAccounting
<1>7. QED
  BY <1>2, <1>3, <1>4, <1>5, <1>6 DEF IInv

LEMMA RetryDeadIInv ==
  ASSUME IInv, NEW q, RetryDead(q)
  PROVE  IInv'
<1> USE JobQueueAssumption DEF RetryDead, Dead
<1>1. /\ \A w \in Workers, k \in JobIds : Holds(w, k)' <=> Holds(w, k)
      /\ \A k \in JobIds : Held(k)' <=> Held(k)
  BY SameHolders
<1>2. \A k \in Dead(q) : ~Held(k) /\ k \notin lost /\ k \in minted
  BY DEF IInv, RunningIsHeld, FreshIds, NoJob
<1>3. TypeOK'
  BY DEF IInv, TypeOK, Job, Status
<1>4. FreshIds' /\ LostIsNotHeld' /\ SingleHolder'
  BY <1>1, <1>2 DEF IInv, FreshIds, LostIsNotHeld, SingleHolder, TypeOK
<1>5. RunningIsHeld' /\ NoRerunAfterSuccess'
  BY <1>1, <1>2 DEF IInv, RunningIsHeld, NoRerunAfterSuccess, TypeOK
<1>6. \A w \in Workers : pc[w] \in Busy => hand[w].id \notin Dead(q)
  BY <1>2 DEF Held, Holds, IInv, HolderAccounting
<1>7. RetryAccounting' /\ HolderAccounting'
  BY <1>6 DEF IInv, RetryAccounting, HolderAccounting, TypeOK
<1>8. QED
  BY <1>3, <1>4, <1>5, <1>7 DEF IInv

LEMMA ClearCompletedIInv ==
  ASSUME IInv, NEW q, ClearCompleted(q)
  PROVE  IInv'
<1> USE JobQueueAssumption DEF ClearCompleted, Completed, history
<1>1. /\ \A w \in Workers, k \in JobIds : Holds(w, k)' <=> Holds(w, k)
      /\ \A k \in JobIds : Held(k)' <=> Held(k)
  BY SameHolders
<1>2. TypeOK'
  BY DEF IInv, TypeOK, Job, NoJob, Status
<1>3. FreshIds' /\ LostIsNotHeld' /\ SingleHolder'
  BY <1>1 DEF IInv, FreshIds, LostIsNotHeld, SingleHolder, TypeOK
<1>4. RunningIsHeld' /\ NoRerunAfterSuccess'
  BY <1>1 DEF IInv, RunningIsHeld, NoRerunAfterSuccess, TypeOK, NoJob
<1>5. RetryAccounting' /\ HolderAccounting'
  BY DEF IInv, RetryAccounting, HolderAccounting, TypeOK, NoJob
<1>6. QED
  BY <1>2, <1>3, <1>4, <1>5 DEF IInv

LEMMA SignalShutdownIInv ==
  ASSUME IInv, SignalShutdown
  PROVE  IInv'
<1> USE DEF SignalShutdown, history
<1>1. /\ \A w \in Workers, k \in JobIds : Holds(w, k)' <=> Holds(w, k)
      /\ \A k \in JobIds : Held(k)' <=> Held(k)
  BY SameHolders
<1>2. TypeOK' /\ RetryAccounting' /\ HolderAccounting'
  BY DEF IInv, TypeOK, RetryAccounting, HolderAccounting
<1>3. FreshIds' /\ LostIsNotHeld' /\ SingleHolder'
  BY <1>1 DEF IInv, TypeOK, FreshIds, LostIsNotHeld, SingleHolder
<1>4. RunningIsHeld' /\ NoRerunAfterSuccess'
  BY <1>1 DEF IInv, RunningIsHeld, NoRerunAfterSuccess
<1>5. QED
  BY <1>2, <1>3, <1>4 DEF IInv

LEMMA BecomeReadyIInv ==
  ASSUME IInv, NEW j \in JobIds, BecomeReady(j)
  PROVE  IInv'
<1> USE DEF BecomeReady, history
<1>1. /\ \A w \in Workers, k \in JobIds : Holds(w, k)' <=> Holds(w, k)
      /\ \A k \in JobIds : Held(k)' <=> Held(k)
  BY SameHolders
<1>2. /\ jobs' \in [JobIds -> Job]
      /\ \A k \in JobIds : /\ jobs'[k].status = jobs[k].status
                           /\ jobs'[k].retries = jobs[k].retries
                           /\ k # j => jobs'[k] = jobs[k]
  BY DEF IInv, TypeOK, Job
<1>3. TypeOK'
  BY <1>2 DEF IInv, TypeOK
<1>4. FreshIds'
  <2>1. j \in minted
    BY DEF IInv, FreshIds, Stored, NoJob
  <2>2. QED
    BY <1>1, <1>2, <2>1 DEF IInv, FreshIds
<1>8. LostIsNotHeld' /\ SingleHolder'
  BY <1>1 DEF IInv, TypeOK, LostIsNotHeld, SingleHolder
<1>5. RunningIsHeld' /\ NoRerunAfterSuccess'
  BY <1>1, <1>2 DEF IInv, RunningIsHeld, NoRerunAfterSuccess
<1>6. RetryAccounting' /\ HolderAccounting'
  BY <1>2 DEF IInv, RetryAccounting, HolderAccounting
<1>7. QED
  BY <1>3, <1>4, <1>5, <1>6, <1>8 DEF IInv

(***************************************************************************)
(* Workers.                                                                *)
(***************************************************************************)
\* A worker that comes or goes empty-handed changes no holder.
LEMMA IdleMoves ==
  ASSUME TypeOK, NEW w \in Workers, NEW to \in Pc,
         pc[w] \notin Busy, to \notin Busy,
         pc' = [pc EXCEPT ![w] = to],
         \A v \in Workers \ {w} : hand'[v] = hand[v]
  PROVE  /\ \A v \in Workers : pc'[v] \in Busy <=> pc[v] \in Busy
         /\ \A v \in Workers : pc[v] \in Busy => pc'[v] = pc[v] /\ hand'[v] = hand[v]
         /\ \A v \in Workers, k \in JobIds : Holds(v, k)' <=> Holds(v, k)
         /\ \A k \in JobIds : Held(k)' <=> Held(k)
<1>1. \A v \in Workers : pc'[v] = IF v = w THEN to ELSE pc[v]
  BY DEF TypeOK
<1>2. \A v \in Workers, k \in JobIds : Holds(v, k)' <=> Holds(v, k)
  BY <1>1 DEF Holds
<1>3. QED
  BY <1>1, <1>2 DEF Held

\* If nothing is stored, drawn or counted meanwhile, the invariant stands.
LEMMA IdleIInv ==
  ASSUME IInv, NEW w \in Workers, NEW to \in Pc,
         pc[w] \notin Busy, to \notin Busy,
         pc' = [pc EXCEPT ![w] = to],
         hand' = hand \/ hand' = [hand EXCEPT ![w] = NoClone],
         UNCHANGED <<jobs, minted, shutdown, revivals, history>>
  PROVE  IInv'
<1> USE DEF history
<1>1. TypeOK /\ \A v \in Workers \ {w} : hand'[v] = hand[v]
  BY DEF IInv, TypeOK
<1>2. /\ \A v \in Workers : pc'[v] \in Busy <=> pc[v] \in Busy
      /\ \A v \in Workers : pc[v] \in Busy => pc'[v] = pc[v] /\ hand'[v] = hand[v]
      /\ \A v \in Workers, k \in JobIds : Holds(v, k)' <=> Holds(v, k)
      /\ \A k \in JobIds : Held(k)' <=> Held(k)
  BY <1>1, IdleMoves
<1>3. TypeOK'
  BY <1>1, <1>2 DEF TypeOK
<1>4. FreshIds' /\ LostIsNotHeld' /\ SingleHolder'
  BY <1>1, <1>2 DEF IInv, TypeOK, FreshIds, LostIsNotHeld, SingleHolder
<1>5. RunningIsHeld' /\ NoRerunAfterSuccess'
  BY <1>2 DEF IInv, RunningIsHeld, NoRerunAfterSuccess
<1>6. RetryAccounting' /\ HolderAccounting'
  BY <1>2 DEF IInv, RetryAccounting, HolderAccounting
<1>7. QED
  BY <1>3, <1>4, <1>5, <1>6 DEF IInv

LEMMA LoopIInv ==
  ASSUME IInv, NEW w \in Workers, Loop(w)
  PROVE  IInv'
<1>1. PICK to \in {"stopped", "polling"} : pc' = [pc EXCEPT ![w] = to]
  BY DEF Loop
<1>2. pc[w] \notin Busy /\ to \notin Busy /\ to \in Pc
  BY DEF Loop, Busy, Pc
<1>3. QED
  BY <1>1, <1>2, IdleIInv DEF Loop

LEMMA DequeueIInv ==
  ASSUME IInv, NEW w \in Workers, Dequeue(w)
  PROVE  IInv'
<1> USE JobQueueAssumption
<1>1. CASE Candidates(Serves[w]) = {} /\ pc' = [pc EXCEPT ![w] = "top"]
           /\ UNCHANGED <<jobs, hand, attempts>>
  <2>1. pc[w] \notin Busy /\ "top" \notin Busy /\ "top" \in Pc
    BY DEF Dequeue, Busy, Pc
  <2>2. UNCHANGED <<jobs, minted, shutdown, revivals, history>>
    BY <1>1 DEF Dequeue, history
  <2>3. QED
    BY <1>1, <2>1, <2>2, IdleIInv
<1>2. ASSUME NEW j \in Candidates(Serves[w]), Take(w, j),
             jobs' = [jobs EXCEPT ![j] = MarkRunning(@)]
      PROVE  IInv'
  <2>1. /\ j \in JobIds /\ jobs[j].status \in {"Pending", "Retrying"}
        /\ UNCHANGED <<minted, shutdown, revivals, successes, lost>>
        /\ pc[w] \notin Busy
    BY <1>2 DEF Candidates, Ready, HighestPriority, Dequeue, Busy
  <2>2. jobs[j] \in Job /\ jobs[j].retries \in Nat
    BY <2>1 DEF IInv, TypeOK, Job
  <2>3. ~Held(j) /\ j \notin lost /\ j \in minted
    BY <2>1 DEF IInv, RunningIsHeld, FreshIds, NoJob
  <2>4. /\ jobs' \in [JobIds -> Job]
        /\ jobs'[j].status = "Running" /\ jobs'[j].retries = jobs[j].retries
        /\ \A k \in JobIds \ {j} : jobs'[k] = jobs[k]
    BY <1>2, <2>1, <2>2 DEF MarkRunning, IInv, TypeOK, Job, Status
  <2>5. /\ pc' \in [Workers -> Pc] /\ hand' \in [Workers -> Clone \cup {NoClone}]
        /\ pc'[w] \in {"handling", "failed"}
        /\ hand'[w] = [id |-> j, retries |-> jobs[j].retries] /\ hand'[w] \in Clone
        /\ \A v \in Workers \ {w} : pc'[v] = pc[v] /\ hand'[v] = hand[v]
    BY <1>2, <2>1, <2>2 DEF IInv, TypeOK, Take, Clone, Pc
  <2>6. /\ attempts' \in [JobIds -> Nat]
        /\ attempts'[j] = jobs[j].retries + 1
        /\ \A k \in JobIds \ {j} : attempts'[k] = attempts[k]
    BY <1>2, <2>1, <2>2 DEF IInv, TypeOK, Take, RetryAccounting
  <2>7. /\ \A v \in Workers, k \in JobIds :
             Holds(v, k)' <=> IF v = w THEN k = j ELSE Holds(v, k)
        /\ \A k \in JobIds : ~Holds(w, k)
    BY <2>1, <2>5 DEF Holds, Busy
  <2>8. \A k \in JobIds : Held(k)' <=> k = j \/ Held(k)
    BY <2>7 DEF Held
  <2>9. TypeOK'
    BY <2>1, <2>4, <2>5, <2>6 DEF IInv, TypeOK
  <2>10. FreshIds' /\ LostIsNotHeld'
    BY <2>1, <2>3, <2>4, <2>6, <2>8 DEF IInv, TypeOK, FreshIds, LostIsNotHeld
  <2>11. SingleHolder'
    BY <2>3, <2>7 DEF IInv, SingleHolder, Held
  <2>12. RunningIsHeld'
    BY <2>1, <2>3, <2>4, <2>8 DEF IInv, RunningIsHeld
  <2>13. NoRerunAfterSuccess'
    BY <2>1, <2>4 DEF IInv, NoRerunAfterSuccess
  <2>14. \A v \in Workers \ {w} : pc[v] \in Busy => hand[v].id \in JobIds /\ hand[v].id # j
    BY <2>1, <2>3 DEF Held, Holds, IInv, HolderAccounting
  <2>15. RetryAccounting'
    BY <2>1, <2>2, <2>4, <2>5, <2>6, <2>14 DEF IInv, TypeOK, RetryAccounting
  <2>16. HolderAccounting'
    BY <2>1, <2>2, <2>5 DEF IInv, TypeOK, HolderAccounting, NoRerunAfterSuccess, RetryAccounting
  <2>17. QED
    BY <2>9, <2>10, <2>11, <2>12, <2>13, <2>15, <2>16 DEF IInv
<1>3. QED
  BY <1>1, <1>2 DEF Dequeue

LEMMA HandleIInv ==
  ASSUME IInv, NEW w \in Workers, NEW ok \in BOOLEAN, Handle(w, ok)
  PROVE  IInv'
<1> USE JobQueueAssumption
<1> DEFINE j == hand[w].id
<1>1. /\ j \in JobIds /\ pc[w] = "handling" /\ pc[w] \in Busy
      /\ UNCHANGED <<jobs, minted, hand, shutdown, revivals, attempts, lost>>
  BY DEF IInv, HolderAccounting, Handle, Busy
<1>2. /\ pc' \in [Workers -> Pc]
      /\ pc'[w] = IF ok THEN "succeeded" ELSE "failed"
      /\ \A v \in Workers \ {w} : pc'[v] = pc[v]
  BY DEF IInv, TypeOK, Handle, Pc
<1>3. /\ successes' \in [JobIds -> Nat]
      /\ successes[j] = 0
      /\ successes'[j] = IF ok THEN 1 ELSE 0
      /\ \A k \in JobIds \ {j} : successes'[k] = successes[k]
  BY <1>1 DEF IInv, TypeOK, Handle, HolderAccounting
<1>4. Held(j) /\ j \in minted /\ jobs[j].status \in {"Running", "Absent"}
  BY <1>1 DEF Held, Holds, IInv, FreshIds, RunningIsHeld
<1>5. \A v \in Workers : pc'[v] \in Busy <=> pc[v] \in Busy
  BY <1>1, <1>2 DEF Busy
<1>6. /\ \A v \in Workers, k \in JobIds : Holds(v, k)' <=> Holds(v, k)
      /\ \A k \in JobIds : Held(k)' <=> Held(k)
  BY <1>1, <1>5 DEF Held, Holds
<1>7. TypeOK'
  BY <1>1, <1>2, <1>3, <1>5 DEF IInv, TypeOK
<1>8. FreshIds' /\ LostIsNotHeld' /\ SingleHolder'
  BY <1>1, <1>3, <1>4, <1>6 DEF IInv, TypeOK, FreshIds, LostIsNotHeld, SingleHolder
<1>9. RunningIsHeld' /\ RetryAccounting'
  BY <1>1, <1>5, <1>6 DEF IInv, RunningIsHeld, RetryAccounting
<1>10. NoRerunAfterSuccess'
  BY <1>1, <1>3, <1>4 DEF IInv, NoRerunAfterSuccess
<1>11. \A v \in Workers \ {w} : pc[v] \in Busy => hand[v].id \in JobIds /\ hand[v].id # j
  BY <1>1 DEF IInv, SingleHolder, Holds, HolderAccounting
<1>12. HolderAccounting'
  BY <1>1, <1>2, <1>3, <1>5, <1>11 DEF IInv, HolderAccounting
<1>13. QED
  BY <1>7, <1>8, <1>9, <1>10, <1>12 DEF IInv

\* A worker that held a job lets go of it: everybody else holds on.
LEMMA LetGo ==
  ASSUME IInv, NEW w \in Workers, NEW to \in Pc,
         pc[w] \in Busy, to \notin Busy,
         pc' = [pc EXCEPT ![w] = to], hand' = [hand EXCEPT ![w] = NoClone]
  PROVE  LET j == hand[w].id
         IN  /\ j \in JobIds /\ j \in minted /\ j \notin lost
             /\ jobs[j].status \in {"Running", "Absent"}
             /\ pc' \in [Workers -> Pc] /\ hand' \in [Workers -> Clone \cup {NoClone}]
             /\ \A v \in Workers : pc'[v] \in Busy <=> pc[v] \in Busy /\ v # w
             /\ \A v \in Workers \ {w} : pc'[v] = pc[v] /\ hand'[v] = hand[v]
             /\ \A v \in Workers \ {w} : pc[v] \in Busy
                                         => hand[v].id \in JobIds /\ hand[v].id # j
             /\ \A v \in Workers, k \in JobIds : Holds(v, k)' <=> Holds(v, k) /\ v # w
             /\ \A k \in JobIds : Held(k)' <=> Held(k) /\ k # j
<1> DEFINE j == hand[w].id
<1>1. j \in JobIds /\ Holds(w, j) /\ Held(j)
  BY DEF IInv, HolderAccounting, Held, Holds
<1>2. j \in minted /\ j \notin lost /\ jobs[j].status \in {"Running", "Absent"}
  BY <1>1 DEF IInv, FreshIds, LostIsNotHeld, RunningIsHeld
<1>3. /\ pc' \in [Workers -> Pc] /\ hand' \in [Workers -> Clone \cup {NoClone}]
      /\ pc'[w] = to
      /\ \A v \in Workers \ {w} : pc'[v] = pc[v] /\ hand'[v] = hand[v]
  BY DEF IInv, TypeOK
<1>4. \A v \in Workers \ {w} : pc[v] \in Busy => hand[v].id \in JobIds /\ hand[v].id # j
  BY <1>1 DEF IInv, SingleHolder, Holds, HolderAccounting
<1>5. \A v \in Workers, k \in JobIds : Holds(v, k)' <=> Holds(v, k) /\ v # w
  BY <1>3 DEF Holds
<1>6. \A k \in JobIds : Held(k)' <=> Held(k) /\ k # j
  BY <1>1, <1>5 DEF Held, Holds, IInv, SingleHolder
<1>7. QED
  BY <1>1, <1>2, <1>3, <1>4, <1>5, <1>6

\* The two ways a worker changes its clone, field by field.
LEMMA JobUpdates ==
  ASSUME NEW j, NEW job \in Job
  PROVE  /\ MarkCompleted(job)
              = [status |-> "Completed", retries |-> job.retries, due |-> job.due]
         /\ MarkFailed(j, job)
              = IF job.retries < MaxRetries[j]
                THEN [status |-> "Retrying", retries |-> job.retries + 1, due |-> FALSE]
                ELSE [status |-> "Dead", retries |-> job.retries, due |-> job.due]
<1>1. job = [status |-> job.status, retries |-> job.retries, due |-> job.due]
  BY DEF Job
<1>2. \A s : [job EXCEPT !.status = s]
              = [status |-> s, retries |-> job.retries, due |-> job.due]
  BY <1>1
<1>3. QED
  BY <1>2 DEF MarkCompleted, MarkFailed, CanRetry

LEMMA ReportIInv ==
  ASSUME IInv, NEW w \in Workers, Report(w)
  PROVE  IInv'
<1> USE JobQueueAssumption
<1> DEFINE j == hand[w].id
<1>1. /\ pc[w] \in {"succeeded", "failed"} /\ pc[w] \in Busy
      /\ "top" \in Pc /\ "top" \notin Busy
      /\ pc' = [pc EXCEPT ![w] = "top"] /\ hand' = [hand EXCEPT ![w] = NoClone]
      /\ UNCHANGED <<minted, shutdown, revivals, attempts, successes, lost>>
  BY DEF Report, Pc, Busy, history
<1>2. /\ j \in JobIds /\ j \in minted /\ j \notin lost
      /\ jobs[j].status \in {"Running", "Absent"}
      /\ pc' \in [Workers -> Pc] /\ hand' \in [Workers -> Clone \cup {NoClone}]
      /\ \A v \in Workers : pc'[v] \in Busy <=> pc[v] \in Busy /\ v # w
      /\ \A v \in Workers \ {w} : pc'[v] = pc[v] /\ hand'[v] = hand[v]
      /\ \A v \in Workers \ {w} : pc[v] \in Busy => hand[v].id \in JobIds /\ hand[v].id # j
      /\ \A v \in Workers, k \in JobIds : Holds(v, k)' <=> Holds(v, k) /\ v # w
      /\ \A k \in JobIds : Held(k)' <=> Held(k) /\ k # j
  BY <1>1, LetGo
<1>3. /\ hand[w] \in Clone /\ hand[w].retries \in Nat /\ hand[w].retries <= MaxRetries[j]
      /\ MaxRetries[j] \in Nat
      /\ attempts[j] = hand[w].retries + 1
      /\ successes[j] = IF pc[w] = "succeeded" THEN 1 ELSE 0
  BY <1>1, <1>2 DEF IInv, TypeOK, Clone, HolderAccounting, RetryAccounting
<1>4. /\ jobs'[j].status \in {"Completed", "Retrying", "Dead"}
      /\ jobs'[j] \in Job
      /\ jobs'[j].status = "Completed" <=> pc[w] = "succeeded"
      /\ jobs'[j].retries = IF jobs'[j].status = "Retrying" THEN hand[w].retries + 1
                                                            ELSE hand[w].retries
      /\ jobs'[j].retries <= MaxRetries[j]
      /\ jobs'[j].status = "Dead" => jobs'[j].retries = MaxRetries[j]
  <2>1. jobs'[j] = IF pc[w] = "succeeded"
                   THEN [status |-> "Completed", retries |-> hand[w].retries, due |-> TRUE]
                   ELSE IF hand[w].retries < MaxRetries[j]
                   THEN [status |-> "Retrying", retries |-> hand[w].retries + 1, due |-> FALSE]
                   ELSE [status |-> "Dead", retries |-> hand[w].retries, due |-> TRUE]
    <3>1. jobs'[j] = IF pc[w] = "succeeded" THEN MarkCompleted(TheClone(w))
                                            ELSE MarkFailed(j, TheClone(w))
      BY <1>2 DEF Report, IInv, TypeOK
    <3>2. /\ TheClone(w) \in Job
          /\ TheClone(w).retries = hand[w].retries /\ TheClone(w).due = TRUE
      BY <1>3 DEF TheClone, Job, Status
    <3>3. /\ MarkCompleted(TheClone(w))
               = [status |-> "Completed", retries |-> hand[w].retries, due |-> TRUE]
          /\ MarkFailed(j, TheClone(w))
               = IF hand[w].retries < MaxRetries[j]
                 THEN [status |-> "Retrying", retries |-> hand[w].retries + 1, due |-> FALSE]
                 ELSE [status |-> "Dead", retries |-> hand[w].retries, due |-> TRUE]
      BY <3>2, JobUpdates
    <3>4. QED
      BY <3>1, <3>2, <3>3
  <2>2. QED
    BY <1>1, <1>3, <2>1 DEF Job, Status
<1>5. /\ jobs' \in [JobIds -> Job]
      /\ \A k \in JobIds \ {j} : jobs'[k] = jobs[k]
  BY <1>2, <1>4 DEF Report, IInv, TypeOK
<1>6. TypeOK'
  BY <1>1, <1>2, <1>5 DEF IInv, TypeOK
<1>7. FreshIds' /\ LostIsNotHeld' /\ SingleHolder'
  BY <1>1, <1>2, <1>5 DEF IInv, TypeOK, FreshIds, LostIsNotHeld, SingleHolder
<1>8. RunningIsHeld'
  BY <1>1, <1>2, <1>4, <1>5 DEF IInv, RunningIsHeld
<1>9. NoRerunAfterSuccess'
  BY <1>1, <1>3, <1>4, <1>5 DEF IInv, NoRerunAfterSuccess
<1>10. RetryAccounting'
  BY <1>1, <1>2, <1>3, <1>4, <1>5 DEF IInv, TypeOK, RetryAccounting
<1>11. HolderAccounting'
  BY <1>1, <1>2 DEF IInv, HolderAccounting
<1>12. QED
  BY <1>6, <1>7, <1>8, <1>9, <1>10, <1>11 DEF IInv

LEMMA CrashIInv ==
  ASSUME IInv, NEW w \in Workers, Crash(w)
  PROVE  IInv'
<1>1. CASE pc[w] \notin Busy
  <2>1. "crashed" \in Pc /\ "crashed" \notin Busy
    BY DEF Pc, Busy
  <2>2. /\ UNCHANGED <<jobs, minted, shutdown, revivals, history>>
        /\ pc' = [pc EXCEPT ![w] = "crashed"] /\ hand' = [hand EXCEPT ![w] = NoClone]
    BY <1>1 DEF Crash, history
  <2>3. QED
    BY <1>1, <2>1, <2>2, IdleIInv
<1>2. CASE pc[w] \in Busy
  <2> USE <1>2
  <2> DEFINE j == hand[w].id
  <2>1. /\ pc' = [pc EXCEPT ![w] = "crashed"] /\ hand' = [hand EXCEPT ![w] = NoClone]
        /\ "crashed" \in Pc /\ "crashed" \notin Busy
        /\ lost' = lost \cup {j}
        /\ UNCHANGED <<jobs, minted, shutdown, revivals, attempts, successes>>
    BY DEF Crash, Pc, Busy
  <2>2. /\ j \in JobIds /\ j \in minted /\ j \notin lost
        /\ jobs[j].status \in {"Running", "Absent"}
        /\ pc' \in [Workers -> Pc] /\ hand' \in [Workers -> Clone \cup {NoClone}]
        /\ \A v \in Workers : pc'[v] \in Busy <=> pc[v] \in Busy /\ v # w
        /\ \A v \in Workers \ {w} : pc'[v] = pc[v] /\ hand'[v] = hand[v]
        /\ \A v \in Workers \ {w} : pc[v] \in Busy => hand[v].id \in JobIds /\ hand[v].id # j
        /\ \A v \in Workers, k \in JobIds : Holds(v, k)' <=> Holds(v, k) /\ v # w
        /\ \A k \in JobIds : Held(k)' <=> Held(k) /\ k # j
    BY <2>1, LetGo
  <2>3. TypeOK'
    BY <2>1, <2>2 DEF IInv, TypeOK
  <2>4. FreshIds' /\ LostIsNotHeld' /\ SingleHolder'
    BY <2>1, <2>2 DEF IInv, TypeOK, FreshIds, LostIsNotHeld, SingleHolder
  <2>5. RunningIsHeld' /\ NoRerunAfterSuccess'
    BY <2>1, <2>2 DEF IInv, RunningIsHeld, NoRerunAfterSuccess
  <2>6. RetryAccounting' /\ HolderAccounting'
    BY <2>1, <2>2 DEF IInv, RetryAccounting, HolderAccounting
  <2>7. QED
    BY <2>3, <2>4, <2>5, <2>6 DEF IInv
<1>3. QED
  BY <1>1, <1>2

-----------------------------------------------------------------------------
LEMMA NextIInv == IInv /\ [Next]_vars => IInv'
<1> SUFFICES ASSUME IInv, [Next]_vars PROVE IInv'
  OBVIOUS
<1>1. CASE \E j \in JobIds, due \in BOOLEAN : Enqueue(j, due)
  BY <1>1, EnqueueIInv
<1>2. CASE \E j \in JobIds : Delete(j) \/ BecomeReady(j)
  BY <1>2, DeleteIInv, BecomeReadyIInv
<1>3. CASE \E q \in QueueNames : RetryDead(q) \/ ClearCompleted(q)
  BY <1>3, RetryDeadIInv, ClearCompletedIInv
<1>4. CASE SignalShutdown
  BY <1>4, SignalShutdownIInv
<1>5. ASSUME NEW w \in Workers, WorkerStep(w) \/ Crash(w)
      PROVE  IInv'
  BY <1>5, LoopIInv, DequeueIInv, HandleIInv, ReportIInv, CrashIInv DEF WorkerStep
<1>6. CASE UNCHANGED vars
  BY <1>6 DEF vars, IInv, TypeOK, FreshIds, SingleHolder, RunningIsHeld, LostIsNotHeld,
              RetryAccounting, HolderAccounting, NoRerunAfterSuccess, Held, Holds
<1>7. QED
  BY <1>1, <1>2, <1>3, <1>4, <1>5, <1>6 DEF Next, Operate

\* The inductive invariant holds in every reachable state.
THEOREM Invariance == Spec => []IInv
<1>1. QED
  BY InitIInv, NextIInv, PTL DEF Spec

(* Type correctness.  In particular the declared status Failed is never    *)
(* stored and a busy worker always has a clone of a real job.              *)
THEOREM TypeCorrect == Spec => []TypeOK
<1>1. IInv => TypeOK
  BY DEF IInv
<1>2. QED
  BY <1>1, Invariance, PTL

(* However many workers share the queue and whatever clients delete,       *)
(* revive or clear meanwhile, no job is in two workers' hands.             *)
THEOREM MutualExclusion == Spec => []SingleHolder
<1>1. IInv => SingleHolder
  BY DEF IInv
<1>2. QED
  BY <1>1, Invariance, PTL

(* A stored Running job is in a worker's hands or died with its worker,    *)
(* and what is in a worker's hands is stored as Running or was deleted.    *)
THEOREM RunningMeansHeld == Spec => []RunningIsHeld
<1>1. IInv => RunningIsHeld
  BY DEF IInv
<1>2. QED
  BY <1>1, Invariance, PTL

(* Every job is tried at most max_retries + 1 times between two revivals   *)
(* and buried exactly after the last try.                                  *)
THEOREM RetriesBounded == Spec => []RetryAccounting
<1>1. IInv => RetryAccounting
  BY DEF IInv
<1>2. QED
  BY <1>1, Invariance, PTL

(* A job whose handler returned Ok is never handled again.                 *)
THEOREM SuccessIsFinal == Spec => []NoRerunAfterSuccess
<1>1. IInv => NoRerunAfterSuccess
  BY DEF IInv
<1>2. QED
  BY <1>1, Invariance, PTL

(* A deleted job comes back only by the report of the worker that took it  *)
(* before it was deleted.                                                  *)
THEOREM NoOtherRevival == Spec => DeletedRevivedOnlyByHolder
<1> DEFINE OnlyByHolder ==
      \A j \in minted : ~Stored(j) /\ jobs'[j].status # "Absent"
        => \E w \in Workers : Holds(w, j) /\ ~Holds(w, j)'
<1>1. ASSUME IInv, [Next]_vars, NEW j \in minted, ~Stored(j), jobs'[j].status # "Absent"
      PROVE  \E w \in Workers : Holds(w, j) /\ ~Holds(w, j)'
  <2> USE <1>1 DEF Stored
  <2>1. j \in JobIds /\ jobs \in [JobIds -> Job] /\ jobs'[j] # jobs[j]
    BY DEF IInv, TypeOK
  <2>2. ~ \E k \in JobIds, due \in BOOLEAN : Enqueue(k, due)
    BY <2>1 DEF Enqueue
  <2>3. ~ \E k \in JobIds : Delete(k) \/ BecomeReady(k)
    BY <2>1 DEF Delete, BecomeReady, NoJob
  <2>4. ~ \E q \in QueueNames : RetryDead(q) \/ ClearCompleted(q)
    BY <2>1 DEF RetryDead, ClearCompleted, Dead, Completed, NoJob
  <2>5. ~SignalShutdown /\ vars' # vars
    BY <2>1 DEF SignalShutdown, vars
  <2>6. \A w \in Workers : /\ ~Loop(w) /\ ~Crash(w)
                          /\ \A ok \in BOOLEAN : ~Handle(w, ok)
    BY <2>1 DEF Loop, Crash, Handle
  <2>7. \A w \in Workers : ~Dequeue(w)
    BY <2>1 DEF Dequeue, Candidates, HighestPriority, Ready
  <2>8. PICK w \in Workers : Report(w)
    BY <2>2, <2>3, <2>4, <2>5, <2>6, <2>7 DEF Next, Operate, WorkerStep
  <2>9. Holds(w, j)
    BY <2>1, <2>8 DEF Report, Holds, Busy
  <2>10. ~Holds(w, j)'
    BY <2>8 DEF Report, Holds, Busy, IInv, TypeOK
  <2>11. QED
    BY <2>9, <2>10
<1>2. IInv /\ [Next]_vars => [OnlyByHolder]_vars
  BY <1>1
<1>3. QED
  BY <1>2, Invariance, PTL DEF Spec, DeletedRevivedOnlyByHolder

-----------------------------------------------------------------------------
(***************************************************************************)
(* JobQueue implements JobLifecycle, for every value of the constants.     *)
(* Each queue or worker action is one lifecycle action or, if no job's     *)
(* phase moves, a stutter.                                                 *)
(***************************************************************************)
Phases == [j \in JobIds |-> PhaseOf(j)]
Lefts == [j \in JobIds |-> MaxRetries[j] + 1 - attempts[j]]
InQueue(j) == jobs[j].status \in {"Pending", "Retrying"}

\* The phase in each of the cases the actions distinguish.
LEMMA PhaseNow ==
  ASSUME NEW j \in JobIds
  PROVE  /\ j \notin minted => PhaseOf(j) = "none"
         /\ j \in minted =>
              /\ Held(j) => PhaseOf(j) = "active"
              /\ ~Held(j) =>
                   /\ jobs[j].status = "Absent" => PhaseOf(j) = "gone"
                   /\ InQueue(j) => PhaseOf(j) = "waiting"
                   /\ jobs[j].status = "Running" => PhaseOf(j) = "stuck"
                   /\ jobs[j].status = "Completed" => PhaseOf(j) = "done"
                   /\ jobs[j].status = "Dead" => PhaseOf(j) = "dead"
  BY DEF PhaseOf, InQueue

LEMMA PhaseNext ==
  ASSUME NEW j \in JobIds
  PROVE  /\ j \notin minted' => PhaseOf(j)' = "none"
         /\ j \in minted' =>
              /\ Held(j)' => PhaseOf(j)' = "active"
              /\ ~Held(j)' =>
                   /\ jobs'[j].status = "Absent" => PhaseOf(j)' = "gone"
                   /\ InQueue(j)' => PhaseOf(j)' = "waiting"
                   /\ jobs'[j].status = "Running" => PhaseOf(j)' = "stuck"
                   /\ jobs'[j].status = "Completed" => PhaseOf(j)' = "done"
                   /\ jobs'[j].status = "Dead" => PhaseOf(j)' = "dead"
  BY DEF PhaseOf, InQueue

\* A job whose holder and status class stand still keeps its phase.
LEMMA PhaseStands ==
  ASSUME NEW j \in JobIds, jobs[j].status \in Status \cup {"Absent"},
         j \in minted' <=> j \in minted, Held(j)' <=> Held(j),
         jobs'[j].status = jobs[j].status \/ Held(j) \/ (InQueue(j) /\ InQueue(j)')
  PROVE  PhaseOf(j)' = PhaseOf(j)
<1>1. CASE j \notin minted \/ Held(j)
  BY <1>1, PhaseNow, PhaseNext
<1>2. CASE j \in minted /\ ~Held(j)
  BY <1>2, PhaseNow, PhaseNext DEF InQueue, Status
<1>3. QED
  BY <1>1, <1>2

\* A step that moves the phase of one job, or of none.
LEMMA OneMoves ==
  ASSUME NEW j \in JobIds, \A k \in JobIds \ {j} : PhaseOf(k)' = PhaseOf(k)
  PROVE  Phases' = [Phases EXCEPT ![j] = PhaseOf(j)']
  BY DEF Phases

LEMMA NoneMoves ==
  ASSUME \A k \in JobIds : PhaseOf(k)' = PhaseOf(k)
  PROVE  Phases' = Phases
  BY DEF Phases

LEMMA StatusRange ==
  ASSUME IInv
  PROVE  \A j \in JobIds : jobs[j].status \in Status \cup {"Absent"}
  BY DEF IInv, TypeOK, Job

LEMMA InitRefines == Init => Lifecycle!Init
<1> SUFFICES ASSUME Init PROVE Lifecycle!Init
  OBVIOUS
<1>1. \A j \in JobIds : PhaseOf(j) = "none"
  BY PhaseNow DEF Init
<1>2. \A j \in JobIds : MaxRetries[j] + 1 - attempts[j] = MaxRetries[j] + 1
  <2>1. \A j \in JobIds : attempts[j] = 0 /\ MaxRetries[j] \in Nat
    BY JobQueueAssumption DEF Init
  <2>2. \A m \in Nat : m + 1 - 0 = m + 1
    OBVIOUS
  <2>3. QED
    BY <2>1, <2>2
<1>3. QED
  BY <1>1, <1>2 DEF Lifecycle!Init

-----------------------------------------------------------------------------
LEMMA EnqueueRefines ==
  ASSUME IInv, NEW j \in JobIds, NEW due \in BOOLEAN, Enqueue(j, due)
  PROVE  Lifecycle!Next
<1>1. \A k \in JobIds : Held(k)' <=> Held(k)
  BY SameHolders DEF Enqueue
<1>2. /\ j \notin minted /\ j \in minted' /\ ~Held(j) /\ InQueue(j)'
      /\ \A k \in JobIds \ {j} : /\ k \in minted' <=> k \in minted
                                 /\ jobs'[k] = jobs[k]
      /\ UNCHANGED attempts
  BY DEF Enqueue, IInv, TypeOK, FreshIds, InQueue, history
<1>3. PhaseOf(j) = "none" /\ PhaseOf(j)' = "waiting"
  BY <1>1, <1>2, PhaseNow, PhaseNext
<1>4. \A k \in JobIds \ {j} : PhaseOf(k)' = PhaseOf(k)
  BY <1>1, <1>2, PhaseStands, StatusRange
<1>5. Phases[j] = "none" /\ Phases' = [Phases EXCEPT ![j] = "waiting"] /\ Lefts' = Lefts
  BY <1>2, <1>3, <1>4, OneMoves DEF Phases, Lefts
<1>6. Lifecycle!Submit(j)
  BY <1>5 DEF Lifecycle!Submit, Lifecycle!Moves, Phases, Lefts
<1>7. QED
  BY <1>6 DEF Lifecycle!Next

\* Steps no lifecycle can see.
LEMMA StuttersRefine ==
  ASSUME IInv, UNCHANGED <<minted, attempts>>,
         \A k \in JobIds : Held(k)' <=> Held(k),
         \A k \in JobIds : jobs'[k].status = jobs[k].status \/ Held(k)
  PROVE  UNCHANGED <<Phases, Lefts>>
<1>1. \A k \in JobIds : PhaseOf(k)' = PhaseOf(k)
  BY PhaseStands, StatusRange
<1>2. QED
  BY <1>1, NoneMoves DEF Lefts

\* A job removed while a worker has it is still active.
LEMMA DeleteRefines ==
  ASSUME IInv, NEW j \in JobIds, Delete(j)
  PROVE  Lifecycle!Next \/ UNCHANGED <<Phases, Lefts>>
<1>1. /\ UNCHANGED <<minted, attempts>>
      /\ \A k \in JobIds : Held(k)' <=> Held(k)
  BY SameHolders DEF Delete, history
<1>2. /\ j \in minted /\ jobs[j].status # "Absent" /\ jobs'[j].status = "Absent"
      /\ \A k \in JobIds \ {j} : jobs'[k] = jobs[k]
  BY DEF Delete, IInv, TypeOK, FreshIds, Stored, NoJob
<1>3. CASE Held(j)
  BY <1>1, <1>2, <1>3, StuttersRefine
<1>4. CASE ~Held(j)
  <2>1. \A k \in JobIds \ {j} : PhaseOf(k)' = PhaseOf(k)
    BY <1>1, <1>2, PhaseStands, StatusRange
  <2>2. PhaseOf(j) \in {"waiting", "done", "dead", "stuck"} /\ PhaseOf(j)' = "gone"
    BY <1>1, <1>2, <1>4, PhaseNow, PhaseNext, StatusRange DEF InQueue, Status
  <2>3. Phases' = [k \in JobIds |-> IF k \in {j} THEN "gone" ELSE Phases[k]] /\ Lefts' = Lefts
    BY <1>1, <2>1, <2>2 DEF Phases, Lefts
  <2>4. \A k \in {j} : Phases[k] \in {"waiting", "done", "dead", "stuck"}
    BY <2>2 DEF Phases
  <2>5. Lifecycle!Remove({j})
    BY <2>3, <2>4 DEF Lifecycle!Remove, Phases, Lefts
  <2>6. QED
    BY <2>5 DEF Lifecycle!Next
<1>5. QED
  BY <1>3, <1>4

LEMMA RetryDeadRefines ==
  ASSUME IInv, NEW q, RetryDead(q)
  PROVE  Lifecycle!Next
<1>0. PICK S \in SUBSET JobIds : S = Dead(q)
  BY DEF Dead
<1>1. minted' = minted /\ \A k \in JobIds : Held(k)' <=> Held(k)
  BY SameHolders DEF RetryDead
<1>2. \A k \in S : k \in JobIds /\ jobs[k].status = "Dead" /\ InQueue(k)' /\ k \in minted
  BY <1>0 DEF RetryDead, Dead, InQueue, IInv, FreshIds, NoJob
<1>3. \A k \in JobIds \ S : jobs'[k] = jobs[k]
  BY <1>0 DEF RetryDead
<1>4. \A k \in S : ~Held(k)
  BY <1>2 DEF IInv, RunningIsHeld
<1>5. \A k \in S : PhaseOf(k) = "dead" /\ PhaseOf(k)' = "waiting"
  BY <1>1, <1>2, <1>4, PhaseNow, PhaseNext
<1>6. \A k \in JobIds \ S : PhaseOf(k)' = PhaseOf(k)
  BY <1>1, <1>3, PhaseStands, StatusRange
<1>7. Phases' = [k \in JobIds |-> IF k \in S THEN "waiting" ELSE Phases[k]]
  BY <1>5, <1>6 DEF Phases
<1>8. \A k \in JobIds : Lefts'[k] = IF k \in S THEN MaxRetries[k] + 1 ELSE Lefts[k]
  <2>1. \A m \in Nat : m + 1 - 0 = m + 1
    OBVIOUS
  <2>2. \A k \in JobIds : attempts'[k] = IF k \in S THEN 0 ELSE attempts[k]
    BY <1>0 DEF RetryDead
  <2>3. QED
    BY <2>1, <2>2, JobQueueAssumption DEF Lefts
<1>9. Lefts' = [k \in JobIds |-> IF k \in S THEN [j \in JobIds |-> MaxRetries[j] + 1][k]
                                             ELSE Lefts[k]]
  BY <1>8 DEF Lefts
<1>10. Lifecycle!Revive(S)
  <2>1. \A k \in S : Phases[k] = "dead"
    BY <1>5 DEF Phases
  <2>2. QED
    BY <2>1, <1>7, <1>9 DEF Lifecycle!Revive, Phases, Lefts
<1>11. QED
  BY <1>10 DEF Lifecycle!Next

LEMMA ClearCompletedRefines ==
  ASSUME IInv, NEW q, ClearCompleted(q)
  PROVE  Lifecycle!Next
<1>0. PICK S \in SUBSET JobIds : S = Completed(q)
  BY DEF Completed
<1>1. /\ UNCHANGED <<minted, attempts>>
      /\ \A k \in JobIds : Held(k)' <=> Held(k)
  BY SameHolders DEF ClearCompleted, history
<1>2. \A k \in S : /\ k \in JobIds /\ jobs[k].status = "Completed"
                  /\ jobs'[k].status = "Absent" /\ k \in minted
  BY <1>0 DEF ClearCompleted, Completed, IInv, FreshIds, NoJob
<1>3. \A k \in JobIds \ S : jobs'[k] = jobs[k]
  BY <1>0 DEF ClearCompleted
<1>4. \A k \in S : ~Held(k)
  BY <1>2 DEF IInv, RunningIsHeld
<1>5. \A k \in S : PhaseOf(k) = "done" /\ PhaseOf(k)' = "gone"
  BY <1>1, <1>2, <1>4, PhaseNow, PhaseNext
<1>6. \A k \in JobIds \ S : PhaseOf(k)' = PhaseOf(k)
  BY <1>1, <1>3, PhaseStands, StatusRange
<1>7. Phases' = [k \in JobIds |-> IF k \in S THEN "gone" ELSE Phases[k]] /\ Lefts' = Lefts
  BY <1>1, <1>5, <1>6 DEF Phases, Lefts
<1>8. Lifecycle!Remove(S)
  <2>1. \A k \in S : Phases[k] \in {"waiting", "done", "dead", "stuck"}
    BY <1>5 DEF Phases
  <2>2. QED
    BY <2>1, <1>7 DEF Lifecycle!Remove, Phases, Lefts
<1>9. QED
  BY <1>8 DEF Lifecycle!Next

-----------------------------------------------------------------------------
LEMMA LoopRefines ==
  ASSUME IInv, NEW w \in Workers, Loop(w)
  PROVE  UNCHANGED <<Phases, Lefts>>
<1>1. PICK to \in {"stopped", "polling"} : pc' = [pc EXCEPT ![w] = to]
  BY DEF Loop
<1>2. /\ pc[w] \notin Busy /\ to \notin Busy /\ to \in Pc /\ TypeOK
      /\ UNCHANGED <<jobs, minted, attempts>> /\ hand' = hand
  BY DEF Loop, Busy, Pc, history, IInv
<1>3. \A k \in JobIds : Held(k)' <=> Held(k)
  BY <1>1, <1>2, IdleMoves
<1>4. QED
  BY <1>2, <1>3, StuttersRefine

LEMMA HandleRefines ==
  ASSUME IInv, NEW w \in Workers, NEW ok \in BOOLEAN, Handle(w, ok)
  PROVE  UNCHANGED <<Phases, Lefts>>
<1>1. UNCHANGED <<jobs, minted, attempts, hand>>
  BY DEF Handle
<1>2. \A v \in Workers : pc'[v] \in Busy <=> pc[v] \in Busy
  BY DEF Handle, Busy, IInv, TypeOK
<1>3. \A k \in JobIds : Held(k)' <=> Held(k)
  BY <1>1, <1>2 DEF Held, Holds
<1>4. QED
  BY <1>1, <1>3, StuttersRefine

LEMMA DequeueRefines ==
  ASSUME IInv, NEW w \in Workers, Dequeue(w)
  PROVE  Lifecycle!Next \/ UNCHANGED <<Phases, Lefts>>
<1>1. CASE Candidates(Serves[w]) = {} /\ pc' = [pc EXCEPT ![w] = "top"]
           /\ UNCHANGED <<jobs, hand, attempts>>
  <2>1. pc[w] \notin Busy /\ "top" \notin Busy /\ "top" \in Pc /\ TypeOK /\ minted' = minted
    BY DEF Dequeue, Busy, Pc, IInv
  <2>2. \A k \in JobIds : Held(k)' <=> Held(k)
    BY <1>1, <2>1, IdleMoves
  <2>3. QED
    BY <1>1, <2>1, <2>2, StuttersRefine
<1>2. ASSUME NEW j \in Candidates(Serves[w]), Take(w, j),
             jobs' = [jobs EXCEPT ![j] = MarkRunning(@)]
      PROVE  Lifecycle!Next
  <2>1. j \in JobIds /\ InQueue(j) /\ minted' = minted /\ pc[w] \notin Busy
    BY <1>2 DEF Candidates, Ready, HighestPriority, Dequeue, Busy, InQueue
  <2>2. /\ \A v \in Workers : pc'[v] \in Busy <=> v = w \/ pc[v] \in Busy
        /\ \A v \in Workers \ {w} : hand'[v] = hand[v]
        /\ hand'[w].id = j
    BY <1>2, <2>1 DEF IInv, TypeOK, Take, Busy
  <2>3. \A k \in JobIds : Held(k)' <=> k = j \/ Held(k)
    BY <2>1, <2>2 DEF Held, Holds
  <2>4. /\ ~Held(j) /\ j \in minted
        /\ \A k \in JobIds \ {j} : jobs'[k] = jobs[k]
    BY <1>2, <2>1 DEF IInv, TypeOK, RunningIsHeld, FreshIds, NoJob, InQueue
  <2>5. \A k \in JobIds \ {j} : PhaseOf(k)' = PhaseOf(k)
    BY <2>1, <2>3, <2>4, PhaseStands, StatusRange
  <2>6. PhaseOf(j) = "waiting" /\ PhaseOf(j)' = "active"
    BY <2>1, <2>3, <2>4, PhaseNow, PhaseNext
  <2>7. Phases' = [Phases EXCEPT ![j] = "active"] /\ Phases[j] = "waiting"
    BY <2>1, <2>5, <2>6, OneMoves DEF Phases
  <2>8. /\ attempts[j] \in Nat /\ MaxRetries[j] \in Nat /\ attempts[j] <= MaxRetries[j]
        /\ attempts'[j] = attempts[j] + 1
        /\ \A k \in JobIds \ {j} : attempts'[k] = attempts[k]
    BY <1>2, <2>1, JobQueueAssumption DEF IInv, TypeOK, Take, RetryAccounting, InQueue
  <2>9. Lefts[j] > 0 /\ Lefts'[j] = Lefts[j] - 1 /\ \A k \in JobIds \ {j} : Lefts'[k] = Lefts[k]
    BY <2>1, <2>8 DEF Lefts
  <2>10. Lefts' = [Lefts EXCEPT ![j] = @ - 1]
    BY <2>9 DEF Lefts
  <2>11. Lifecycle!Start(j)
    BY <2>7, <2>9, <2>10 DEF Lifecycle!Start, Lifecycle!Moves, Phases, Lefts
  <2>12. QED
    BY <2>1, <2>11 DEF Lifecycle!Next
<1>3. QED
  BY <1>1, <1>2 DEF Dequeue

LEMMA ReportRefines ==
  ASSUME IInv, IInv', NEW w \in Workers, Report(w)
  PROVE  Lifecycle!Next
<1>1. /\ pc[w] \in Busy /\ "top" \in Pc /\ "top" \notin Busy
      /\ pc' = [pc EXCEPT ![w] = "top"] /\ hand' = [hand EXCEPT ![w] = NoClone]
      /\ UNCHANGED <<minted, attempts>>
  BY DEF Report, Pc, Busy, history
<1>0. PICK j \in JobIds : j = hand[w].id
  BY <1>1 DEF IInv, HolderAccounting
<1>2. /\ j \in minted /\ Held(j)
      /\ \A k \in JobIds : Held(k)' <=> Held(k) /\ k # j
  <2>1. j \in minted /\ \A k \in JobIds : Held(k)' <=> Held(k) /\ k # j
    BY <1>0, <1>1, LetGo
  <2>2. QED
    BY <1>0, <1>1, <2>1 DEF Held, Holds
<1>3. /\ \A k \in JobIds \ {j} : jobs'[k] = jobs[k]
      /\ jobs'[j].status \in {"Completed", "Retrying", "Dead"}
  <2>1. /\ hand[w] \in Clone /\ TheClone(w) \in Job
    BY <1>1 DEF IInv, TypeOK, Clone, TheClone, Job, Status
  <2>2. jobs' = [jobs EXCEPT ![j] = IF pc[w] = "succeeded" THEN MarkCompleted(TheClone(w))
                                                           ELSE MarkFailed(j, TheClone(w))]
    BY <1>0 DEF Report
  <2>3. MarkCompleted(TheClone(w)).status = "Completed"
    BY <2>1, JobUpdates
  <2>4. MarkFailed(j, TheClone(w)).status \in {"Retrying", "Dead"}
    BY <2>1, JobUpdates
  <2>5. QED
    BY <1>2, <2>2, <2>3, <2>4 DEF IInv, TypeOK
<1>4. \A k \in JobIds \ {j} : PhaseOf(k)' = PhaseOf(k)
  BY <1>1, <1>2, <1>3, PhaseStands, StatusRange
<1>5. Phases[j] = "active" /\ Lefts' = Lefts /\ Phases' = [Phases EXCEPT ![j] = PhaseOf(j)']
  BY <1>1, <1>2, <1>4, PhaseNow, OneMoves DEF Phases, Lefts
<1>6. CASE jobs'[j].status = "Completed"
  <2>1. PhaseOf(j)' = "done"
    BY <1>1, <1>2, <1>6, PhaseNext
  <2>2. Lifecycle!Succeed(j)
    BY <1>5, <2>1 DEF Lifecycle!Succeed, Lifecycle!Moves, Phases, Lefts
  <2>3. QED
    BY <1>2, <2>2 DEF Lifecycle!Next
<1>7. CASE jobs'[j].status = "Retrying"
  <2>1. PhaseOf(j)' = "waiting"
    BY <1>1, <1>2, <1>7, PhaseNext DEF InQueue
  <2>2. attempts[j] <= MaxRetries[j] /\ attempts[j] \in Nat /\ MaxRetries[j] \in Nat
    BY <1>1, <1>2, <1>7, JobQueueAssumption DEF IInv, TypeOK, RetryAccounting
  <2>3. Lefts[j] > 0
    BY <1>2, <2>2 DEF Lefts
  <2>4. Lifecycle!Retry(j)
    BY <1>5, <2>1, <2>3 DEF Lifecycle!Retry, Lifecycle!Moves, Phases, Lefts
  <2>5. QED
    BY <1>2, <2>4 DEF Lifecycle!Next
<1>8. CASE jobs'[j].status = "Dead"
  <2>1. PhaseOf(j)' = "dead"
    BY <1>1, <1>2, <1>8, PhaseNext
  <2>2. attempts[j] = MaxRetries[j] + 1 /\ MaxRetries[j] \in Nat
    BY <1>1, <1>2, <1>8, JobQueueAssumption DEF IInv, TypeOK, RetryAccounting
  <2>3. Lefts[j] = 0
    BY <1>2, <2>2 DEF Lefts
  <2>4. Lifecycle!Bury(j)
    BY <1>5, <2>1, <2>3 DEF Lifecycle!Bury, Lifecycle!Moves, Phases, Lefts
  <2>5. QED
    BY <1>2, <2>4 DEF Lifecycle!Next
<1>9. QED
  BY <1>3, <1>6, <1>7, <1>8

LEMMA CrashRefines ==
  ASSUME IInv, NEW w \in Workers, Crash(w)
  PROVE  Lifecycle!Next \/ UNCHANGED <<Phases, Lefts>>
<1>1. /\ UNCHANGED <<jobs, minted, attempts>> /\ "crashed" \in Pc /\ "crashed" \notin Busy
      /\ pc' = [pc EXCEPT ![w] = "crashed"] /\ hand' = [hand EXCEPT ![w] = NoClone]
      /\ TypeOK /\ \A v \in Workers \ {w} : hand'[v] = hand[v]
  BY DEF Crash, Pc, Busy, IInv, TypeOK
<1>2. CASE pc[w] \notin Busy
  <2>1. \A k \in JobIds : Held(k)' <=> Held(k)
    BY <1>1, <1>2, IdleMoves
  <2>2. QED
    BY <1>1, <2>1, StuttersRefine
<1>3. CASE pc[w] \in Busy
  <2>0. PICK j \in JobIds : j = hand[w].id
    BY <1>3 DEF IInv, HolderAccounting
  <2>1. /\ j \in minted /\ jobs[j].status \in {"Running", "Absent"}
        /\ \A k \in JobIds : Held(k)' <=> Held(k) /\ k # j
    BY <1>1, <1>3, <2>0, LetGo
  <2>2. Held(j)
    BY <1>3, <2>0 DEF Held, Holds
  <2>3. \A k \in JobIds \ {j} : PhaseOf(k)' = PhaseOf(k)
    BY <1>1, <2>1, PhaseStands, StatusRange
  <2>4. PhaseOf(j) = "active" /\ PhaseOf(j)' \in {"stuck", "gone"}
    BY <1>1, <2>1, <2>2, PhaseNow, PhaseNext
  <2>5. Phases[j] = "active" /\ Lefts' = Lefts /\ Phases' = [Phases EXCEPT ![j] = PhaseOf(j)']
    BY <1>1, <2>1, <2>3, <2>4, OneMoves DEF Phases, Lefts
  <2>6. Lifecycle!Abandon(j)
    BY <2>4, <2>5 DEF Lifecycle!Abandon, Lifecycle!Moves, Phases, Lefts
  <2>7. QED
    BY <2>1, <2>6 DEF Lifecycle!Next
<1>4. QED
  BY <1>2, <1>3

-----------------------------------------------------------------------------
LEMMA StepRefines ==
  ASSUME IInv, IInv', [Next]_vars
  PROVE  Lifecycle!Next \/ UNCHANGED <<Phases, Lefts>>
<1>1. CASE \E j \in JobIds, due \in BOOLEAN : Enqueue(j, due)
  BY <1>1, EnqueueRefines
<1>2. CASE \E j \in JobIds : Delete(j)
  BY <1>2, DeleteRefines
<1>3. ASSUME NEW j \in JobIds, BecomeReady(j)
      PROVE  UNCHANGED <<Phases, Lefts>>
  <2>1. /\ UNCHANGED <<minted, attempts>>
        /\ \A k \in JobIds : Held(k)' <=> Held(k)
    BY <1>3, SameHolders DEF BecomeReady, history
  <2>2. \A k \in JobIds : jobs'[k].status = jobs[k].status
    BY <1>3 DEF BecomeReady, IInv, TypeOK, Job
  <2>3. QED
    BY <2>1, <2>2, StuttersRefine
<1>4. CASE \E q \in QueueNames : RetryDead(q) \/ ClearCompleted(q)
  BY <1>4, RetryDeadRefines, ClearCompletedRefines
<1>5. CASE SignalShutdown \/ UNCHANGED vars
  <2>1. UNCHANGED <<jobs, minted, attempts, pc, hand>>
    BY <1>5 DEF SignalShutdown, vars, history
  <2>2. \A k \in JobIds : Held(k)' <=> Held(k)
    BY <2>1, SameHolders
  <2>3. QED
    BY <2>1, <2>2, StuttersRefine
<1>6. CASE \E w \in Workers : WorkerStep(w) \/ Crash(w)
  BY <1>6, LoopRefines, DequeueRefines, HandleRefines, ReportRefines, CrashRefines
  DEF WorkerStep
<1>7. QED
  BY <1>1, <1>2, <1>3, <1>4, <1>5, <1>6 DEF Next, Operate

(* The queue and its workers do to a job only what JobLifecycle allows:    *)
(* one holder at a time, no start beyond the budget, no phase after        *)
(* success, no return of a removed job that nobody was running.            *)
THEOREM Refinement == Spec => ImplementsLifecycle
<1>1. Init => Lifecycle!Init
  BY InitRefines
<1>2. IInv /\ IInv' /\ [Next]_vars => [Lifecycle!Next]_<<Phases, Lefts>>
  BY StepRefines
<1>3. IInv /\ IInv' /\ [Next]_vars
        => [Lifecycle!Next]_<<[j \in JobIds |-> PhaseOf(j)],
                              [j \in JobIds |-> MaxRetries[j] + 1 - attempts[j]]>>
  BY <1>2 DEF Phases, Lefts
<1>4. QED
  BY <1>1, <1>3, Invariance, PTL DEF Spec, ImplementsLifecycle, Lifecycle!Spec

-----------------------------------------------------------------------------
(***************************************************************************)
(* The service.                                                            *)
(***************************************************************************)
Event == [type : Types, actor : Users, audience : Seq(Users)]
Call == [at : Busies \cup {"idle", "returned", "dropped"}, event : Event \cup {NoEvent},
         todo : Seq(Users), id : JobIds \cup {None}, results : Seq(Outcome)]
Mark == [id : JobIds, copy : Notification]

NTypeOK ==
  /\ minted \in SUBSET JobIds
  /\ inbox \in [JobIds -> Notification \cup {NoNotification}]
  /\ next_id \in Nat \ {0} /\ 1 .. (next_id - 1) \subseteq DOMAIN Ids
  /\ call \in [Callers -> Call]
  /\ marking \in [Markers -> Mark \cup {NoMark}]

(* What mark_read has in its hands is marked.                              *)
CopiesAreRead == \A m \in Markers : marking[m] # NoMark => marking[m].copy.read

(* A caller past the settings is telling somebody.                         *)
TellsSomebody ==
  \A c \in Callers : call[c].at \in {"storing", "mailing"} => call[c].todo # <<>>

(* A call that has not begun has told nobody.                              *)
NothingToldYet == \A c \in Callers : call[c].at = "idle" => call[c].results = <<>>

(* A result says Ok or JobError exactly when it names a notification.      *)
NamedUnlessDisabled ==
  \A c \in Callers : \A k \in DOMAIN call[c].results :
    LET r == call[c].results[k]
    IN  IF r.outcome = "Disabled" THEN r.id = None ELSE r.id \in Drawn

(* No notification is in two results.                                      *)
NamedOnce ==
  \A c, d \in Callers :
    \A k \in DOMAIN call[c].results : \A l \in DOMAIN call[d].results :
      call[c].results[k].id = call[d].results[l].id /\ call[c].results[k].id # None
        => c = d /\ k = l

(* Two callers never mail for the same notification.                       *)
MailsItsOwn ==
  \A c, d \in Callers :
    call[c].at = "mailing" /\ call[d].at = "mailing" /\ call[c].id = call[d].id => c = d

(* The notification a caller mails for was stored, nobody was told of it,  *)
(* and nothing was enqueued for it.                                        *)
MailsTheUntold ==
  \A c \in Callers : call[c].at = "mailing" =>
    /\ call[c].id \in Drawn \ minted
    /\ WantsMail(Head(call[c].todo))
    /\ \A d \in Callers : \A k \in DOMAIN call[d].results :
         call[d].results[k].id # call[c].id

(* A mail was enqueued for a notification exactly when somebody was told   *)
(* Ok of it and its recipient wants mail.                                  *)
Mailed(r) == r.outcome = "Ok" /\ WantsMail(r.to)
MintedIsMailed ==
  \A n \in JobIds :
    n \in minted
      <=> \E c \in Callers : \E k \in DOMAIN call[c].results :
            call[c].results[k].id = n /\ Mailed(call[c].results[k])

NInv ==
  /\ NTypeOK
  /\ CopiesAreRead
  /\ TellsSomebody
  /\ NothingToldYet
  /\ NamedUnlessDisabled
  /\ NamedOnce
  /\ MailsItsOwn
  /\ MailsTheUntold
  /\ MintedIsMailed

-----------------------------------------------------------------------------
(***************************************************************************)
(* Lemmas about the operators.                                             *)
(***************************************************************************)

(* What after adds to a call: one result, of the first one to be told.     *)
LEMMA AfterAdds ==
  ASSUME NTypeOK, NEW c \in Callers, call[c].todo # <<>>,
         NEW outcome \in {"Ok", "Disabled", "JobError"}, NEW n \in JobIds \cup {None}
  PROVE  LET a == After(c, outcome, n)
             last == Len(call[c].results) + 1
         IN  /\ a \in Call /\ a.at = "loop" /\ last \notin DOMAIN call[c].results
             /\ DOMAIN a.results = DOMAIN call[c].results \cup {last}
             /\ a.results[last] = [to |-> Head(call[c].todo), id |-> n, outcome |-> outcome]
             /\ \A k \in DOMAIN call[c].results : a.results[k] = call[c].results[k]
<1> DEFINE r == [to |-> Head(call[c].todo), id |-> n, outcome |-> outcome]
<1>1. call[c] \in Call /\ call[c].todo \in Seq(Users) /\ call[c].results \in Seq(Outcome)
  BY DEF NTypeOK, Call
<1>2. Head(call[c].todo) \in Users /\ Tail(call[c].todo) \in Seq(Users)
  BY <1>1
<1>3. r \in Outcome
  BY <1>2 DEF Outcome
<1>4. After(c, outcome, n) = [call[c] EXCEPT !.at = "loop", !.id = None,
                                             !.todo = Tail(call[c].todo),
                                             !.results = Append(call[c].results, r)]
  BY DEF After
<1> HIDE DEF r
<1>5. /\ Append(call[c].results, r) \in Seq(Outcome)
      /\ Len(call[c].results) + 1 \notin DOMAIN call[c].results
      /\ DOMAIN Append(call[c].results, r)
           = DOMAIN call[c].results \cup {Len(call[c].results) + 1}
      /\ Append(call[c].results, r)[Len(call[c].results) + 1] = r
      /\ \A k \in DOMAIN call[c].results : Append(call[c].results, r)[k] = call[c].results[k]
  BY <1>1, <1>3
<1>6. After(c, outcome, n) \in Call
  BY <1>1, <1>2, <1>4, <1>5 DEF Call, Busies
<1>7. QED
  BY <1>1, <1>4, <1>5, <1>6 DEF Call, r

(* create draws an id that was never drawn.                                *)
LEMMA DrawsFresh ==
  ASSUME NTypeOK, next_id \in DOMAIN Ids, next_id' = next_id + 1
  PROVE  /\ Ids[next_id] \in JobIds \ Drawn
         /\ Drawn' = Drawn \cup {Ids[next_id]}
         /\ next_id' \in Nat \ {0} /\ 1 .. (next_id' - 1) \subseteq DOMAIN Ids
<1>1. /\ next_id \in Nat \ {0} /\ 1 .. (next_id - 1) \subseteq DOMAIN Ids
      /\ 1 .. (next_id' - 1) = (1 .. (next_id - 1)) \cup {next_id}
      /\ next_id \notin 1 .. (next_id - 1)
  BY DEF NTypeOK
<1>2. Ids[next_id] \in JobIds /\ \A k \in 1 .. (next_id - 1) : Ids[k] # Ids[next_id]
  BY <1>1, NotificationsAssumption
<1>3. QED
  BY <1>1, <1>2 DEF Drawn

LEMMA DrawnAreIds ==
  ASSUME NTypeOK PROVE Drawn \subseteq JobIds
BY NotificationsAssumption DEF NTypeOK, Drawn

-----------------------------------------------------------------------------
LEMMA InitNInv == NInit => NInv
<1> SUFFICES ASSUME NInit PROVE NInv
  OBVIOUS
<1>1. NTypeOK
  BY DEF NInit, Init, NTypeOK, Call, Idle, Busies
<1>2. \A c \in Callers : call[c] = Idle /\ DOMAIN call[c].results = {}
  BY DEF NInit, Idle
<1>3. QED
  BY <1>1, <1>2 DEF NInit, Init, NInv, CopiesAreRead, TellsSomebody, NothingToldYet, NamedUnlessDisabled,
                    NamedOnce, MailsItsOwn, MailsTheUntold, MintedIsMailed, Idle

(***************************************************************************)
(* A step of the queue that enqueues nothing, and a user's step, leave the *)
(* calls, the counter and minted alone.                                    *)
(***************************************************************************)
LEMMA CallsStandStill ==
  ASSUME NInv, UNCHANGED <<minted, next_id, call>>, NTypeOK', CopiesAreRead'
  PROVE  NInv'
BY DEF NInv, TellsSomebody, NothingToldYet, NamedUnlessDisabled, NamedOnce, MailsItsOwn,
       MailsTheUntold, MintedIsMailed, Drawn

LEMMA OperateNInv ==
  ASSUME NInv, Operate, UNCHANGED notifying
  PROVE  NInv'
<1>1. UNCHANGED minted
  BY DEF Operate, Delete, BecomeReady, RetryDead, ClearCompleted, SignalShutdown, WorkerStep,
         Loop, Dequeue, Handle, Report, Crash
<1>2. UNCHANGED <<inbox, next_id, call, marking>>
  BY DEF notifying
<1>3. QED
  BY <1>1, <1>2, CallsStandStill DEF NInv, NTypeOK, CopiesAreRead

LEMMA UsersNInv ==
  ASSUME NInv,
         \/ \E n \in JobIds : DeleteNotification(n) \/ \E m \in Markers : GetToMark(m, n)
         \/ \E m \in Markers : UpdateMarked(m)
         \/ \E u \in Users : MarkAllRead(u)
  PROVE  NInv'
<1>0. /\ inbox \in [JobIds -> Notification \cup {NoNotification}]
      /\ marking \in [Markers -> Mark \cup {NoMark}] /\ None \notin Users
  BY NotificationsAssumption DEF NInv, NTypeOK
<1>1. CASE \E n \in JobIds : DeleteNotification(n)
  BY <1>1, CallsStandStill DEF DeleteNotification, CopiesAreRead, NInv, NTypeOK, vars
<1>2. ASSUME NEW n \in JobIds, NEW m \in Markers, GetToMark(m, n)
      PROVE  NInv'
  <2> DEFINE mark == [id |-> n, copy |-> [inbox[n] EXCEPT !.read = TRUE]]
  <2>1. inbox[n] \in Notification
    BY <1>0, <1>2 DEF GetToMark, Present
  <2>2. mark \in Mark /\ mark.copy.read
    BY <2>1 DEF Notification, Mark
  <2>3. marking' = [marking EXCEPT ![m] = mark] /\ UNCHANGED <<inbox, next_id, call, minted>>
    BY <1>2 DEF GetToMark, vars
  <2> HIDE DEF mark
  <2>4. NTypeOK' /\ CopiesAreRead'
    BY <1>0, <2>2, <2>3 DEF CopiesAreRead, NInv, NTypeOK
  <2>5. QED
    BY <2>3, <2>4, CallsStandStill
<1>3. ASSUME NEW m \in Markers, UpdateMarked(m)
      PROVE  NInv'
  <2>0. marking[m] \in Mark
    BY <1>0, <1>3 DEF UpdateMarked
  <2>1. marking[m].id \in JobIds /\ marking[m].copy \in Notification
    BY <2>0 DEF Mark
  <2>2. /\ inbox' \in [JobIds -> Notification \cup {NoNotification}]
        /\ UNCHANGED <<next_id, call, minted>>
    BY <1>0, <1>3, <2>1 DEF UpdateMarked, vars
  <2>3. NTypeOK' /\ CopiesAreRead'
    BY <1>0, <1>3, <2>2 DEF UpdateMarked, CopiesAreRead, NInv, NTypeOK
  <2>4. QED
    BY <2>2, <2>3, CallsStandStill
<1>4. ASSUME NEW u \in Users, MarkAllRead(u)
      PROVE  NInv'
  <2>1. ASSUME NEW n \in JobIds
        PROVE  inbox'[n] \in Notification \cup {NoNotification}
    <3>1. inbox'[n] = IF inbox[n].to = u THEN [inbox[n] EXCEPT !.read = TRUE] ELSE inbox[n]
      BY <1>4 DEF MarkAllRead
    <3>2. inbox[n].to = u => inbox[n] \in Notification
      BY <1>0 DEF NoNotification
    <3>3. inbox[n] \in Notification => [inbox[n] EXCEPT !.read = TRUE] \in Notification
      BY DEF Notification
    <3>4. QED
      BY <1>0, <3>1, <3>2, <3>3
  <2>2. /\ inbox' \in [JobIds -> Notification \cup {NoNotification}]
        /\ UNCHANGED <<next_id, call, minted, marking>>
    BY <1>4, <2>1 DEF MarkAllRead, vars
  <2>3. QED
    BY <2>2, CallsStandStill DEF CopiesAreRead, NInv, NTypeOK
<1>5. QED
  BY <1>1, <1>2, <1>3, <1>4

(***************************************************************************)
(* Steps of a call.                                                        *)
(***************************************************************************)

(* A caller that gets no new result and does not come to mail.             *)
LEMMA CallMoves ==
  ASSUME NInv, NEW c \in Callers, NEW to \in Call,
         call' = [call EXCEPT ![c] = to], to.results = call[c].results,
         to.at \notin {"mailing", "idle"}, to.at = "storing" => to.todo # <<>>,
         UNCHANGED <<minted, inbox, next_id, marking>>
  PROVE  NInv'
<1>1. /\ call'[c] = to /\ \A d \in Callers \ {c} : call'[d] = call[d]
      /\ \A d \in Callers : call'[d].results = call[d].results
      /\ \A d \in Callers : call'[d].at = "mailing" => call'[d] = call[d]
      /\ \A d \in Callers : call'[d].at = "storing" => call'[d].todo # <<>> \/ call'[d] = call[d]
  BY DEF NInv, NTypeOK
<1>2. NTypeOK' /\ CopiesAreRead' /\ TellsSomebody' /\ NothingToldYet'
  BY <1>1 DEF NInv, NTypeOK, CopiesAreRead, TellsSomebody, NothingToldYet
<1>3. NamedUnlessDisabled' /\ NamedOnce' /\ MailsItsOwn' /\ MintedIsMailed'
  BY <1>1 DEF NInv, NamedUnlessDisabled, NamedOnce, MailsItsOwn, MintedIsMailed, Drawn
<1>4. MailsTheUntold'
  BY <1>1 DEF NInv, MailsTheUntold, Drawn
<1>5. QED
  BY <1>2, <1>3, <1>4 DEF NInv

LEMMA StartNInv ==
  ASSUME NInv, NEW c \in Callers, NEW e \in Events[c], Start(c, e)
  PROVE  NInv'
<1> DEFINE to == [Idle EXCEPT !.at = "loop", !.event = e, !.todo = e.audience]
<1>1. e \in Event /\ e.audience \in Seq(Users)
  BY NotificationsAssumption DEF Event
<1>2. Idle \in Call /\ Idle.results = <<>>
  BY DEF Idle, Call
<1>3. to \in Call /\ to.at = "loop" /\ to.results = <<>>
  BY <1>1, <1>2 DEF Call, Busies
<1>4. call' = [call EXCEPT ![c] = to] /\ UNCHANGED <<minted, inbox, next_id, marking>>
  BY DEF Start, vars
<1>5. call[c].results = <<>>
  BY DEF Start, NInv, NothingToldYet
<1> HIDE DEF to
<1>6. QED
  BY <1>3, <1>4, <1>5, CallMoves

LEMMA QuietStepsNInv ==
  ASSUME NInv, NEW c \in Callers, Skip(c) \/ Return(c) \/ DropCall(c)
  PROVE  NInv'
<1>1. call[c] \in Call /\ call[c].todo \in Seq(Users)
  BY DEF NInv, NTypeOK, Call
<1>2. CASE Skip(c)
  <2>1. Tail(call[c].todo) \in Seq(Users)
    BY <1>1, <1>2 DEF Skip
  <2>2. [call[c] EXCEPT !.todo = Tail(call[c].todo)] \in Call /\ call[c].at = "loop"
    BY <1>1, <1>2, <2>1 DEF Skip, Call
  <2>3. QED
    BY <1>1, <1>2, <2>2, CallMoves DEF Skip, vars, Call
<1>3. CASE Return(c)
  <2>1. [call[c] EXCEPT !.at = "returned"] \in Call
    BY <1>1 DEF Call
  <2>2. QED
    BY <1>1, <1>3, <2>1, CallMoves DEF Return, vars, Call
<1>4. CASE DropCall(c)
  <2>0. <<>> \in Seq(Users)
    OBVIOUS
  <2>1. \A none \in Seq(Users) : [call[c] EXCEPT !.at = "dropped", !.todo = none] \in Call
    BY <1>1 DEF Call
  <2>2. call' = [call EXCEPT ![c] = [call[c] EXCEPT !.at = "dropped", !.todo = <<>>]]
    BY <1>4 DEF DropCall, NInv, NTypeOK
  <2>3. QED
    BY <1>1, <1>4, <2>0, <2>1, <2>2, CallMoves DEF DropCall, vars, Call
<1>5. QED
  BY <1>2, <1>3, <1>4

(* notify returned to c, with a result about n: what it did about n before *)
(* decides between the outcomes.                                           *)
LEMMA CallTells ==
  ASSUME NInv, NEW c \in Callers, call[c].todo # <<>>,
         NEW outcome \in {"Ok", "Disabled", "JobError"}, NEW n \in JobIds \cup {None},
         call' = [call EXCEPT ![c] = After(c, outcome, n)],
         NTypeOK', CopiesAreRead', Drawn \subseteq Drawn',
         outcome = "Disabled" => n = None, outcome # "Disabled" => n \in Drawn',
         n # None => \A d \in Callers : \A k \in DOMAIN call[d].results :
                       call[d].results[k].id # n,
         \A d \in Callers \ {c} : call[d].at = "mailing" => call[d].id # n,
         \A i \in JobIds :
           i \in minted'
             <=> i \in minted \/ (i = n /\ outcome = "Ok" /\ WantsMail(Head(call[c].todo))),
         \A d \in Callers \ {c} : call[d].at = "mailing" => call[d].id \notin minted'
  PROVE  NInv'
<1> DEFINE last == Len(call[c].results) + 1
           r == [to |-> Head(call[c].todo), id |-> n, outcome |-> outcome]
<1>1. /\ call'[c] \in Call /\ call'[c].at = "loop" /\ last \notin DOMAIN call[c].results
      /\ DOMAIN call'[c].results = DOMAIN call[c].results \cup {last}
      /\ call'[c].results[last] = r
      /\ \A k \in DOMAIN call[c].results : call'[c].results[k] = call[c].results[k]
  BY AfterAdds DEF NInv, NTypeOK
<1>2. \A d \in Callers \ {c} : call'[d] = call[d]
  BY DEF NInv, NTypeOK
<1>3. r.id = n /\ r.outcome = outcome /\ (Mailed(r) <=> outcome = "Ok" /\ WantsMail(Head(call[c].todo)))
  BY DEF Mailed
<1> HIDE DEF last, r
<1>4. TellsSomebody' /\ NothingToldYet' /\ MailsItsOwn'
  BY <1>1, <1>2 DEF NInv, TellsSomebody, NothingToldYet, MailsItsOwn
<1>5. NamedUnlessDisabled'
  BY <1>1, <1>2, <1>3 DEF NInv, NamedUnlessDisabled
<1>6. NamedOnce'
  BY <1>1, <1>2, <1>3 DEF NInv, NamedOnce
<1>7. MailsTheUntold'
  BY <1>1, <1>2, <1>3 DEF NInv, MailsTheUntold
<1>8. MintedIsMailed'
  <2>1. ASSUME NEW i \in JobIds
        PROVE  i \in minted' <=> i \in minted \/ (i = n /\ Mailed(r))
    BY <1>3
  <2>2. ASSUME NEW i \in JobIds
        PROVE  (\E d \in Callers : \E k \in DOMAIN call'[d].results :
                   call'[d].results[k].id = i /\ Mailed(call'[d].results[k]))
                 <=> \/ \E d \in Callers : \E k \in DOMAIN call[d].results :
                          call[d].results[k].id = i /\ Mailed(call[d].results[k])
                     \/ i = n /\ Mailed(r)
    BY <1>1, <1>2, <1>3
  <2>3. \A i \in JobIds :
          i \in minted' <=> \E d \in Callers : \E k \in DOMAIN call'[d].results :
                               call'[d].results[k].id = i /\ Mailed(call'[d].results[k])
    BY <2>1, <2>2 DEF NInv, MintedIsMailed
  <2>4. \A x : Mailed(x)' <=> Mailed(x)
    BY DEF Mailed
  <2>5. QED
    BY <2>3, <2>4 DEF MintedIsMailed, Mailed
<1>9. QED
  BY <1>4, <1>5, <1>6, <1>7, <1>8 DEF NInv

LEMMA CheckSettingsNInv ==
  ASSUME NInv, NEW c \in Callers, CheckSettings(c)
  PROVE  NInv'
<1>1. /\ call[c] \in Call /\ call[c].at = "loop" /\ call[c].todo # <<>>
      /\ UNCHANGED <<minted, inbox, next_id, marking>>
  BY DEF CheckSettings, vars, NInv, NTypeOK
<1>2. CASE call' = [call EXCEPT ![c] = [call[c] EXCEPT !.at = "storing"]]
  <2> DEFINE to == [call[c] EXCEPT !.at = "storing"]
  <2>1. to \in Call /\ to.at = "storing" /\ to.results = call[c].results /\ to.todo # <<>>
    BY <1>1 DEF Call, Busies
  <2> HIDE DEF to
  <2>2. QED
    BY <1>1, <1>2, <2>1, CallMoves DEF to
<1>3. CASE call' = [call EXCEPT ![c] = After(c, "Disabled", None)]
  <2>1. After(c, "Disabled", None) \in Call
    BY <1>1, AfterAdds DEF NInv
  <2>2. NTypeOK' /\ CopiesAreRead'
    BY <1>1, <1>3, <2>1 DEF NInv, NTypeOK, CopiesAreRead
  <2>3. Drawn' = Drawn
    BY <1>1 DEF Drawn
  <2>4. \A d \in Callers \ {c} : call[d].at = "mailing" => call[d].id # None
    BY DrawnAreIds, NotificationsAssumption DEF NInv, MailsTheUntold
  <2>5. \A d \in Callers \ {c} : call[d].at = "mailing" => call[d].id \notin minted'
    BY <1>1 DEF NInv, MailsTheUntold
  <2>6. Drawn \subseteq Drawn'
    BY <2>3
  <2>7. PICK o \in {"Ok", "Disabled", "JobError"} : o = "Disabled"
    OBVIOUS
  <2>8. /\ call' = [call EXCEPT ![c] = After(c, o, None)]
        /\ \A i \in JobIds :
             i \in minted'
               <=> i \in minted \/ (i = None /\ o = "Ok" /\ WantsMail(Head(call[c].todo)))
    BY <1>1, <1>3, <2>7
  <2>9. QED
    BY <1>1, <2>2, <2>4, <2>5, <2>6, <2>7, <2>8, CallTells
<1>4. QED
  BY <1>2, <1>3 DEF CheckSettings

LEMMA QueueEmailErrorNInv ==
  ASSUME NInv, NEW c \in Callers, QueueEmailError(c)
  PROVE  NInv'
<1>1. /\ call[c].at = "mailing" /\ call[c].todo # <<>> /\ call[c].id \in Drawn \ minted
      /\ call' = [call EXCEPT ![c] = After(c, "JobError", call[c].id)]
      /\ UNCHANGED <<minted, inbox, next_id, marking>>
  BY DEF QueueEmailError, vars, NInv, TellsSomebody, MailsTheUntold
<1>2. call[c].id \in JobIds /\ After(c, "JobError", call[c].id) \in Call
  BY <1>1, AfterAdds, DrawnAreIds DEF NInv
<1>3. NTypeOK' /\ CopiesAreRead' /\ Drawn \subseteq Drawn' /\ call[c].id \in Drawn'
  BY <1>1, <1>2 DEF NInv, NTypeOK, CopiesAreRead, Drawn
<1>4. \A d \in Callers : \A k \in DOMAIN call[d].results : call[d].results[k].id # call[c].id
  BY <1>1 DEF NInv, MailsTheUntold
<1>5. \A d \in Callers \ {c} :
        call[d].at = "mailing" => call[d].id # call[c].id /\ call[d].id \notin minted'
  BY <1>1 DEF NInv, MailsTheUntold, MailsItsOwn
<1>6. PICK o \in {"Ok", "Disabled", "JobError"} : o = "JobError"
  OBVIOUS
<1>7. /\ o # "Disabled" /\ call' = [call EXCEPT ![c] = After(c, o, call[c].id)]
      /\ \A i \in JobIds :
           i \in minted'
             <=> i \in minted \/ (i = call[c].id /\ o = "Ok" /\ WantsMail(Head(call[c].todo)))
  BY <1>1, <1>6
<1>8. call[c].todo # <<>> /\ call[c].id \in JobIds \cup {None}
  BY <1>1, <1>2
<1>9. \A d \in Callers \ {c} : call[d].at = "mailing" => call[d].id # call[c].id
  BY <1>5
<1>10. \A d \in Callers \ {c} : call[d].at = "mailing" => call[d].id \notin minted'
  BY <1>5
<1>11. QED
  BY <1>3, <1>4, <1>7, <1>8, <1>9, <1>10, CallTells

LEMMA QueueEmailNInv ==
  ASSUME NInv, NEW c \in Callers, QueueEmail(c)
  PROVE  NInv'
<1>1. /\ call[c].at = "mailing" /\ call[c].todo # <<>> /\ call[c].id \in Drawn \ minted
      /\ WantsMail(Head(call[c].todo))
      /\ call' = [call EXCEPT ![c] = After(c, "Ok", call[c].id)]
      /\ minted' = minted \cup {call[c].id}
      /\ UNCHANGED <<inbox, next_id, marking>>
  BY DEF QueueEmail, Enqueue, NInv, TellsSomebody, MailsTheUntold
<1>2. call[c].id \in JobIds /\ After(c, "Ok", call[c].id) \in Call
  BY <1>1, AfterAdds, DrawnAreIds DEF NInv
<1>3. NTypeOK' /\ CopiesAreRead' /\ Drawn \subseteq Drawn' /\ call[c].id \in Drawn'
  BY <1>1, <1>2 DEF NInv, NTypeOK, CopiesAreRead, Drawn
<1>4. \A d \in Callers : \A k \in DOMAIN call[d].results : call[d].results[k].id # call[c].id
  BY <1>1 DEF NInv, MailsTheUntold
<1>5. \A d \in Callers \ {c} :
        call[d].at = "mailing" => call[d].id # call[c].id /\ call[d].id \notin minted'
  BY <1>1 DEF NInv, MailsTheUntold, MailsItsOwn
<1>6. QED
  BY <1>1, <1>2, <1>3, <1>4, <1>5, CallTells

LEMMA CreateNotificationNInv ==
  ASSUME NInv, NEW c \in Callers, CreateNotification(c)
  PROVE  NInv'
<1> DEFINE n == Ids[next_id]
           u == Head(call[c].todo)
<1>1. /\ call[c] \in Call /\ call[c].at = "storing" /\ call[c].todo # <<>>
      /\ call[c].todo \in Seq(Users) /\ u \in Users
      /\ UNCHANGED <<minted, marking>>
  BY DEF CreateNotification, vars, NInv, TellsSomebody, NTypeOK, Call
<1>2. /\ n \in JobIds \ Drawn /\ Drawn' = Drawn \cup {n} /\ n # None
      /\ next_id' \in Nat \ {0} /\ 1 .. (next_id' - 1) \subseteq DOMAIN Ids
  BY DrawsFresh, NotificationsAssumption DEF CreateNotification, NInv
<1>3. inbox' \in [JobIds -> Notification \cup {NoNotification}]
  BY <1>1, <1>2 DEF CreateNotification, NInv, NTypeOK, Notification
<1> HIDE DEF n
<1>4. /\ \A d \in Callers : call[d].at = "mailing" => call[d].id # n /\ call[d].id \notin minted
      /\ \A d \in Callers : \A k \in DOMAIN call[d].results : call[d].results[k].id # n
      /\ n \notin minted
  <2>1. \A d \in Callers : \A k \in DOMAIN call[d].results :
          call[d].results[k].id = None \/ call[d].results[k].id \in Drawn
    BY DEF NInv, NamedUnlessDisabled
  <2>2. \A d \in Callers : call[d].at = "mailing" => call[d].id \in Drawn \ minted
    BY DEF NInv, MailsTheUntold
  <2>3. QED
    BY <1>2, <2>1, <2>2 DEF NInv, MintedIsMailed
<1>5. CASE WantsMail(u)
  <2> DEFINE to == [call[c] EXCEPT !.at = "mailing", !.id = n]
  <2>1. /\ to \in Call /\ to.at = "mailing" /\ to.id = n
        /\ to.results = call[c].results /\ to.todo = call[c].todo
    BY <1>1, <1>2 DEF Call, Busies
  <2>2. call' = [call EXCEPT ![c] = to]
    BY <1>5 DEF CreateNotification, n
  <2> HIDE DEF to
  <2>3. /\ call'[c] = to /\ \A d \in Callers \ {c} : call'[d] = call[d]
        /\ \A d \in Callers : call'[d].results = call[d].results
    BY <2>1, <2>2 DEF NInv, NTypeOK
  <2>4. NTypeOK' /\ CopiesAreRead'
    BY <1>1, <1>2, <1>3, <2>1, <2>2 DEF NInv, NTypeOK, CopiesAreRead
  <2>5. TellsSomebody' /\ NothingToldYet' /\ MailsItsOwn'
    BY <1>1, <1>4, <2>1, <2>3 DEF NInv, TellsSomebody, NothingToldYet, MailsItsOwn
  <2>6. NamedUnlessDisabled' /\ NamedOnce' /\ MintedIsMailed'
    BY <1>1, <1>2, <2>3 DEF NInv, NamedUnlessDisabled, NamedOnce, MintedIsMailed
  <2>7. MailsTheUntold'
    BY <1>1, <1>2, <1>4, <1>5, <2>1, <2>3 DEF NInv, MailsTheUntold
  <2>8. QED
    BY <2>4, <2>5, <2>6, <2>7 DEF NInv
<1>6. CASE ~WantsMail(u)
  <2>1. call' = [call EXCEPT ![c] = After(c, "Ok", n)]
    BY <1>6 DEF CreateNotification, n
  <2>2. After(c, "Ok", n) \in Call
    BY <1>1, <1>2, AfterAdds DEF NInv
  <2>3. NTypeOK' /\ CopiesAreRead'
    BY <1>1, <1>2, <1>3, <2>1, <2>2 DEF NInv, NTypeOK, CopiesAreRead
  <2>4. /\ Drawn \subseteq Drawn' /\ n \in Drawn'
        /\ \A d \in Callers \ {c} : call[d].at = "mailing" => call[d].id \notin minted'
    BY <1>1, <1>2, <1>4
  <2>5. PICK o \in {"Ok", "Disabled", "JobError"} : o = "Ok"
    OBVIOUS
  <2>6. /\ o # "Disabled" /\ call' = [call EXCEPT ![c] = After(c, o, n)]
        /\ \A i \in JobIds :
             i \in minted' <=> i \in minted \/ (i = n /\ o = "Ok" /\ WantsMail(u))
    BY <1>1, <1>6, <2>1, <2>5
  <2>7. call[c].todo # <<>> /\ n \in JobIds \cup {None}
    BY <1>1, <1>2
  <2>8. \A d \in Callers \ {c} : call[d].at = "mailing" => call[d].id # n
    BY <1>4
  <2>9. \A d \in Callers : \A k \in DOMAIN call[d].results : call[d].results[k].id # n
    BY <1>4
  <2>10. QED
    BY <2>3, <2>4, <2>6, <2>7, <2>8, <2>9, CallTells
<1>7. QED
  BY <1>5, <1>6
-----------------------------------------------------------------------------
LEMMA NextNInv ==
  ASSUME NInv, [NNext]_allVars
  PROVE  NInv'
<1>1. CASE UNCHANGED allVars
  <2>1. UNCHANGED <<minted, next_id, call>> /\ NTypeOK' /\ CopiesAreRead'
    BY <1>1 DEF allVars, notifying, vars, NInv, NTypeOK, CopiesAreRead
  <2>2. QED
    BY <2>1, CallsStandStill
<1>2. CASE Operate /\ UNCHANGED notifying
  BY <1>2, OperateNInv
<1>3. CASE \E c \in Callers : CallerStep(c) \/ DropCall(c) \/ \E e \in Events[c] : Start(c, e)
  BY <1>3, QuietStepsNInv, CheckSettingsNInv, CreateNotificationNInv, QueueEmailNInv,
     QueueEmailErrorNInv, StartNInv
  DEF CallerStep
<1>4. CASE \/ \E n \in JobIds : DeleteNotification(n) \/ \E m \in Markers : GetToMark(m, n)
           \/ \E m \in Markers : UpdateMarked(m)
           \/ \E u \in Users : MarkAllRead(u)
  BY <1>4, UsersNInv
<1>5. QED
  BY <1>1, <1>2, <1>3, <1>4 DEF NNext

(* The invariant of the notification service and its queue.                *)
THEOREM NotificationsInvariance == NSpec => []NInv
BY InitNInv, NextNInv, PTL DEF NSpec

(* What is stored, counted, told and held in mid-air has its type.         *)
THEOREM NotificationsTypeCorrect == NSpec => []NTypeOK
<1>1. NInv => NTypeOK
  BY DEF NInv
<1>2. QED
  BY <1>1, NotificationsInvariance, PTL

LEMMA NInvMatches ==
  ASSUME NInv
  PROVE  MailMatchesResults
<1>1. \A x : x \in Results <=> \E c \in Callers : \E k \in DOMAIN call[c].results : x = <<c, k>>
  BY DEF Results
<1>2. \A c, k : Result(<<c, k>>) = call[c].results[k]
  BY DEF Result
<1>3. ASSUME NEW x \in Results, Result(x).outcome # "Disabled"
      PROVE  Result(x).id \in Drawn
  BY <1>1, <1>2, <1>3 DEF NInv, NamedUnlessDisabled
<1>4. ASSUME NEW x \in Results, NEW y \in Results, Result(x).id = Result(y).id, x # y
      PROVE  Result(x).outcome = "Disabled"
  <2>1. PICK c \in Callers : \E k \in DOMAIN call[c].results : x = <<c, k>>
    BY <1>1
  <2>2. PICK k \in DOMAIN call[c].results : x = <<c, k>>
    BY <2>1
  <2>3. PICK d \in Callers : \E l \in DOMAIN call[d].results : y = <<d, l>>
    BY <1>1
  <2>4. PICK l \in DOMAIN call[d].results : y = <<d, l>>
    BY <2>3
  <2>5. call[c].results[k].id = call[d].results[l].id /\ ~(c = d /\ k = l)
    BY <1>2, <1>4, <2>2, <2>4
  <2>6. call[c].results[k].id = None
    BY <2>5 DEF NInv, NamedOnce
  <2>7. None \notin Drawn
    BY DrawnAreIds, NotificationsAssumption DEF NInv
  <2>8. QED
    BY <1>2, <2>2, <2>6, <2>7 DEF NInv, NamedUnlessDisabled
<1>5. minted = {Result(x).id : x \in {y \in Results : Result(y).outcome = "Ok"
                                                       /\ WantsMail(Result(y).to)}}
  <2> DEFINE told == {y \in Results : Result(y).outcome = "Ok" /\ WantsMail(Result(y).to)}
  <2>1. ASSUME NEW c \in Callers, NEW k \in DOMAIN call[c].results
        PROVE  <<c, k>> \in told <=> Mailed(call[c].results[k])
    BY <1>1, <1>2 DEF Mailed
  <2>2. ASSUME NEW n \in minted
        PROVE  \E x \in told : Result(x).id = n
    <3>1. PICK c \in Callers : \E k \in DOMAIN call[c].results :
            call[c].results[k].id = n /\ Mailed(call[c].results[k])
      BY DEF NInv, NTypeOK, MintedIsMailed
    <3>2. PICK k \in DOMAIN call[c].results :
            call[c].results[k].id = n /\ Mailed(call[c].results[k])
      BY <3>1
    <3>3. QED
      BY <1>2, <2>1, <3>2
  <2>3. ASSUME NEW x \in told
        PROVE  Result(x).id \in minted
    <3>1. PICK c \in Callers : \E k \in DOMAIN call[c].results : x = <<c, k>>
      BY <1>1
    <3>2. PICK k \in DOMAIN call[c].results : x = <<c, k>>
      BY <3>1
    <3>3. Mailed(call[c].results[k]) /\ Result(x).id = call[c].results[k].id
      BY <1>2, <2>1, <3>2
    <3>4. call[c].results[k].id \in JobIds
      BY <1>2, <1>3, <3>2, DrawnAreIds DEF NInv
    <3>5. QED
      BY <3>3, <3>4 DEF NInv, MintedIsMailed
  <2>4. QED
    BY <2>2, <2>3
<1>6. QED
  BY <1>3, <1>4, <1>5 DEF MailMatchesResults

(* A mail is enqueued exactly for the notifications somebody was told Ok   *)
(* of whose recipients want mail at once, and no notification is told      *)
(* twice, whoever is dropped, refused or deleting meanwhile.               *)
THEOREM MailMatches == NSpec => []MailMatchesResults
BY NInvMatches, NotificationsInvariance, PTL

(* A deleted notification stays deleted and a read one stays read until    *)
(* then, with any number of mark_read calls holding copies.                *)
LEMMA StepsStay ==
  ASSUME NInv, [NNext]_allVars, NEW n \in Drawn
  PROVE  /\ ~Present(n) => ~Present(n)'
         /\ inbox[n].read /\ Present(n)' => inbox'[n].read
<1>1. n \in JobIds /\ inbox \in [JobIds -> Notification \cup {NoNotification}]
  BY DrawnAreIds DEF NInv, NTypeOK
<1>2. CASE UNCHANGED inbox
  BY <1>2 DEF Present
<1>3. ASSUME NEW c \in Callers, CreateNotification(c)
      PROVE  inbox'[n] = inbox[n]
  BY <1>1, <1>3, DrawsFresh DEF CreateNotification, NInv
<1>4. ASSUME NEW m \in JobIds, DeleteNotification(m)
      PROVE  inbox'[n] \in {inbox[n], NoNotification}
  BY <1>1, <1>4 DEF DeleteNotification
<1>5. ASSUME NEW m \in Markers, UpdateMarked(m)
      PROVE  /\ ~Present(n) => inbox'[n] = inbox[n]
             /\ inbox'[n] = inbox[n] \/ inbox'[n].read
  BY <1>1, <1>5 DEF UpdateMarked, NInv, CopiesAreRead
<1>6. ASSUME NEW u \in Users, MarkAllRead(u)
      PROVE  /\ ~Present(n) => inbox'[n] = inbox[n]
             /\ inbox'[n] = inbox[n] \/ inbox'[n].read
  <2>1. inbox'[n] = IF inbox[n].to = u THEN [inbox[n] EXCEPT !.read = TRUE] ELSE inbox[n]
    BY <1>1, <1>6 DEF MarkAllRead
  <2>2. ~Present(n) => inbox[n].to # u
    BY NotificationsAssumption DEF Present, NoNotification
  <2>3. Present(n) => [inbox[n] EXCEPT !.read = TRUE].read
    BY <1>1 DEF Present, Notification
  <2>4. QED
    BY <2>1, <2>2, <2>3
<1>7. CASE UNCHANGED allVars \/ (Operate /\ UNCHANGED notifying)
  BY <1>2, <1>7 DEF allVars, notifying
<1>8. CASE \E c \in Callers : CallerStep(c) \/ DropCall(c) \/ \E e \in Events[c] : Start(c, e)
  <2>1. UNCHANGED inbox \/ \E c \in Callers : CreateNotification(c)
    BY <1>8 DEF CallerStep, Skip, CheckSettings, QueueEmail, QueueEmailError, Return,
                DropCall, Start
  <2>2. QED
    BY <1>2, <1>3, <2>1 DEF Present
<1>9. CASE \E m \in JobIds : DeleteNotification(m) \/ \E k \in Markers : GetToMark(k, m)
  <2>1. UNCHANGED inbox \/ \E m \in JobIds : DeleteNotification(m)
    BY <1>9 DEF GetToMark
  <2>2. NoNotification.read = FALSE
    BY DEF NoNotification
  <2>3. QED
    BY <1>2, <1>4, <2>1, <2>2 DEF Present
<1>10. CASE (\E m \in Markers : UpdateMarked(m)) \/ \E u \in Users : MarkAllRead(u)
  BY <1>5, <1>6, <1>10 DEF Present
<1>11. QED
  BY <1>7, <1>8, <1>9, <1>10 DEF NNext

(* Whatever callers and the worker do meanwhile, a notification that was   *)
(* read stays read and one that was deleted stays away: update of the      *)
(* store only ever sets read_at, and its ids are not used again.           *)
THEOREM MarksStay == NSpec => ReadAndDeletedStay
<1>1. NInv /\ [NNext]_allVars
        => [\A n \in Drawn : /\ ~Present(n) => ~Present(n)'
                             /\ inbox[n].read /\ Present(n)' => inbox'[n].read]_allVars
  BY StepsStay
<1>2. QED
  BY <1>1, NotificationsInvariance, PTL DEF NSpec, ReadAndDeletedStay

(* What the service, its callers and users do to the queue is what a queue *)
(* lets any client do: every theorem about the queue holds of the          *)
(* composition, and mail jobs live the life JobLifecycle gives them.       *)
THEOREM QueueWithinService == NSpec => Spec /\ ImplementsLifecycle
<1>1. NInit => Init
  BY DEF NInit
<1>2. ASSUME NInv, [NNext]_allVars
      PROVE  [Next]_vars
  <2>1. ASSUME NEW c \in Callers, CallerStep(c) \/ DropCall(c) \/ \E e \in Events[c] : Start(c, e)
        PROVE  [Next]_vars
    <3>1. CASE QueueEmail(c)
      <4>1. call[c].id \in JobIds
        BY <1>2, <3>1, DrawnAreIds DEF QueueEmail, NInv, MailsTheUntold
      <4>2. QED
        BY <3>1, <4>1 DEF QueueEmail, Next
    <3>2. CASE ~QueueEmail(c)
      BY <2>1, <3>2 DEF CallerStep, Skip, CheckSettings, CreateNotification, QueueEmailError,
                        Return, DropCall, Start
    <3>3. QED
      BY <3>1, <3>2
  <2>2. QED
    BY <1>2, <2>1 DEF NNext, Next, allVars, DeleteNotification, GetToMark, UpdateMarked,
                      MarkAllRead
<1>3. NSpec => Spec
  BY <1>1, <1>2, NotificationsInvariance, PTL DEF NSpec, Spec
<1>4. QED
  BY <1>3, Refinement

=============================================================================
