------------------------------ MODULE JobQueue ------------------------------
(***************************************************************************)
(* The in-memory job queue of op-notifications (MemoryJobQueue) and the    *)
(* worker loop that drains it (JobWorker), in jobs.rs.                     *)
(*                                                                         *)
(* Every queue operation takes the RwLock once, so it is one action.  A    *)
(* worker gives up control at each await, so one turn of its loop is four  *)
(* actions: look at the shutdown flag, dequeue, run the handler, report.   *)
(* Between them it works on its own clone of the job, while clients delete *)
(* jobs, revive dead ones, clear completed ones and enqueue new ones.      *)
(***************************************************************************)
EXTENDS Integers

CONSTANTS
  JobIds,       \* ids Job::new can draw; a uuid is never drawn twice
  Workers,      \* JobWorker::run loops sharing the queue
  QueueOf,      \* the queue each job is enqueued on
  Serves,       \* the queue each worker takes jobs from
  PriorityOf,   \* the JobPriority of each job, Low = 0 .. Critical = 3
  MaxRetries,   \* max_retries of each job
  Handles,      \* the jobs whose job_type each worker has a handler for
  Unreliable,   \* workers that may be cancelled or panic in an await
  MaxRevivals   \* bound of the model: calls of retry_dead

ASSUME JobQueueAssumption ==
  /\ PriorityOf \in [JobIds -> 0 .. 3]
  /\ MaxRetries \in [JobIds -> Nat]
  /\ Handles \in [Workers -> SUBSET JobIds]
  /\ DOMAIN QueueOf = JobIds /\ DOMAIN Serves = Workers
  /\ Unreliable \subseteq Workers
  /\ MaxRevivals \in Nat

VARIABLES
  jobs,       \* the HashMap: what is stored under each id
  minted,     \* ids already drawn
  pc,         \* where each worker stands in its loop
  hand,       \* the clone of the job each worker took
  shutdown,   \* the watch channel's flag
  revivals,   \* calls of retry_dead so far
  attempts,   \* history: attempts at a job since it was enqueued or revived
  successes,  \* history: handler runs of a job that returned Ok
  lost        \* history: jobs whose worker died before reporting

vars == <<jobs, minted, pc, hand, shutdown, revivals, attempts, successes, lost>>
history == <<attempts, successes, lost>>

(***************************************************************************)
(* Job: status, retries, and run_at reduced to whether is_ready holds.     *)
(* JobStatus::Failed is declared by the code and never assigned.  An id    *)
(* with nothing stored under it has the status Absent.                     *)
(***************************************************************************)
Status == {"Pending", "Running", "Completed", "Retrying", "Dead"}
Job == [status : Status \cup {"Absent"}, retries : Nat, due : BOOLEAN]
NoJob == [status |-> "Absent", retries |-> 0, due |-> FALSE]

Stored(j) == jobs[j].status # "Absent"

\* Mutant: one retry too many.
CanRetryOffByOne(j, job) == job.retries <= MaxRetries[j]

CanRetry(j, job) == job.retries < MaxRetries[j]

MarkRunning(job) == [job EXCEPT !.status = "Running"]

MarkCompleted(job) == [job EXCEPT !.status = "Completed"]

\* A failure either schedules a retry, whose backoff puts run_at in the
\* future, or buries the job.
MarkFailed(j, job) ==
  IF CanRetry(j, job)
  THEN [status |-> "Retrying", retries |-> job.retries + 1, due |-> FALSE]
  ELSE [job EXCEPT !.status = "Dead"]

(***************************************************************************)
(* What dequeue may pick: a ready Pending job of the highest priority, and *)
(* only when there is none, any ready Retrying job.  The map's iteration   *)
(* order decides among the candidates.                                     *)
(***************************************************************************)
Ready(q, status) ==
  {j \in JobIds : QueueOf[j] = q /\ jobs[j].status = status /\ jobs[j].due}

HighestPriority(S) == {j \in S : \A k \in S : PriorityOf[k] <= PriorityOf[j]}

\* Mutant: the second search of dequeue is missing.
PendingOnly(q) == HighestPriority(Ready(q, "Pending"))

Candidates(q) ==
  IF Ready(q, "Pending") # {}
  THEN HighestPriority(Ready(q, "Pending"))
  ELSE Ready(q, "Retrying")

-----------------------------------------------------------------------------
(* Where a worker stands: at the top of the loop, inside dequeue, in the   *)
(* handler, about to report an outcome, returned from run, or dead.        *)
Pc == {"top", "polling", "handling", "succeeded", "failed", "stopped", "crashed"}
Busy == {"handling", "succeeded", "failed"}
Clone == [id : JobIds, retries : Nat]
NoClone == [id |-> "none", retries |-> 0]

Holds(w, j) == pc[w] \in Busy /\ hand[w].id = j
Held(j) == \E w \in Workers : Holds(w, j)

Init ==
  /\ jobs = [j \in JobIds |-> NoJob]
  /\ minted = {}
  /\ pc = [w \in Workers |-> "top"]
  /\ hand = [w \in Workers |-> NoClone]
  /\ shutdown = FALSE
  /\ revivals = 0
  /\ attempts = [j \in JobIds |-> 0]
  /\ successes = [j \in JobIds |-> 0]
  /\ lost = {}

(***************************************************************************)
(* Clients of the queue.                                                   *)
(***************************************************************************)
Enqueue(j, due) ==
  /\ j \notin minted
  /\ minted' = minted \cup {j}
  /\ jobs' = [jobs EXCEPT ![j] = [status |-> "Pending", retries |-> 0, due |-> due]]
  /\ UNCHANGED <<pc, hand, shutdown, revivals, history>>

Delete(j) ==
  /\ Stored(j)
  /\ jobs' = [jobs EXCEPT ![j] = NoJob]
  /\ UNCHANGED <<minted, pc, hand, shutdown, revivals, history>>

\* Mutant: retry_dead takes every finished job.
DeadOrCompleted(q) ==
  {j \in JobIds : QueueOf[j] = q /\ jobs[j].status \in {"Dead", "Completed"}}

Dead(q) == {j \in JobIds : QueueOf[j] = q /\ jobs[j].status = "Dead"}

\* Mutant: retry_dead hands the job back without giving it a new budget.
RetryDeadKeepsRetries(q) ==
  /\ Dead(q) # {} /\ revivals < MaxRevivals
  /\ revivals' = revivals + 1
  /\ jobs' = [j \in JobIds |-> IF j \in Dead(q)
                               THEN [jobs[j] EXCEPT !.status = "Pending", !.due = TRUE]
                               ELSE jobs[j]]
  /\ attempts' = [j \in JobIds |-> IF j \in Dead(q) THEN 0 ELSE attempts[j]]
  /\ UNCHANGED <<minted, pc, hand, shutdown, successes, lost>>

RetryDead(q) ==
  /\ Dead(q) # {} /\ revivals < MaxRevivals
  /\ revivals' = revivals + 1
  /\ jobs' = [j \in JobIds |-> IF j \in Dead(q)
                               THEN [status |-> "Pending", retries |-> 0, due |-> TRUE]
                               ELSE jobs[j]]
  /\ attempts' = [j \in JobIds |-> IF j \in Dead(q) THEN 0 ELSE attempts[j]]
  /\ UNCHANGED <<minted, pc, hand, shutdown, successes, lost>>

Completed(q) == {j \in JobIds : QueueOf[j] = q /\ jobs[j].status = "Completed"}

ClearCompleted(q) ==
  /\ Completed(q) # {}
  /\ jobs' = [j \in JobIds |-> IF j \in Completed(q) THEN NoJob ELSE jobs[j]]
  /\ UNCHANGED <<minted, pc, hand, shutdown, revivals, history>>

SignalShutdown ==
  /\ ~shutdown
  /\ shutdown' = TRUE
  /\ UNCHANGED <<jobs, minted, pc, hand, revivals, history>>

\* The clock reaches the run_at of a stored job.
BecomeReady(j) ==
  /\ Stored(j) /\ ~jobs[j].due
  /\ jobs' = [jobs EXCEPT ![j].due = TRUE]
  /\ UNCHANGED <<minted, pc, hand, shutdown, revivals, history>>

(***************************************************************************)
(* One turn of JobWorker::run.                                             *)
(***************************************************************************)
Loop(w) ==
  /\ pc[w] = "top"
  /\ pc' = [pc EXCEPT ![w] = IF shutdown THEN "stopped" ELSE "polling"]
  /\ UNCHANGED <<jobs, minted, hand, shutdown, revivals, history>>

Take(w, j) ==
  /\ hand' = [hand EXCEPT ![w] = [id |-> j, retries |-> jobs[j].retries]]
  /\ pc' = [pc EXCEPT ![w] = IF j \in Handles[w] THEN "handling" ELSE "failed"]
  /\ attempts' = [attempts EXCEPT ![j] = @ + 1]

\* Mutant: the clone is marked running and the stored job is not.
DequeueLeavesPending(w) ==
  /\ pc[w] = "polling"
  /\ \/ /\ Candidates(Serves[w]) = {}
        /\ pc' = [pc EXCEPT ![w] = "top"]
        /\ UNCHANGED <<jobs, hand, attempts>>
     \/ \E j \in Candidates(Serves[w]) : Take(w, j) /\ UNCHANGED jobs
  /\ UNCHANGED <<minted, shutdown, revivals, successes, lost>>

Dequeue(w) ==
  /\ pc[w] = "polling"
  /\ \/ /\ Candidates(Serves[w]) = {}
        /\ pc' = [pc EXCEPT ![w] = "top"]
        /\ UNCHANGED <<jobs, hand, attempts>>
     \/ \E j \in Candidates(Serves[w]) :
          /\ Take(w, j)
          /\ jobs' = [jobs EXCEPT ![j] = MarkRunning(@)]
  /\ UNCHANGED <<minted, shutdown, revivals, successes, lost>>

Handle(w, ok) ==
  /\ pc[w] = "handling"
  /\ pc' = [pc EXCEPT ![w] = IF ok THEN "succeeded" ELSE "failed"]
  /\ successes' = [successes EXCEPT ![hand[w].id] = @ + (IF ok THEN 1 ELSE 0)]
  /\ UNCHANGED <<jobs, minted, hand, shutdown, revivals, attempts, lost>>

\* update inserts the worker's clone whatever is stored under its id now.
TheClone(w) == [status |-> "Running", retries |-> hand[w].retries, due |-> TRUE]

\* Mutant: a failure is logged and not written back.
ReportDropsFailure(w) ==
  /\ pc[w] \in {"succeeded", "failed"}
  /\ jobs' = IF pc[w] = "succeeded"
             THEN [jobs EXCEPT ![hand[w].id] = MarkCompleted(TheClone(w))]
             ELSE jobs
  /\ hand' = [hand EXCEPT ![w] = NoClone]
  /\ pc' = [pc EXCEPT ![w] = "top"]
  /\ UNCHANGED <<minted, shutdown, revivals, history>>

Report(w) ==
  /\ pc[w] \in {"succeeded", "failed"}
  /\ LET j == hand[w].id
     IN  jobs' = [jobs EXCEPT ![j] = IF pc[w] = "succeeded"
                                     THEN MarkCompleted(TheClone(w))
                                     ELSE MarkFailed(j, TheClone(w))]
  /\ hand' = [hand EXCEPT ![w] = NoClone]
  /\ pc' = [pc EXCEPT ![w] = "top"]
  /\ UNCHANGED <<minted, shutdown, revivals, history>>

WorkerStep(w) ==
  \/ Loop(w)
  \/ Dequeue(w)
  \/ \E ok \in BOOLEAN : Handle(w, ok)
  \/ Report(w)

\* The task running the worker is dropped, or its handler panics.
Crash(w) ==
  /\ w \in Unreliable
  /\ pc[w] \notin {"stopped", "crashed"}
  /\ pc' = [pc EXCEPT ![w] = "crashed"]
  /\ lost' = IF pc[w] \in Busy THEN lost \cup {hand[w].id} ELSE lost
  /\ hand' = [hand EXCEPT ![w] = NoClone]
  /\ UNCHANGED <<jobs, minted, shutdown, revivals, attempts, successes>>

QueueNames == {QueueOf[j] : j \in JobIds}

\* All but enqueue, which a composition with its callers restricts.
Operate ==
  \/ \E j \in JobIds : Delete(j) \/ BecomeReady(j)
  \/ \E q \in QueueNames : RetryDead(q) \/ ClearCompleted(q)
  \/ SignalShutdown
  \/ \E w \in Workers : WorkerStep(w) \/ Crash(w)

Next ==
  \/ \E j \in JobIds, due \in BOOLEAN : Enqueue(j, due)
  \/ Operate

Spec == Init /\ [][Next]_vars

(***************************************************************************)
(* Fairness: the runtime keeps polling a task that can run, a handler      *)
(* returns in the end, and the clock advances.  Clients owe nothing.       *)
(***************************************************************************)
Fairness ==
  /\ \A w \in Workers : WF_vars(WorkerStep(w))
  /\ \A j \in JobIds : WF_vars(BecomeReady(j))

(***************************************************************************)
(* Clients may go on for ever.  An id of the model then stands for one job *)
(* after the other: it is given to a new one when nothing of the last is   *)
(* left, and the bound on revivals begins anew.                            *)
(***************************************************************************)
Renew ==
  LET free == {j \in JobIds : ~Stored(j) /\ ~Held(j)}
  IN  /\ minted' = minted \ free
      /\ revivals' = 0
      /\ attempts' = [j \in JobIds |-> IF j \in free THEN 0 ELSE attempts[j]]
      /\ successes' = [j \in JobIds |-> IF j \in free THEN 0 ELSE successes[j]]
      /\ lost' = lost \ free
      /\ UNCHANGED <<jobs, pc, hand, shutdown>>

EndlessSpec == Init /\ [][Next \/ Renew]_vars /\ Fairness

-----------------------------------------------------------------------------
(* Type correctness of the queue, the workers and the history.  The status *)
(* Failed, which the code declares, is never assigned.                     *)
TypeOK ==
  /\ jobs \in [JobIds -> Job]
  /\ minted \in SUBSET JobIds
  /\ pc \in [Workers -> Pc]
  /\ hand \in [Workers -> Clone \cup {NoClone}]
  /\ \A w \in Workers : pc[w] \in Busy => hand[w] \in Clone
  /\ shutdown \in BOOLEAN
  /\ revivals \in 0 .. MaxRevivals
  /\ attempts \in [JobIds -> Nat]
  /\ successes \in [JobIds -> Nat]
  /\ lost \in SUBSET JobIds

(* No two workers run the same job, whatever clients delete or revive in   *)
(* the meantime: dequeue finds and marks a job under one write lock.       *)
SingleHolder ==
  \A v, w \in Workers : \A j \in JobIds : Holds(v, j) /\ Holds(w, j) => v = w

(* A stored job is Running exactly while a worker has it, or for ever once *)
(* its worker died: nothing returns such a job to the queue.               *)
RunningIsHeld ==
  \A j \in JobIds :
    /\ jobs[j].status = "Running" => j \in lost \/ Held(j)
    /\ j \in lost \/ Held(j) => jobs[j].status \in {"Running", "Absent"}

(* The retries field counts the failed attempts at a job: it is tried at   *)
(* most max_retries + 1 times between two revivals, and is buried only     *)
(* when it has been tried that often, also when it was deleted and written *)
(* back in between.                                                        *)
RetryAccounting ==
  /\ \A j \in JobIds :
       /\ jobs[j].retries <= MaxRetries[j]
       /\ attempts[j] <= MaxRetries[j] + 1
       /\ jobs[j].status \in {"Pending", "Retrying"} => attempts[j] = jobs[j].retries
       /\ jobs[j].status \in {"Running", "Completed", "Dead"}
            => attempts[j] = jobs[j].retries + 1
       /\ jobs[j].status = "Dead" => jobs[j].retries = MaxRetries[j]
  /\ \A w \in Workers :
       pc[w] \in Busy => attempts[hand[w].id] = hand[w].retries + 1

(* A job whose handler returned Ok is never handled again: it is reported  *)
(* Completed, or stays Running if its worker died first, and neither       *)
(* dequeue nor retry_dead takes it up.                                     *)
NoRerunAfterSuccess ==
  \A j \in JobIds :
    /\ successes[j] <= 1
    /\ jobs[j].status \in {"Pending", "Retrying", "Dead"} => successes[j] = 0
    /\ jobs[j].status = "Completed" => successes[j] = 1

(* A deleted job reappears only by the report of the worker that took it   *)
(* before the delete: update inserts whether or not the id is stored.      *)
DeletedRevivedOnlyByHolder ==
  [][\A j \in minted :
       ~Stored(j) /\ jobs'[j].status # "Absent"
         => \E w \in Workers : Holds(w, j) /\ ~Holds(w, j)']_vars

(* While workers survive and handlers return, a job on a served queue ends *)
(* Completed or Dead or is deleted, or the workers are told to stop, or it *)
(* is overtaken for ever: dequeue looks at Retrying jobs only when none is *)
(* Pending and ready, and at Pending ones by priority, so clients that go  *)
(* on enqueueing starve it.  Once they enqueue and revive nothing any      *)
(* more, all jobs settle, for retries are counted.  Whatever clients do,   *)
(* workers that are told to stop finish the jobs they have, report them    *)
(* and return.                                                             *)
Settled(j) == jobs[j].status \in {"Completed", "Dead", "Absent"}
Served(j) == \E w \in Workers : Serves[w] = QueueOf[j]
Overtaken(j) ==
  /\ jobs[j].status \in {"Pending", "Retrying"} /\ jobs[j].due
  /\ \E w \in Workers : /\ pc[w] = "polling" /\ Serves[w] = QueueOf[j]
                        /\ hand'[w] \in Clone /\ hand'[w].id # j

\* What clients do to make others wait.
Arrival == \E j \in JobIds : jobs[j].status # "Pending" /\ jobs'[j].status = "Pending"

EventuallySettles ==
  /\ \A j \in JobIds :
       \/ []<><<Overtaken(j)>>_vars
       \/ (Stored(j) /\ Served(j)) ~> (Settled(j) \/ shutdown)
  /\ <>[][~Arrival]_vars =>
       \A j \in JobIds : (Stored(j) /\ Served(j)) ~> (Settled(j) \/ shutdown)
  /\ \A w \in Workers : shutdown ~> pc[w] = "stopped"

(***************************************************************************)
(* The queue implements JobLifecycle.  A job a worker holds counts as      *)
(* active whether or not a client has deleted it meanwhile, because the    *)
(* worker's report decides what becomes of it.                             *)
(***************************************************************************)
PhaseOf(j) ==
  IF j \notin minted THEN "none"
  ELSE IF Held(j) THEN "active"
  ELSE CASE jobs[j].status = "Absent" -> "gone"
         [] jobs[j].status \in {"Pending", "Retrying"} -> "waiting"
         [] jobs[j].status = "Running" -> "stuck"
         [] jobs[j].status = "Completed" -> "done"
         [] jobs[j].status = "Dead" -> "dead"

Lifecycle == INSTANCE JobLifecycle WITH
  Jobs <- JobIds,
  Budget <- [j \in JobIds |-> MaxRetries[j] + 1],
  phase <- [j \in JobIds |-> PhaseOf(j)],
  left <- [j \in JobIds |-> MaxRetries[j] + 1 - attempts[j]]

(* Every behaviour of the queue and its workers is one JobLifecycle        *)
(* allows: no double start, no start beyond the budget, nothing after      *)
(* success, no return of a removed job that no worker was running.         *)
ImplementsLifecycle == Lifecycle!Spec

=============================================================================
