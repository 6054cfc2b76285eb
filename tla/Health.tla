------------------------------- MODULE Health -------------------------------
(***************************************************************************)
(* The health report of op-server (health.rs), which the readiness probe   *)
(* and the health page ask for.  HealthChecker.check looks at the cached   *)
(* report under the read lock, lets go of it, asks the database, and only  *)
(* then takes the write lock to store what it found.  Any number of        *)
(* requests are in between, and nothing bounds how long one waits for the  *)
(* database: its report is as old as that when it is stored.               *)
(***************************************************************************)
EXTENDS Integers

CONSTANTS
  Probes,         \* the requests for a report, each asked again and again
  HasPool,        \* whether the checker was given a database pool
  CacheDuration,  \* HealthConfig.cache_duration
  MaxDelay,       \* bound of the model: how long the cache's lock is waited for
  NoStatus        \* in place of a status where there is none

ASSUME HealthAssumption ==
  /\ HasPool \in BOOLEAN
  /\ CacheDuration \in Nat \ {0} /\ MaxDelay \in Nat
  /\ NoStatus \notin {"Healthy", "Degraded", "Unhealthy"}

VARIABLES
  database,   \* "up" or "down": what SELECT 1 finds
  cache,      \* CachedHealth: the report, the age of the entry and of its findings
  stage,      \* where each probe is
  report,     \* what each probe's own check found
  age,        \* how long each probe has been where it is
  answer      \* the report each probe was given last, and how old its findings were

hvars == <<database, cache, stage, report, age, answer>>

Statuses == {"Healthy", "Degraded", "Unhealthy"}
NoReport == [status |-> NoStatus, stored |-> 0, found |-> 0]
NoAnswer == [status |-> NoStatus, found |-> 0]

\* The ages that matter: beyond these nothing depends on them.
MaxFound == CacheDuration + MaxDelay
MaxAge == MaxDelay + 1
Older(n, most) == IF n < most THEN n + 1 ELSE n

-----------------------------------------------------------------------------
(* perform_checks: the worst of what the components report, except that    *)
(* memory and disk can do no worse than degrade it.  Both always report    *)
(* Healthy.                                                                *)
CheckDatabase == IF database = "up" THEN "Healthy" ELSE "Unhealthy"
CheckMemory == "Healthy"
CheckDisk == "Healthy"

Lowered(overall, component) ==
  IF component = "Degraded" /\ overall = "Healthy" THEN "Degraded" ELSE overall

AfterDatabase ==
  IF ~HasPool THEN "Healthy"
  ELSE IF CheckDatabase = "Unhealthy" THEN "Unhealthy"
  ELSE Lowered("Healthy", CheckDatabase)

PerformChecks == Lowered(Lowered(AfterDatabase, CheckMemory), CheckDisk)

-----------------------------------------------------------------------------
HealthInit ==
  /\ database \in {"up", "down"}
  /\ cache = NoReport
  /\ stage = [p \in Probes |-> "idle"]
  /\ report = [p \in Probes |-> NoStatus]
  /\ age = [p \in Probes |-> 0]
  /\ answer = [p \in Probes |-> NoAnswer]

\* Mutant: the entry is still good when it is as old as it may get.
FreshTooLong == cache # NoReport /\ cache.stored <= CacheDuration

Fresh == cache # NoReport /\ cache.stored < CacheDuration

Goto(p, where) ==
  /\ stage' = [stage EXCEPT ![p] = where]
  /\ age' = [age EXCEPT ![p] = 0]

\* Mutant: a report handed out counts as new again.
AskSliding(p) ==
  /\ stage[p] = "idle"
  /\ IF Fresh
     THEN /\ answer' = [answer EXCEPT ![p] = [status |-> cache.status, found |-> cache.found]]
          /\ cache' = [cache EXCEPT !.stored = 0]
          /\ UNCHANGED <<stage, age>>
     ELSE /\ Goto(p, "checking")
          /\ answer' = [answer EXCEPT ![p] = NoAnswer]
          /\ UNCHANGED cache
  /\ UNCHANGED <<database, report>>

\* check, up to where it lets go of the read lock.
Ask(p) ==
  /\ stage[p] = "idle"
  /\ IF Fresh
     THEN /\ answer' = [answer EXCEPT ![p] = [status |-> cache.status, found |-> cache.found]]
          /\ UNCHANGED <<stage, age>>
     ELSE /\ Goto(p, "checking")
          /\ answer' = [answer EXCEPT ![p] = NoAnswer]
  /\ UNCHANGED <<database, cache, report>>

\* The database answers, or the pool gives up.
Check(p) ==
  /\ stage[p] = "checking"
  /\ report' = [report EXCEPT ![p] = PerformChecks]
  /\ Goto(p, "storing")
  /\ UNCHANGED <<database, cache, answer>>

\* The entry counts from now, its findings are as old as the wait for the lock.
Store(p) ==
  /\ stage[p] = "storing"
  /\ cache' = [status |-> report[p], stored |-> 0, found |-> age[p]]
  /\ answer' = [answer EXCEPT ![p] = [status |-> report[p], found |-> age[p]]]
  /\ report' = [report EXCEPT ![p] = NoStatus]
  /\ Goto(p, "idle")
  /\ UNCHANGED database

\* The client hangs up while check waits.
Drop(p) ==
  /\ stage[p] # "idle"
  /\ report' = [report EXCEPT ![p] = NoStatus]
  /\ Goto(p, "idle")
  /\ UNCHANGED <<database, cache, answer>>

Turn ==
  /\ database' = IF database = "up" THEN "down" ELSE "up"
  /\ UNCHANGED <<cache, stage, report, age, answer>>

Tick ==
  /\ \A p \in Probes : stage[p] = "storing" => age[p] < MaxDelay
  /\ cache' = IF cache = NoReport THEN cache
              ELSE [cache EXCEPT !.stored = Older(@, CacheDuration), !.found = Older(@, MaxFound)]
  /\ age' = [p \in Probes |-> IF stage[p] = "idle" THEN 0 ELSE Older(age[p], MaxAge)]
  /\ UNCHANGED <<database, stage, report, answer>>

HealthNext ==
  \/ \E p \in Probes : Ask(p) \/ Check(p) \/ Store(p) \/ Drop(p)
  \/ Turn \/ Tick

(* A readiness probe is repeated for as long as the server runs, the lock  *)
(* is fair and the pool gives up waiting for a connection in the end.      *)
HealthFairness ==
  /\ \A p \in Probes : WF_hvars(Ask(p)) /\ WF_hvars(Check(p)) /\ WF_hvars(Store(p))
  /\ WF_hvars(Tick)

HealthSpec == HealthInit /\ [][HealthNext]_hvars /\ HealthFairness

-----------------------------------------------------------------------------
(* No probe is told findings older than the cache's duration and the wait  *)
(* for its lock, whichever probe found them and however many stored theirs *)
(* in between.                                                             *)
FoundLately == \A p \in Probes : answer[p].found < CacheDuration + MaxDelay

(* Once the database stays as it is, the probes are told so: no probe      *)
(* keeps hearing what another one found before, although reports are       *)
(* stored late and over newer ones.                                        *)
Told(status) == \A p \in Probes : answer[p].status \in {NoStatus, status}

FollowsDatabase ==
  HasPool => /\ <>[](database = "down") => <>[]Told("Unhealthy")
             /\ <>[](database = "up") => <>[]Told("Healthy")

=============================================================================
