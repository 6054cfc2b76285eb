----------------------------- MODULE MCLiveness -----------------------------
(***************************************************************************)
(* The parts of which liveness is asked and that share no state: the queue *)
(* with its workers and the health report.  A behaviour is one of a single *)
(* part, fair to that one, in which the other stays where it began.        *)
(***************************************************************************)
EXTENDS MCJobQueue, Health

VARIABLE part

LivenessInit ==
  /\ part \in {"queue", "health"}
  /\ Init
  /\ HealthInit /\ (part # "health" => database = "up")

LivenessNext ==
  \/ part = "queue" /\ (Next \/ Renew) /\ UNCHANGED <<part, hvars>>
  \/ part = "health" /\ HealthNext /\ UNCHANGED <<part, vars>>

LivenessSpec ==
  /\ LivenessInit /\ [][LivenessNext]_<<part, vars, hvars>>
  /\ part = "queue" => Fairness
  /\ part = "health" => HealthFairness
=============================================================================
