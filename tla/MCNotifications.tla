--------------------------- MODULE MCNotifications ---------------------------
(* Two notifier calls, one of which may be dropped, telling three users of *)
(* whom one wants mail at once, one a digest and one nothing of creations. *)
EXTENDS Notifications, TLC

CONSTANTS n1, n2, w1, c1, c2, m1, anna, ben, cleo

MCJobIds == {n1, n2}
MCIds == <<n1, n2>>
MCWorkers == {w1}
MCQueueOf == [n \in MCJobIds |-> "mailers"]
MCServes == [w \in MCWorkers |-> "mailers"]
MCPriority == [n \in MCJobIds |-> 1]
MCMaxRetries == n1 :> 1 @@ n2 :> 0
MCHandles == [w \in MCWorkers |-> MCJobIds]
Nobody == {}
MCUsers == {anna, ben, cleo}
MCCallers == {c1, c2}
MCDroppable == {c2}
MCUnlucky == {c1}
MCMarkers == {m1}
\* Ben creates a work package cleo and anna watch and assigns one to anna;
\* anna mentions ben and herself.
MCEvents ==
  c1 :> {[type |-> "WorkPackageCreated", actor |-> ben, audience |-> <<cleo, ben, anna>>]}
    @@ c2 :> {[type |-> "WorkPackageAssigned", actor |-> ben, audience |-> <<anna>>],
              [type |-> "WorkPackageMentioned", actor |-> anna, audience |-> <<anna, ben>>]}

EveryType == [in_app_enabled |-> TRUE, email_enabled |-> TRUE, email_frequency |-> "Immediate",
              enabled_types |-> Types, enabled_reasons |-> Reasons,
              all_projects |-> TRUE, watched_projects |-> {}]
MCSettings ==
  anna :> EveryType @@ ben :> [EveryType EXCEPT !.email_frequency = "Daily"]
    @@ cleo :> [EveryType EXCEPT !.enabled_types = {"WorkPackageAssigned", "WorkPackageMentioned"}]
=============================================================================
