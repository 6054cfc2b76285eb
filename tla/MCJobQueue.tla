----------------------------- MODULE MCJobQueue -----------------------------
(***************************************************************************)
(* Instances of JobQueue for TLC: two workers on the queue "mailers" and a *)
(* third on "default"; jobs of two priorities, with and without a retry,   *)
(* one of them of a type only the second worker has a handler for.         *)
(***************************************************************************)
EXTENDS JobQueue, TLC

CONSTANTS j1, j2, j3, w1, w2, w3

Mailers == "mailers"
Default == "default"

TwoWorkers == {w1, w2}
TwoServes == w1 :> Mailers @@ w2 :> Mailers
TwoJobs == {j1, j2}
TwoQueueOf == j1 :> Mailers @@ j2 :> Mailers
TwoPriority == j1 :> 1 @@ j2 :> 2
TwoMaxRetries == j1 :> 1 @@ j2 :> 0
TwoHandles == w1 :> {j1} @@ w2 :> {j1, j2}

ThreeWorkers == {w1, w2, w3}
ThreeServes == TwoServes @@ w3 :> Default
ThreeJobs == {j1, j2, j3}
ThreeQueueOf == TwoQueueOf @@ j3 :> Default
ThreePriority == TwoPriority @@ j3 :> 1
ThreeMaxRetries == TwoMaxRetries @@ j3 :> 0
ThreeHandles == TwoHandles @@ w3 :> {j3}

OnlyFirst == {w1}
Nobody == {}
=============================================================================
