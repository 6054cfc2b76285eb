----------------------------- MODULE MCSessions -----------------------------
(* Two users with one session each, two requests, three seconds.           *)
EXTENDS Sessions, TLC

CONSTANTS s1, s2, r1, r2, anna, ben

MCUsers == {anna, ben}
MCSessionIds == {s1, s2}
MCRequests == {r1, r2}
MCStrategies == <<"Jwt", "ApiKey", "Session", "Basic", "OAuth2">>
MCTokens == {[sub |-> anna, exp |-> 0], [sub |-> ben, exp |-> 1]}
MCHeaders == {[password |-> p, api_key |-> k] : p \in {"none"}, k \in {"none", "short", "long"}}
               \cup {[password |-> p, api_key |-> "none"] : p \in {"blank", "given"}}
MCLifetimes == {1}
Symmetry == Permutations(MCSessionIds) \cup Permutations(MCRequests)
=============================================================================
