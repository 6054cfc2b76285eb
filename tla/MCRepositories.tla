--------------------------- MODULE MCRepositories ---------------------------
(* The repositories on a small instance: two requests, one of which may be *)
(* broken off, against a table of at most MaxId rows.                         *)
EXTENDS Repositories, TLC

CONSTANTS r1, r2, n1, n2, l1, l2

MCRequests == {r1, r2}
MCNames == {n1, n2}
MCLinks == {l1, l2}
MCLinkSets == {{}, {l1, l2}}

MCSymmetry ==
  Permutations(MCRequests) \cup Permutations(MCNames) \cup Permutations(MCLinks)
=============================================================================
