------------------------------- MODULE MCApi --------------------------------
(* Two requests of an anonymous caller, a user or an administrator, to     *)
(* each resource in turn.                                                  *)
EXTENDS Api, TLC
AllServed == DOMAIN Router
Alike == Permutations(Requests)
=============================================================================
