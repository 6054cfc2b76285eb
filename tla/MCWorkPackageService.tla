------------------------ MODULE MCWorkPackageService ------------------------
(* Instances of WorkPackageService for TLC.                                *)
EXTENDS WorkPackageService

CONSTANTS c1, c2

TwoClients == {c1, c2}
=============================================================================
