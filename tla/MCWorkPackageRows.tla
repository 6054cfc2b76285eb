-------------------------- MODULE MCWorkPackageRows --------------------------
(***************************************************************************)
(* An instance of WorkPackageRows for TLC: clients that quote the version  *)
(* they read, and one whose requests carry none.                           *)
(***************************************************************************)
EXTENDS WorkPackageRows

CONSTANTS wp1, c1, c2, c3

OneRow == {wp1}
Careful == {c1, c2}
WithCareless == {c1, c2, c3}
=============================================================================
