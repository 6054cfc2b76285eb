---------------------------- MODULE MCAttachments ----------------------------
(***************************************************************************)
(* An instance of Attachments for TLC: three calls that overlap, one of    *)
(* which may be dropped, on two attachments.                               *)
(***************************************************************************)
EXTENDS Attachments, TLC

CONSTANTS c1, c2, c3, a1, a2, f1, f2

ThreeCalls == {c1, c2, c3}
OneDropped == {c1}
TwoIds == {a1, a2}
TwoKeys == {f1, f2}

(* Ids and filenames are handed out in any order.                          *)
Symmetric == Permutations(TwoIds) \cup Permutations(TwoKeys)
=============================================================================
