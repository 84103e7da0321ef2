---------------------------- MODULE MCBlockTree -----------------------------
(* Instances of BlockTree for TLC.  With hashes 1 .. 7 every forest of up   *)
(* to seven blocks is explored, in every order of arrival.  The root has a *)
(* hash in the middle, as hashes decide between branches.                   *)
EXTENDS BlockTree

Hashes == 1 .. 7
OneRoot == {4}
TwoRoots == {1, 4}
=============================================================================
