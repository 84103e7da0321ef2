---------------------------- MODULE MCForkChoice ----------------------------
(* An instance of ForkChoice for TLC: two trees, up to six blocks. *)
EXTENDS ForkChoice

Hashes == 1 .. 6
Roots == {2, 3}
=============================================================================
