-------------------------- MODULE MCTerminalClient ---------------------------
(* Instances of TerminalClient for TLC: two key pairs, interchangeable.     *)
EXTENDS TerminalClient, TLC

Symmetry == Permutations(Key)
=============================================================================
