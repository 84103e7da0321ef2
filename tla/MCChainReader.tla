---------------------------- MODULE MCChainReader ----------------------------
(* Instances of ChainReader for TLC: one tree of up to six blocks, of which *)
(* the second, the third or both may open the auction.                      *)
EXTENDS ChainReader

Hashes == 1 .. 6
OneRoot == {1}
Openings == {2, 3}
First == {1}
FewHashes == 1 .. 3
=============================================================================
