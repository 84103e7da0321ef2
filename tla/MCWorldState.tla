---------------------------- MODULE MCWorldState ----------------------------
(* Instances of WorldState for TLC: two users and two auction ids, which    *)
(* are interchangeable, and three nonces each.                              *)
EXTENDS WorldState

Nonces == 0 .. 2
OneTime == {1}
TwoTimes == {1, 2}
Symmetry == Permutations(PublicKey) \cup Permutations(AuctionId)
=============================================================================
