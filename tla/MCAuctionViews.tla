--------------------------- MODULE MCAuctionViews ----------------------------
(* Instances of AuctionViews for TLC.  The amounts 9 and 10 have a different*)
(* number of digits.                                                        *)
EXTENDS AuctionViews

Amounts2 == {9, 10}
Symmetry == Permutations(PublicKey) \cup Permutations(AuctionId)
=============================================================================
