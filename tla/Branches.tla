------------------------------ MODULE Branches ------------------------------
(***************************************************************************)
(* Pure operators on forests of blocks: what `fix` in blockchain.rs must   *)
(* compute, whatever loops it computes it with.                            *)
(*                                                                         *)
(* The hash of a block commits to previous_hash, so a block determines all *)
(* of its ancestors.  A block is therefore written as its path: the        *)
(* sequence of hashes from the block whose parent is "0" up to the block   *)
(* itself.  The parent of b is Front(b) and <<>> stands for "0".  A hash   *)
(* is a natural number because the code compares hashes as BigUint.        *)
(***************************************************************************)
EXTENDS Integers, SequencesExt

(* The field `hash` of a block, and the hash of its first ancestor. *)
BlockHash(b) == Last(b)
RootOf(b)    == Head(b)

(* Mutant: the smaller hash wins, whatever the lengths. *)
Beats_HashOnly(a, b) == BlockHash(a) <= BlockHash(b)

(* The order of the `max_by` in find_longest_branch: the longer branch     *)
(* wins, and of two branches of one length the one with the smaller tip.   *)
Beats(a, b) ==
  \/ Len(a) > Len(b)
  \/ Len(a) = Len(b) /\ BlockHash(a) <= BlockHash(b)

(* The longest chain of a set of blocks, "0" left off. *)
LongestBranch(bs) ==
  IF bs = {} THEN <<>>
             ELSE CHOOSE b \in bs : \A c \in bs : Beats(b, c)

(* b leaves `chain` just after their common k-th block. *)
ForksAfter(b, chain, k) ==
  /\ Len(b) > k
  /\ SubSeq(b, 1, k) = SubSeq(chain, 1, k)
  /\ b[k + 1] # chain[k + 1]

(* Mutants: descendants of a loser are left; the last parent is not looked *)
(* at.                                                                     *)
Losers_ChildrenOnly(bs, chain, n) ==
  {b \in bs : \E k \in 1 .. Len(chain) - n :
                ForksAfter(b, chain, k) /\ Len(b) = k + 1}
Losers_OffByOne(bs, chain, n) ==
  {b \in bs : \E k \in 1 .. Len(chain) - n - 1 : ForksAfter(b, chain, k)}

(* What `prune` removes: every block that leaves the chain after one of    *)
(* its first Len(chain) - n blocks.  The loop of the code runs over the    *)
(* children of blocks of the chain; the children of "0" are not among      *)
(* them, so k starts at 1.                                                 *)
Losers(bs, chain, n) ==
  {b \in bs : \E k \in 1 .. Len(chain) - n : ForksAfter(b, chain, k)}

(* usize::saturating_sub *)
SatSub(m, n) == IF m > n THEN m - n ELSE 0

(* The part of a chain whose transactions may be executed. *)
Confirmed(chain, n) == SubSeq(chain, 1, SatSub(Len(chain), n))
=============================================================================
