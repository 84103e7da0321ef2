----------------------------- MODULE ForkChoice -----------------------------
(***************************************************************************)
(* The block store of one node with the data and the loops of the code:    *)
(* blocks indexed by hash, the branch map, the recursive search for the    *)
(* longest branch and the worklist of prune().  It implements BlockTree,   *)
(* which says what these loops are for.                                    *)
(*                                                                         *)
(* A Vec filled in the iteration order of a HashMap is a set here: the     *)
(* order in which the code meets the children of a block changes nothing,  *)
(* because branches with different tips never compare equal.               *)
(***************************************************************************)
EXTENDS Branches

CONSTANTS Hash, Root, EXECUTE_AFTER_N_BLOCKS

(* The previous_hash of a block without a predecessor, "0" in the code. *)
Zero == 0

ASSUME ZeroAssumption  == Hash \subseteq Nat \ {Zero} /\ Root \subseteq Hash
ASSUME DepthAssumption == EXECUTE_AFTER_N_BLOCKS \in Nat \ {0}

VARIABLES
  blocks,            \* hash of a stored block |-> its previous_hash
  longest_chain, commited_pointer,
  pruned,            \* hashes of the blocks removed by prune()
  executed,          \* history: as in BlockTree
  parent             \* history: blocks, with those pruned since

vars == <<blocks, longest_chain, commited_pointer, pruned, executed, parent>>

N == EXECUTE_AFTER_N_BLOCKS
Stored == DOMAIN blocks

Init ==
  /\ blocks = <<>>
  /\ longest_chain = <<>>
  /\ commited_pointer = 0
  /\ pruned = {}
  /\ executed = <<>>
  /\ parent = <<>>

-----------------------------------------------------------------------------
(* fix() *)

(* previous_hash |-> the hashes of the stored blocks that have it. *)
BranchMap(bs) ==
  [p \in Range(bs) |-> {h \in DOMAIN bs : bs[h] = p}]

Children(branch_map, h) ==
  IF h \in DOMAIN branch_map THEN branch_map[h] ELSE {}

(* max_by(): the longest of the branches, the smallest tip among those. *)
Winner(branches) ==
  IF branches = {} THEN <<>>
  ELSE CHOOSE w \in branches : \A v \in branches : Beats(w, v)

FindLongestBranch(branch_map, prev) ==
  LET branch[h \in Hash \cup {Zero}] ==
        <<h>> \o Winner({branch[c] : c \in Children(branch_map, h)})
  IN  branch[prev]

(* One turn of the worklist: what is below a loser goes into the bin too. *)
Turn(branch_map, work) ==
  IF work.losers = {} THEN work
  ELSE LET h   == CHOOSE x \in work.losers : TRUE
           new == Children(branch_map, h) \ work.bin
       IN  [losers |-> (work.losers \ {h}) \cup new, bin |-> work.bin \cup new]

(* The worklist.  A block gets into the bin once, so there are never more  *)
(* turns than blocks.                                                      *)
Sweep(branch_map, losers) ==
  LET turns == Cardinality(UNION Range(branch_map))
      work[k \in 0 .. turns] ==
        IF k = 0 THEN [losers |-> losers, bin |-> losers]
                 ELSE Turn(branch_map, work[k - 1])
  IN  work[turns].bin

(* Mutant: only the first block of a losing branch goes into the bin. *)
Bin_Shallow(branch_map, chain) ==
  UNION {Children(branch_map, chain[i]) \ ToSet(chain) :
           i \in 1 .. Len(chain) - N}

(* The hashes prune() moves from blocks to pruned. *)
Bin(branch_map, chain) ==
  LET losers == UNION {Children(branch_map, chain[i]) \ ToSet(chain) :
                         i \in 1 .. Len(chain) - N}
  IN  IF Len(chain) < N THEN {} ELSE Sweep(branch_map, losers)

(* HashMap::insert *)
Put(bs, h, prev) == [g \in DOMAIN bs \cup {h} |-> IF g = h THEN prev ELSE bs[g]]

(* The loop of execute_transactions(), from commited_pointer to stop. *)
ExecuteTransactions(chain) ==
  LET todo == commited_pointer + 1 .. SatSub(Len(chain), N)
  IN  /\ executed' = executed \o [i \in 1 .. Cardinality(todo) |->
                                    chain[commited_pointer + i]]
      /\ commited_pointer' = commited_pointer + Cardinality(todo)

PushAndFix(h, prev) ==
  LET stored     == Put(blocks, h, prev)
      branch_map == BranchMap(stored)
      chain      == Tail(FindLongestBranch(branch_map, Zero))
      bin        == Bin(branch_map, chain)
  IN  /\ longest_chain' = chain
      /\ blocks' = [g \in DOMAIN stored \ bin |-> stored[g]]
      /\ pruned' = pruned \cup bin
      /\ parent' = Put(parent, h, prev)
      /\ ExecuteTransactions(chain)

-----------------------------------------------------------------------------

HasPreviousBlock(prev) == prev = Zero \/ prev \in Stored

Verifies == ToSet(longest_chain) \subseteq Stored

(* The block (h, prev) passes every check of accept_block(). *)
Acceptable(h, prev, valid) ==
  /\ h \notin Stored
  /\ h \notin pruned
  /\ prev \notin pruned
  /\ valid
  /\ HasPreviousBlock(prev)
  /\ Verifies

AcceptBlock(h, prev, valid) ==
  /\ Acceptable(h, prev, valid)
  /\ PushAndFix(h, prev)

RejectBlock(h, prev, valid) ==
  /\ ~Acceptable(h, prev, valid)
  /\ UNCHANGED vars

ProposeBlock(h) ==
  LET prev == IF longest_chain = <<>> THEN Zero ELSE Last(longest_chain)
  IN  /\ h \in Hash \ DOMAIN parent
      /\ prev = Zero => h \in Root
      /\ PushAndFix(h, prev)

(* A hash determines its parent; a block on a parent never seen is an     *)
(* orphan, and so is one whose parent is yet to come.                      *)
Offered ==
  {b \in Hash \X (Hash \cup {Zero}) :
     IF b[1] \in DOMAIN parent THEN b[2] = parent[b[1]]
     ELSE b[1] # b[2] /\ (b[2] = Zero => b[1] \in Root)}

Next ==
  \/ \E b \in Offered, valid \in BOOLEAN : AcceptBlock(b[1], b[2], valid)
  \/ \E b \in Offered, valid \in BOOLEAN : RejectBlock(b[1], b[2], valid)
  \/ \E h \in Hash : ProposeBlock(h)

Spec == Init /\ [][Next]_vars

-----------------------------------------------------------------------------

(* A block as BlockTree writes it. *)
PathTo[h \in DOMAIN parent \cup {Zero}] ==
  IF h = Zero THEN <<>> ELSE Append(PathTo[parent[h]], h)

(* The variables of BlockTree. *)
StoredPaths == {PathTo[h] : h \in Stored}
PrunedPaths == {PathTo[h] : h \in pruned}

(* The loops of fix(), run over blocks indexed by hash, choose, prune and  *)
(* execute exactly what the definitions on paths say.                      *)
Tree == INSTANCE BlockTree WITH
          blocks <- StoredPaths, pruned <- PrunedPaths
ImplementsTree == Tree!Spec
=============================================================================
