----------------------------- MODULE BlockTree ------------------------------
(***************************************************************************)
(* The block store of one node (struct Blockchain in blockchain.rs): which *)
(* blocks are kept, which branch is the longest chain, what is pruned and  *)
(* which blocks have had their transactions executed.                      *)
(*                                                                         *)
(* Blocks are paths (module Branches).  Every operation of the code runs   *)
(* under one write lock of the state, so each is one action here, with the *)
(* whole of `fix` in it.  Abstracted: the content of a block.  Whether     *)
(* Block::verify accepts a block is an input of the action that receives   *)
(* it.  Module ForkChoice has the loops of `fix` and shows that they       *)
(* compute what this module says.                                          *)
(***************************************************************************)
EXTENDS Branches

CONSTANTS
  Hash,                   \* the hashes blocks can have
  Root,                   \* those that a block with previous_hash "0" can have
  EXECUTE_AFTER_N_BLOCKS  \* blocks that must follow a block before it is executed

ASSUME HashAssumption  == Hash \subseteq Nat
ASSUME RootAssumption  == Root \subseteq Hash
ASSUME DepthAssumption == EXECUTE_AFTER_N_BLOCKS \in Nat \ {0}

VARIABLES
  blocks,            \* the blocks stored
  longest_chain,     \* the branch chosen by the last `fix`
  commited_pointer,  \* how many blocks of longest_chain were executed
  pruned,            \* the blocks removed by `prune`
  executed           \* history: the hashes of the blocks executed, in order

vars == <<blocks, longest_chain, commited_pointer, pruned, executed>>

N == EXECUTE_AFTER_N_BLOCKS

(* The paths a block can have. *)
Path == {b \in Seq(Hash) : b # <<>> /\ RootOf(b) \in Root}

Init ==
  /\ blocks = {}
  /\ longest_chain = <<>>
  /\ commited_pointer = 0
  /\ pruned = {}
  /\ executed = <<>>

-----------------------------------------------------------------------------

(* Mutants: the pointer is set and not advanced; one block too early. *)
ExecuteTransactions_Overwrites(chain) ==
  LET stop == SatSub(Len(chain), N)
  IN  /\ executed' = executed \o SubSeq(chain, commited_pointer + 1, stop)
      /\ commited_pointer' = SatSub(stop, commited_pointer)
ExecuteTransactions_TooEarly(chain) ==
  LET stop == SatSub(Len(chain), N - 1)
  IN  /\ executed' = executed \o SubSeq(chain, commited_pointer + 1, stop)
      /\ commited_pointer' = commited_pointer + SatSub(stop, commited_pointer)

(* execute_transactions(): the blocks from commited_pointer on that now    *)
(* have N blocks after them.                                               *)
ExecuteTransactions(chain) ==
  LET stop == SatSub(Len(chain), N)
  IN  /\ executed' = executed \o SubSeq(chain, commited_pointer + 1, stop)
      /\ commited_pointer' = commited_pointer + SatSub(stop, commited_pointer)

(* Mutant: the block is stored after the losers were removed. *)
PushAndFix_StoresLast(b) ==
  LET stored == blocks \cup {b}
      chain  == LongestBranch(stored)
      losers == Losers(stored, chain, N)
  IN  /\ longest_chain' = chain
      /\ blocks' = (blocks \ losers) \cup {b}
      /\ pruned' = pruned \cup losers
      /\ ExecuteTransactions(chain)

(* fix() once block b is pushed: choose the chain, prune, execute. *)
PushAndFix(b) ==
  LET stored == blocks \cup {b}
      chain  == LongestBranch(stored)
      losers == Losers(stored, chain, N)
  IN  /\ longest_chain' = chain
      /\ blocks' = stored \ losers
      /\ pruned' = pruned \cup losers
      /\ ExecuteTransactions(chain)

(* verify(): every block of the longest chain is stored.  (That it is      *)
(* itself valid was checked when it was pushed.)                           *)
ChainVerifies ==
  \A i \in 1 .. Len(longest_chain) : SubSeq(longest_chain, 1, i) \in blocks

(* has_previous_block() *)
HasPreviousBlock(b) == Front(b) = <<>> \/ Front(b) \in blocks

(* The checks of accept_block(), in their order; valid is the outcome of   *)
(* Block::verify, which covers the merkle root that a later check compares *)
(* again.                                                                  *)
AcceptBlockResult(b, valid) ==
  IF b \in blocks             THEN "Duplicate"
  ELSE IF b \in pruned        THEN "Pruned"
  ELSE IF Front(b) \in pruned THEN "PrunedParent"
  ELSE IF ~valid              THEN "InvalidHash"
  ELSE IF ~HasPreviousBlock(b) THEN "Orphan"
  ELSE IF ~ChainVerifies      THEN "Corrupted"
  ELSE "Ok"

(* accept_block() *)
AcceptBlock(b, valid) ==
  /\ AcceptBlockResult(b, valid) = "Ok"
  /\ PushAndFix(b)

(* accept_block() when a check fails: the node stays as it was. *)
RejectBlock(b, valid) ==
  /\ AcceptBlockResult(b, valid) # "Ok"
  /\ UNCHANGED vars

(* propose_block(), once the pool gave it transactions: mine a block on    *)
(* the tip.  The lock is held from the read of the tip to the push.        *)
ProposeBlock(h) ==
  LET b == Append(longest_chain, h)
  IN  /\ b \in Path
      /\ \A c \in blocks \cup pruned : BlockHash(c) # h
      /\ PushAndFix(b)

(* The blocks another node may send: a block on a known one or on "0", or  *)
(* an orphan, on a block that is itself still to come.  Block hashes do    *)
(* not collide: one already in use is that very block.                     *)
Offered ==
  LET known    == blocks \cup pruned
      suffix   == {<<h>> : h \in Hash} \cup (Hash \X Hash)
      After(p) == {p \o s : s \in suffix}
  IN  {b \in (UNION {After(p) : p \in known \cup {<<>>}}) \cap Path :
         \A c \in known : BlockHash(c) = BlockHash(b) => c = b}

Next ==
  \/ \E b \in Offered, valid \in BOOLEAN : AcceptBlock(b, valid)
  \/ \E b \in Offered, valid \in BOOLEAN : RejectBlock(b, valid)
  \/ \E h \in Hash : ProposeBlock(h)

Spec == Init /\ [][Next]_vars

-----------------------------------------------------------------------------

(* Blocks are paths, and the chain and the pointer have their types. *)
TypeOK ==
  /\ blocks \subseteq Path
  /\ pruned \subseteq Path
  /\ longest_chain \in Seq(Hash)
  /\ commited_pointer \in Nat
  /\ executed \in Seq(Hash)

(* A stored block has all of its ancestors stored: orphans are refused and *)
(* a pruned block takes its descendants along, so a peer that asks for a   *)
(* chain gets one it can accept, and verify() never fails.                 *)
AncestorsStored == \A b \in blocks : HasPreviousBlock(b)

(* A pruned block is gone for good, whatever is accepted later and         *)
(* whichever branch becomes the longest.                                   *)
PrunedStayOut == blocks \cap pruned = {}

(* `fix` leaves nothing to fix: after it has pruned and executed, choosing *)
(* the chain again would choose the same one, no stored block forks before *)
(* the confirmed part of its own tree, and the pointer is at the end of    *)
(* the confirmed part.                                                     *)
FixIsIdempotent ==
  /\ longest_chain = LongestBranch(blocks)
  /\ Losers(blocks, longest_chain, N) = {}
  /\ commited_pointer = SatSub(Len(longest_chain), N)

(* The inductive invariant behind the properties of this module: the chain *)
(* is best among the stored blocks, whatever was pruned before; hashes are *)
(* in use once; `fix` has nothing left to do.                              *)
ChainIsBest ==
  IF blocks = {} THEN longest_chain = <<>>
  ELSE longest_chain \in blocks /\ \A c \in blocks : Beats(longest_chain, c)
HashesUnique ==
  \A a, c \in blocks \cup pruned : BlockHash(a) = BlockHash(c) => a = c
IInv ==
  /\ TypeOK
  /\ AncestorsStored
  /\ PrunedStayOut
  /\ ChainIsBest
  /\ HashesUnique
  /\ FixIsIdempotent
  /\ Len(executed) = commited_pointer

(* What the comment on prune() promises: no block is left on a branch that *)
(* the longest chain has beaten and whose forking point is before the last *)
(* N blocks of that chain.  The forking point may be "0" (k = 0).          *)
BeatenForksPruned ==
  \A b \in blocks : \A k \in 0 .. Len(longest_chain) - N :
    ~ForksAfter(b, longest_chain, k)

(* Every block of the chain is executed once, in the order of the chain:   *)
(* the i-th block executed is one with i - 1 ancestors, and it is or was   *)
(* stored.  This holds across reorganisations of any depth.                *)
ExecutedByHeight ==
  /\ Len(executed) = commited_pointer
  /\ \A i \in 1 .. Len(executed) :
       \E b \in blocks \cup pruned : Len(b) = i /\ BlockHash(b) = executed[i]

(* The confirmed part of the chain is only ever extended as long as the    *)
(* chain keeps its first block: a reorganisation never reaches into it.    *)
ConfirmedStable ==
  [][(longest_chain # <<>> /\ RootOf(longest_chain') = RootOf(longest_chain))
       => IsPrefix(Confirmed(longest_chain, N),
                   Confirmed(longest_chain', N))]_vars

(* The chain a node shows never gets shorter, and a block it mines is its  *)
(* new tip: no other branch, however long, is waiting to displace it.      *)
ProposalWins ==
  [][/\ Len(longest_chain') >= Len(longest_chain)
     /\ \A h \in Hash : ProposeBlock(h) => BlockHash(longest_chain') = h]_vars

(* With one root, the blocks executed are a log that is only appended to.  *)
Log == INSTANCE ConfirmedLog WITH chain <- longest_chain, log <- executed,
                                  Elem <- Hash, Depth <- N
ImplementsLog == Log!Spec
=============================================================================
