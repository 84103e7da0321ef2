----------------------------- MODULE ChainReader -----------------------------
(***************************************************************************)
(* The queries of the RPC service (state.rs) and the client that walks the *)
(* chain with them (bin/app.rs): it asks for the first block, or for the   *)
(* block that opened an auction, and then for block after block by the     *)
(* hash it was given last.  Each query takes the read lock of the state    *)
(* twice, and between the two, as between two queries, the store may take  *)
(* any step of BlockTree.                                                  *)
(*                                                                         *)
(* Abstracted: what is in a block, except whether it opens the auction the *)
(* client asks for; account_exists, one read of WorldState; a connection   *)
(* that fails, which ends the walk and changes nothing else.               *)
(***************************************************************************)
EXTENDS BlockTree

CONSTANT Opening  \* the hashes of the blocks that open the auction

ASSUME OpeningAssumption == Opening \subseteq Hash

VARIABLES
  at,        \* where the client is
  cursor,    \* the hash it asks for next
  snapshot,  \* the blocks auction_exists has copied
  walked,    \* the hashes of the blocks it was given
  begun      \* history: the confirmed part of the chain when it began

client == <<at, cursor, snapshot, walked, begun>>
readerVars == <<vars, client>>

ConfirmedChain == Confirmed(longest_chain, N)

ReaderInit ==
  /\ Init
  /\ at = "Idle" /\ cursor = 0 /\ snapshot = {} /\ walked = <<>>
  /\ begun = <<>>

-----------------------------------------------------------------------------

(* first_block_hash(): whether there is a first block is decided under one *)
(* read lock...                                                            *)
AskFirstBlock ==
  /\ at = "Idle"
  /\ at' = IF commited_pointer - N >= 0 THEN "FirstBlock" ELSE "NoFirstBlock"
  /\ begun' = ConfirmedChain
  /\ UNCHANGED <<vars, cursor, snapshot, walked>>

(* ... and which one it is under another. *)
FirstBlockHash ==
  /\ at = "FirstBlock"
  /\ cursor' = Head(longest_chain)
  /\ at' = "BlockInfo"
  /\ UNCHANGED <<vars, snapshot, walked, begun>>

(* auction_exists() copies the blocks under one read lock... *)
AskAuction ==
  /\ at = "Idle"
  /\ snapshot' = blocks
  /\ at' = "AuctionExists"
  /\ begun' = ConfirmedChain
  /\ UNCHANGED <<vars, cursor, walked>>

(* Mutant: the last confirmed block is left out. *)
AuctionBlocks_OffByOne ==
  {i \in 1 .. Len(ConfirmedChain) - 1 :
     /\ longest_chain[i] \in Opening
     /\ SubSeq(longest_chain, 1, i) \in snapshot}

(* ... and the chain under another.  The heights of the blocks it finds:   *)
(* those confirmed now whose copy it has.                                  *)
AuctionBlocks ==
  {i \in 1 .. Len(ConfirmedChain) :
     /\ longest_chain[i] \in Opening
     /\ SubSeq(longest_chain, 1, i) \in snapshot}

AuctionExists ==
  /\ at = "AuctionExists"
  /\ IF AuctionBlocks = {}
     THEN at' = "NoAuction" /\ UNCHANGED cursor
     ELSE /\ at' = "BlockInfo"
          /\ \E i \in AuctionBlocks :
               /\ \A j \in AuctionBlocks : i <= j
               /\ cursor' = longest_chain[i]
  /\ UNCHANGED <<vars, snapshot, walked, begun>>

(* Mutant: anywhere in the chain. *)
Height_WholeChain(h) == {i \in 1 .. Len(longest_chain) : longest_chain[i] = h}

(* The height of a hash in the confirmed part. *)
Height(h) == {i \in 1 .. Len(ConfirmedChain) : longest_chain[i] = h}

(* get_block_from_hash(): a block that is not confirmed is not given. *)
GetBlock(h) ==
  {i \in Height(h) : SubSeq(longest_chain, 1, i) \in blocks}

(* Mutant: the client waits for the block to be confirmed. *)
BlockInfo_Waits ==
  /\ at = "BlockInfo"
  /\ GetBlock(cursor) # {}
  /\ at' = "NextBlock" /\ walked' = Append(walked, cursor)
  /\ UNCHANGED <<vars, cursor, snapshot, begun>>

(* block_info(): the block under one read lock...  The client stops when   *)
(* it gets none.                                                           *)
BlockInfo ==
  /\ at = "BlockInfo"
  /\ IF GetBlock(cursor) = {}
     THEN at' = "Done" /\ UNCHANGED walked
     ELSE at' = "NextBlock" /\ walked' = Append(walked, cursor)
  /\ UNCHANGED <<vars, cursor, snapshot, begun>>

(* Mutant: the hash after the next one. *)
NextHash_Skips(h) ==
  {longest_chain[i + 2] : i \in {j \in Height(h) : j + 2 <= Len(longest_chain)}}

(* get_next_block_hash_from_hash(): the successor of a confirmed block,    *)
(* which need not be confirmed.                                            *)
NextHash(h) ==
  {longest_chain[i + 1] : i \in {j \in Height(h) : j + 1 <= Len(longest_chain)}}

(* ... and the hash of its successor under another. *)
NextBlockHash ==
  /\ at = "NextBlock"
  /\ IF NextHash(cursor) = {}
     THEN at' = "Done" /\ UNCHANGED cursor
     ELSE at' = "BlockInfo" /\ cursor' \in NextHash(cursor)
  /\ UNCHANGED <<vars, snapshot, walked, begun>>

Walk ==
  \/ FirstBlockHash
  \/ AuctionExists
  \/ BlockInfo
  \/ NextBlockHash

ReaderNext ==
  \/ Next /\ UNCHANGED client
  \/ AskFirstBlock
  \/ AskAuction
  \/ Walk

ReaderSpec == ReaderInit /\ [][ReaderNext]_readerVars

(* Each query is answered. *)
FairReaderSpec == ReaderSpec /\ WF_readerVars(Walk)
-----------------------------------------------------------------------------

(* The client has its types, beside the store. *)
ReaderTypeOK ==
  /\ TypeOK
  /\ at \in {"Idle", "FirstBlock", "NoFirstBlock", "AuctionExists", "NoAuction",
             "BlockInfo", "NextBlock", "Done"}
  /\ cursor \in Hash \cup {0}
  /\ snapshot \subseteq Path
  /\ walked \in Seq(Hash) /\ begun \in Seq(Hash)

(* What a client has been shown, by queries that each saw another state of *)
(* the store, is a stretch of the confirmed chain without gaps, and it     *)
(* stays so whatever reorganisations come, later ones included.            *)
WalkedIsConfirmed ==
  \E k \in 0 .. Len(ConfirmedChain) - Len(walked) :
    walked = SubSeq(ConfirmedChain, k + 1, k + Len(walked))

(* A walk that has ended missed no block that was confirmed when it began, *)
(* from the block it started at.                                           *)
NothingMissed ==
  at = "Done" =>
    /\ walked # <<>>
    /\ \A i, j \in 1 .. Len(begun) :
        i <= j /\ begun[i] = walked[1] => begun[j] \in ToSet(walked)

(* An auction that was confirmed when the client asked is found, although  *)
(* the copy of the blocks is older than the chain it is compared with.     *)
ConfirmedAuctionFound ==
  at = "NoAuction" => ToSet(begun) \cap Opening = {}

(* A walk ends, although the chain grows while it goes on. *)
WalkEnds == at = "BlockInfo" ~> at = "Done"

(* "There aren't auctions available." (bin/app.rs:1920) is what the client *)
(* shows when there is no first block: then no confirmed block opens one.  *)
NoFirstBlockNoAuctions ==
  at = "NoFirstBlock" => ToSet(begun) \cap Opening = {}
=============================================================================
