-------------------------- MODULE ChainReaderProofs ---------------------------
(***************************************************************************)
(* Proofs about ChainReader, for every set of hashes, depth of execution   *)
(* and auction: where all blocks start at one root, what a client is shown *)
(* query by query is a stretch of the confirmed chain, and misses nothing  *)
(* of what was confirmed when it began.                                    *)
(***************************************************************************)
EXTENDS ChainReader, BlockTreeProofs

-----------------------------------------------------------------------------
(* The store, as the reader sees it *)

(* With one root the confirmed part of the chain is what was executed: its *)
(* blocks are stored, and the chain goes on after it.                      *)
LEMMA StoreFacts ==
  ASSUME IInv, LogIsConfirmed
  PROVE  /\ ConfirmedChain = executed /\ executed \in Seq(Hash)
         /\ longest_chain \in Seq(Hash) /\ Len(longest_chain) \in Nat
         /\ Len(executed) \in Nat /\ Len(executed) = commited_pointer
         /\ Len(executed) <= Len(longest_chain)
         /\ Len(executed) >= 1 => Len(executed) < Len(longest_chain)
         /\ \A i \in 1 .. Len(executed) : executed[i] = longest_chain[i]
         /\ \A i \in 1 .. Len(longest_chain) :
              /\ SubSeq(longest_chain, 1, i) \in blocks
              /\ Len(SubSeq(longest_chain, 1, i)) = i
              /\ BlockHash(SubSeq(longest_chain, 1, i)) = longest_chain[i]
<1>1. /\ longest_chain \in Seq(Hash) /\ Len(longest_chain) \in Nat
      /\ executed \in Seq(Hash) /\ N \in Nat \ {0} /\ commited_pointer \in Nat
      /\ commited_pointer = SatSub(Len(longest_chain), N)
      /\ Len(executed) = commited_pointer
  BY LenProperties, DepthAssumption DEF IInv, TypeOK, FixIsIdempotent, N
<1>2. ConfirmedChain = executed
  BY DEF ConfirmedChain, LogIsConfirmed
<1>3. /\ commited_pointer <= Len(longest_chain)
      /\ commited_pointer >= 1 => commited_pointer < Len(longest_chain)
  BY <1>1 DEF SatSub
<1>4. executed = SubSeq(longest_chain, 1, commited_pointer)
  BY <1>1 DEF LogIsConfirmed, Confirmed
<1>5. \A i \in 1 .. Len(executed) : executed[i] = longest_chain[i]
  <2>1. commited_pointer \in 0 .. Len(longest_chain)
    BY <1>1, <1>3
  <2> QED BY <1>1, <1>4, <2>1, PrefixElements
<1>6. ASSUME NEW i \in 1 .. Len(longest_chain)
      PROVE  /\ SubSeq(longest_chain, 1, i) \in blocks
             /\ Len(SubSeq(longest_chain, 1, i)) = i
             /\ BlockHash(SubSeq(longest_chain, 1, i)) = longest_chain[i]
  <2>1. longest_chain # <<>>
    BY <1>6, EmptySeq
  <2>2. longest_chain \in blocks /\ blocks \subseteq Path
    BY <2>1 DEF IInv, TypeOK, ChainIsBest
  <2>3. \A x \in blocks : Front(x) = <<>> \/ Front(x) \in blocks
    BY DEF IInv, AncestorsStored, HasPreviousBlock
  <2>4. SubSeq(longest_chain, 1, i) \in blocks
    BY <2>2, <2>3, PrefixesStored
  <2>5. i \in 0 .. Len(longest_chain)
    BY <1>1
  <2>6. /\ Len(SubSeq(longest_chain, 1, i)) = i
        /\ SubSeq(longest_chain, 1, i)[i] = longest_chain[i]
    BY <1>1, <2>5, PrefixElements
  <2>7. BlockHash(SubSeq(longest_chain, 1, i)) =
          SubSeq(longest_chain, 1, i)[Len(SubSeq(longest_chain, 1, i))]
    BY <2>2, <2>4, PathFacts
  <2> QED BY <2>4, <2>6, <2>7
<1> QED BY <1>1, <1>2, <1>3, <1>5, <1>6

(* A hash has one height: that of every known block that has it.           *)
LEMMA HeightIsUnique ==
  ASSUME IInv, LogIsConfirmed, NEW i \in 1 .. Len(executed),
         NEW b \in blocks \cup pruned, BlockHash(b) = executed[i]
  PROVE  Len(b) = i
<1>1. i \in 1 .. Len(longest_chain) /\ executed[i] = longest_chain[i]
  BY StoreFacts
<1>2. /\ SubSeq(longest_chain, 1, i) \in blocks /\ Len(SubSeq(longest_chain, 1, i)) = i
      /\ BlockHash(SubSeq(longest_chain, 1, i)) = executed[i]
  BY <1>1, StoreFacts
<1>3. b = SubSeq(longest_chain, 1, i)
  BY <1>2 DEF IInv, HashesUnique
<1> QED BY <1>2, <1>3

LEMMA ConfirmedOnce ==
  ASSUME IInv, LogIsConfirmed, NEW i \in 1 .. Len(executed), NEW j \in 1 .. Len(executed),
         executed[i] = executed[j]
  PROVE  i = j
<1>1. j \in 1 .. Len(longest_chain) /\ executed[j] = longest_chain[j]
  BY StoreFacts
<1>2. /\ SubSeq(longest_chain, 1, j) \in blocks /\ Len(SubSeq(longest_chain, 1, j)) = j
      /\ BlockHash(SubSeq(longest_chain, 1, j)) = executed[i]
  BY <1>1, StoreFacts
<1> QED BY <1>2, HeightIsUnique

(* What a step of the store leaves as it was: the blocks executed, and     *)
(* that a block is known.                                                  *)
LEMMA StoreStep ==
  ASSUME NEW r, Root = {r}, IInv, LogIsConfirmed, [Next]_vars
  PROVE  /\ IInv' /\ LogIsConfirmed'
         /\ Len(executed') \in Nat /\ Len(executed') >= Len(executed)
         /\ \A i \in 1 .. Len(executed) : executed'[i] = executed[i]
         /\ blocks \cup pruned \subseteq blocks' \cup pruned'
<1>1. IInv'
  BY NextIInv
<1>2. CASE UNCHANGED vars
  BY <1>1, <1>2, StoreFacts DEF vars, LogIsConfirmed
<1>3. ASSUME NEW b, Fresh(b), PushAndFix(b)
      PROVE  /\ LogIsConfirmed'
             /\ Len(executed') \in Nat /\ Len(executed') >= Len(executed)
             /\ \A i \in 1 .. Len(executed) : executed'[i] = executed[i]
             /\ blocks \cup pruned \subseteq blocks' \cup pruned'
  <2>1. LogIsConfirmed'
    BY <1>3, PushKeepsLog
  <2>2. /\ NewChain(b) \in Seq(Hash) /\ Len(NewChain(b)) >= Len(longest_chain)
        /\ ExecuteTransactions(NewChain(b))
    BY <1>3, PushKeepsLog DEF PushAndFix, NewChain
  <2>3. /\ commited_pointer' = SatSub(Len(NewChain(b)), N) /\ commited_pointer' \in Nat
        /\ Len(executed') = commited_pointer'
        /\ \A i \in 1 .. commited_pointer' :
             executed'[i] = IF i <= commited_pointer THEN executed[i] ELSE NewChain(b)[i]
    BY <2>2, ExecuteFacts DEF IInv, FixIsIdempotent
  <2>4. commited_pointer \in Nat /\ commited_pointer = SatSub(Len(longest_chain), N)
        /\ Len(executed) = commited_pointer
    BY DEF IInv, TypeOK, FixIsIdempotent
  <2>5. commited_pointer' >= commited_pointer
    <3>1. N \in Nat /\ Len(longest_chain) \in Nat /\ Len(NewChain(b)) \in Nat
      BY <2>2, LenProperties, DepthAssumption DEF IInv, TypeOK, N
    <3> QED BY <2>2, <2>3, <2>4, <3>1 DEF SatSub
  <2>6. blocks \cup pruned \subseteq blocks' \cup pruned'
    BY <1>3 DEF PushAndFix
  <2> QED BY <2>1, <2>3, <2>4, <2>5, <2>6
<1> QED BY <1>1, <1>2, <1>3, NextPushesFresh

-----------------------------------------------------------------------------
(* The reader *)

(* What was confirmed when it began is a part of what is confirmed now. *)
BegunInv ==
  /\ begun \in Seq(Hash) /\ Len(begun) <= Len(executed)
  /\ \A i \in 1 .. Len(begun) : begun[i] = executed[i]

(* The start of a walk: the blocks it was promised are found.              *)
StartInv ==
  /\ at = "FirstBlock" => Len(executed) >= 1
  /\ at = "AuctionExists" => \A i \in 1 .. Len(begun) : SubSeq(begun, 1, i) \in snapshot
  /\ at = "NoAuction" => \A i \in 1 .. Len(begun) : begun[i] \notin Opening
  /\ at = "BlockInfo" /\ walked = <<>> => \E i \in 1 .. Len(executed) : executed[i] = cursor
  /\ at \notin {"BlockInfo", "NextBlock", "Done"} => walked = <<>>
  /\ at \in {"NextBlock", "Done"} => walked # <<>>

(* The walk has shown the blocks from height k + 1 on.  What it asks for   *)
(* next was read in a state since when the chain may have left it; but a   *)
(* hash belongs to one height, so that it cannot come from elsewhere.      *)
At(k) ==
  /\ k + Len(walked) <= Len(executed)
  /\ \A i \in 1 .. Len(walked) : walked[i] = executed[k + i]
  /\ at = "NextBlock" => cursor = executed[k + Len(walked)]
  /\ at = "BlockInfo" =>
       /\ \E b \in blocks \cup pruned :
            BlockHash(b) = cursor /\ Len(b) = k + Len(walked) + 1
       /\ k + Len(walked) + 1 <= Len(begun) => cursor = begun[k + Len(walked) + 1]
  /\ at = "Done" => Len(begun) <= k + Len(walked)

WalkInv == walked # <<>> => \E k \in Nat : At(k)

ReaderTypes ==
  /\ at \in {"Idle", "FirstBlock", "NoFirstBlock", "AuctionExists", "NoAuction",
             "BlockInfo", "NextBlock", "Done"}
  /\ cursor \in Hash \cup {0}
  /\ snapshot \subseteq Path
  /\ walked \in Seq(Hash)

(* The strengthening, together with that of the store. *)
ReaderInv == ReaderTypes /\ BegunInv /\ StartInv /\ WalkInv
StoreInv == IInv /\ LogIsConfirmed

(* A step of the store leaves the reader where it was. *)
LEMMA StoreStepKeepsReader ==
  ASSUME NEW r, Root = {r}, StoreInv, ReaderInv, [Next]_vars, UNCHANGED client
  PROVE  ReaderInv'
<1>1. /\ Len(executed') \in Nat /\ Len(executed') >= Len(executed) /\ Len(executed) \in Nat
      /\ \A i \in 1 .. Len(executed) : executed'[i] = executed[i]
      /\ blocks \cup pruned \subseteq blocks' \cup pruned'
  BY StoreStep, StoreFacts DEF StoreInv
<1>2. /\ UNCHANGED <<at, cursor, snapshot, walked, begun>>
      /\ walked \in Seq(Hash) /\ Len(walked) \in Nat
      /\ begun \in Seq(Hash) /\ Len(begun) \in Nat
  BY LenProperties DEF client, ReaderInv, ReaderTypes, BegunInv
<1>3. ReaderTypes'
  BY <1>2 DEF ReaderInv, ReaderTypes
<1>4. BegunInv'
  BY <1>1, <1>2 DEF ReaderInv, BegunInv
<1>5. StartInv'
  BY <1>1, <1>2 DEF ReaderInv, StartInv
<1>6. ASSUME NEW k \in Nat, walked # <<>>, At(k) PROVE At(k)'
  <2>1. Len(walked) >= 1
    BY <1>2, <1>6, EmptySeq
  <2>2. \A i \in 1 .. Len(walked) : k + i \in 1 .. Len(executed)
    BY <1>1, <1>2, <1>6 DEF At
  <2>3. /\ (k + Len(walked) <= Len(executed))'
        /\ (\A i \in 1 .. Len(walked) : walked[i] = executed[k + i])'
        /\ (at = "NextBlock" => cursor = executed[k + Len(walked)])'
    BY <1>1, <1>2, <1>6, <2>1, <2>2 DEF At
  <2>4. /\ (at = "BlockInfo" =>
             /\ \E b \in blocks \cup pruned :
                  BlockHash(b) = cursor /\ Len(b) = k + Len(walked) + 1
             /\ k + Len(walked) + 1 <= Len(begun) => cursor = begun[k + Len(walked) + 1])'
        /\ (at = "Done" => Len(begun) <= k + Len(walked))'
    BY <1>1, <1>2, <1>6 DEF At
  <2> QED BY <2>3, <2>4 DEF At
<1>7. WalkInv'
  BY <1>2, <1>6 DEF ReaderInv, WalkInv
<1> QED BY <1>3, <1>4, <1>5, <1>7 DEF ReaderInv

(* The begin of a query: the confirmed part is remembered. *)
LEMMA BeginKeepsReader ==
  ASSUME StoreInv, ReaderInv, AskFirstBlock \/ AskAuction
  PROVE  ReaderInv'
<1>1. /\ at = "Idle" /\ walked = <<>> /\ UNCHANGED <<vars, cursor, walked>>
      /\ begun' = ConfirmedChain
      /\ at' \in {"FirstBlock", "NoFirstBlock", "AuctionExists"}
  BY DEF AskFirstBlock, AskAuction, ReaderInv, StartInv
<1>2. executed' = executed /\ blocks' = blocks
  BY <1>1 DEF vars
<1>3. begun' = executed /\ executed \in Seq(Hash) /\ Len(executed) \in Nat
  BY <1>1, StoreFacts DEF StoreInv
<1>4. ReaderTypes'
  BY <1>1 DEF ReaderInv, ReaderTypes, AskFirstBlock, AskAuction, StoreInv, IInv, TypeOK
<1>5. BegunInv'
  BY <1>2, <1>3 DEF BegunInv
<1>6. at' = "FirstBlock" => Len(executed) >= 1
  <2>1. N \in Nat \ {0} /\ commited_pointer \in Nat /\ Len(executed) = commited_pointer
    BY DepthAssumption, StoreFacts DEF N, StoreInv, IInv, TypeOK
  <2> QED BY <1>1, <2>1 DEF AskFirstBlock, AskAuction
<1>7. at' = "AuctionExists" => \A i \in 1 .. Len(begun') : SubSeq(begun', 1, i) \in snapshot'
  <2> SUFFICES ASSUME at' = "AuctionExists", NEW i \in 1 .. Len(executed)
               PROVE  SubSeq(executed, 1, i) \in snapshot'
    BY <1>3
  <2>1. snapshot' = blocks
    BY DEF AskAuction, AskFirstBlock
  <2>2. /\ longest_chain \in Seq(Hash) /\ i \in 1 .. Len(longest_chain)
        /\ Len(longest_chain) \in Nat
        /\ i <= Len(executed) /\ i <= Len(longest_chain) /\ i \in Nat
        /\ \A j \in 1 .. i : executed[j] = longest_chain[j]
    BY <1>3, StoreFacts DEF StoreInv
  <2>3. SubSeq(executed, 1, i) = SubSeq(longest_chain, 1, i)
    BY <1>3, <2>2, CommonPrefix
  <2> QED BY <2>1, <2>2, <2>3, StoreFacts DEF StoreInv
<1>8. StartInv'
  BY <1>1, <1>2, <1>6, <1>7 DEF StartInv
<1>9. WalkInv'
  BY <1>1 DEF WalkInv
<1> QED BY <1>4, <1>5, <1>8, <1>9 DEF ReaderInv

(* What the steps of a walk have in common: the store and what was         *)
(* confirmed at the begin stay.                                            *)
LEMMA WalkLeavesStore ==
  ASSUME Walk, ReaderInv
  PROVE  /\ executed' = executed /\ blocks' = blocks /\ pruned' = pruned
         /\ longest_chain' = longest_chain
         /\ begun' = begun /\ snapshot' = snapshot /\ BegunInv'
<1>1. UNCHANGED <<vars, snapshot, begun>>
  BY DEF Walk, FirstBlockHash, AuctionExists, BlockInfo, NextBlockHash
<1> QED BY <1>1 DEF vars, ReaderInv, BegunInv

(* The first block is there, as it was decided under the lock before. *)
LEMMA FirstBlockKeepsReader ==
  ASSUME StoreInv, ReaderInv, FirstBlockHash
  PROVE  ReaderInv'
<1>1. /\ at = "FirstBlock" /\ at' = "BlockInfo" /\ cursor' = Head(longest_chain)
      /\ walked' = walked /\ walked = <<>>
  BY DEF FirstBlockHash, ReaderInv, StartInv
<1>2. /\ executed' = executed /\ begun' = begun /\ snapshot' = snapshot /\ BegunInv'
  BY WalkLeavesStore DEF Walk
<1>3. /\ Len(executed) >= 1 /\ Len(executed) \in Nat /\ executed \in Seq(Hash)
      /\ longest_chain \in Seq(Hash)
      /\ Len(longest_chain) \in Nat /\ Len(longest_chain) >= 1
      /\ executed[1] = longest_chain[1]
  BY <1>1, StoreFacts DEF ReaderInv, StartInv, StoreInv
<1>4. Head(longest_chain) = executed[1] /\ executed[1] \in Hash
  BY <1>3, ElementOfSeq
<1>5. ReaderTypes'
  BY <1>1, <1>2, <1>4 DEF ReaderInv, ReaderTypes
<1>6. StartInv'
  BY <1>1, <1>2, <1>3, <1>4 DEF StartInv
<1>7. WalkInv'
  BY <1>1 DEF WalkInv
<1> QED BY <1>2, <1>5, <1>6, <1>7 DEF ReaderInv

(* The block that opened the auction is confirmed; and if there is none,   *)
(* there was none when the client asked.                                   *)
LEMMA AuctionKeepsReader ==
  ASSUME StoreInv, ReaderInv, AuctionExists
  PROVE  ReaderInv'
<1>1. /\ at = "AuctionExists" /\ walked' = walked /\ walked = <<>>
  BY DEF AuctionExists, ReaderInv, StartInv
<1>2. /\ executed' = executed /\ begun' = begun /\ snapshot' = snapshot /\ BegunInv'
  BY WalkLeavesStore DEF Walk
<1>3. /\ Len(executed) \in Nat /\ executed \in Seq(Hash) /\ ConfirmedChain = executed
      /\ longest_chain \in Seq(Hash) /\ Len(longest_chain) \in Nat
      /\ Len(executed) <= Len(longest_chain)
      /\ \A i \in 1 .. Len(executed) : executed[i] = longest_chain[i]
  BY StoreFacts DEF StoreInv
<1>4. CASE AuctionBlocks # {}
  <2>1. PICK i \in AuctionBlocks : at' = "BlockInfo" /\ cursor' = longest_chain[i]
    BY <1>4 DEF AuctionExists
  <2>2. i \in 1 .. Len(executed) /\ cursor' = executed[i] /\ executed[i] \in Hash
    BY <1>3, <2>1, ElementOfSeq DEF AuctionBlocks
  <2>3. ReaderTypes'
    BY <1>1, <1>2, <2>1, <2>2 DEF ReaderInv, ReaderTypes
  <2>4. StartInv'
    BY <1>1, <1>2, <2>1, <2>2 DEF StartInv
  <2> QED BY <1>1, <1>2, <2>3, <2>4 DEF ReaderInv, WalkInv
<1>5. CASE AuctionBlocks = {}
  <2>1. at' = "NoAuction" /\ cursor' = cursor
    BY <1>5 DEF AuctionExists
  <2>2. ASSUME NEW i \in 1 .. Len(begun), begun[i] \in Opening PROVE FALSE
    <3>1. /\ begun \in Seq(Hash) /\ Len(begun) \in Nat /\ Len(begun) <= Len(executed)
          /\ \A j \in 1 .. Len(begun) : begun[j] = executed[j]
      BY LenProperties DEF ReaderInv, BegunInv
    <3>2. /\ i \in 1 .. Len(executed) /\ i \in Nat /\ i <= Len(begun) /\ i <= Len(longest_chain)
          /\ \A j \in 1 .. i : begun[j] = longest_chain[j]
          /\ longest_chain[i] \in Opening
      BY <1>3, <2>2, <3>1
    <3>3. SubSeq(begun, 1, i) = SubSeq(longest_chain, 1, i)
      BY <1>3, <3>1, <3>2, CommonPrefix
    <3>4. SubSeq(longest_chain, 1, i) \in snapshot
      BY <1>1, <3>3 DEF ReaderInv, StartInv
    <3> QED BY <1>3, <1>5, <3>2, <3>4 DEF AuctionBlocks
  <2>3. ReaderTypes'
    BY <1>1, <1>2, <2>1 DEF ReaderInv, ReaderTypes
  <2>4. StartInv'
    BY <1>1, <1>2, <2>1, <2>2 DEF StartInv
  <2> QED BY <1>1, <1>2, <2>3, <2>4 DEF ReaderInv, WalkInv
<1> QED BY <1>4, <1>5

(* A walk that has begun is at some height. *)
LEMMA WalkHeight ==
  ASSUME StoreInv, ReaderInv, walked # <<>>
  PROVE  /\ \E k \in Nat : At(k)
         /\ walked \in Seq(Hash) /\ Len(walked) \in Nat /\ Len(walked) >= 1
         /\ begun \in Seq(Hash) /\ Len(begun) \in Nat /\ Len(begun) <= Len(executed)
         /\ \A i \in 1 .. Len(begun) : begun[i] = executed[i]
<1>1. walked \in Seq(Hash) /\ begun \in Seq(Hash)
  BY DEF ReaderInv, ReaderTypes, BegunInv
<1> QED BY <1>1, LenProperties, EmptySeq DEF ReaderInv, BegunInv, WalkInv

(* The heights of a hash that block_info() looks for are those in the      *)
(* confirmed part, and the block at each of them is stored.                *)
LEMMA HeightFacts ==
  ASSUME StoreInv, NEW h
  PROVE  /\ Height(h) = {i \in 1 .. Len(executed) : executed[i] = h}
         /\ GetBlock(h) = Height(h)
<1>1. /\ ConfirmedChain = executed /\ Len(executed) \in Nat /\ Len(longest_chain) \in Nat
      /\ Len(executed) <= Len(longest_chain)
      /\ \A i \in 1 .. Len(executed) : executed[i] = longest_chain[i]
      /\ \A i \in 1 .. Len(longest_chain) : SubSeq(longest_chain, 1, i) \in blocks
  BY StoreFacts DEF StoreInv
<1>2. Height(h) = {i \in 1 .. Len(executed) : executed[i] = h}
  BY <1>1 DEF Height
<1> QED BY <1>1, <1>2 DEF GetBlock

(* A block is shown only if it is confirmed, and then it is the one after  *)
(* those shown before, even if the hash was read in an older chain.        *)
LEMMA BlockInfoKeepsReader ==
  ASSUME StoreInv, ReaderInv, BlockInfo
  PROVE  ReaderInv'
<1>1. at = "BlockInfo" /\ cursor' = cursor
  BY DEF BlockInfo
<1>2. /\ executed' = executed /\ blocks' = blocks /\ pruned' = pruned
      /\ begun' = begun /\ snapshot' = snapshot /\ BegunInv'
  BY WalkLeavesStore DEF Walk
<1>3. /\ Len(executed) \in Nat /\ executed \in Seq(Hash)
      /\ walked \in Seq(Hash) /\ Len(walked) \in Nat
      /\ begun \in Seq(Hash) /\ Len(begun) \in Nat
  BY StoreFacts, LenProperties DEF StoreInv, ReaderInv, ReaderTypes, BegunInv
<1>4. CASE GetBlock(cursor) = {}
  <2>1. at' = "Done" /\ walked' = walked
    BY <1>4 DEF BlockInfo
  <2>2. \A i \in 1 .. Len(executed) : executed[i] # cursor
    BY <1>4, HeightFacts
  <2>3. walked # <<>>
    BY <1>1, <2>2 DEF ReaderInv, StartInv
  <2>4. PICK k \in Nat : At(k)
    BY <2>3, WalkHeight
  <2>5. Len(begun) <= k + Len(walked)
    <3> SUFFICES ASSUME k + Len(walked) + 1 <= Len(begun) PROVE FALSE
      BY <1>3
    <3>1. cursor = begun[k + Len(walked) + 1]
      BY <1>1, <2>4 DEF At
    <3>2. k + Len(walked) + 1 \in 1 .. Len(begun) /\ k + Len(walked) + 1 \in 1 .. Len(executed)
      BY <1>3, <2>3, WalkHeight
    <3>3. begun[k + Len(walked) + 1] = executed[k + Len(walked) + 1]
      BY <2>3, <3>2, WalkHeight
    <3> QED BY <2>2, <3>1, <3>2, <3>3
  <2>6. At(k)'
    BY <1>2, <2>1, <2>4, <2>5 DEF At
  <2>7. StartInv'
    BY <2>1, <2>3 DEF StartInv
  <2> QED BY <1>1, <1>2, <2>1, <2>6, <2>7 DEF ReaderInv, ReaderTypes, WalkInv
<1>5. CASE GetBlock(cursor) # {}
  <2>1. at' = "NextBlock" /\ walked' = Append(walked, cursor)
    BY <1>5 DEF BlockInfo
  <2>2. PICK i \in 1 .. Len(executed) : executed[i] = cursor
    BY <1>5, HeightFacts
  <2>3. cursor \in Hash
    BY <1>3, <2>2, ElementOfSeq
  <2>4. /\ walked' \in Seq(Hash) /\ Len(walked') = Len(walked) + 1
        /\ walked'[Len(walked) + 1] = cursor
        /\ \A j \in 1 .. Len(walked) : walked'[j] = walked[j]
    BY <1>3, <2>1, <2>3, AppendProperties
  <2>5. \E k \in Nat : At(k)'
    <3>1. CASE walked = <<>>
      <4>1. Len(walked) = 0 /\ i - 1 \in Nat
        BY <3>1, EmptySeq
      <4>2. Len(walked') = 1 /\ walked'[1] = executed[i] /\ i \in Nat /\ i >= 1
        BY <1>3, <2>2, <2>4, <4>1
      <4>3. ASSUME NEW j \in 1 .. Len(walked') PROVE walked'[j] = executed[i - 1 + j]
        <5>1. j = 1 /\ i - 1 + j = i
          BY <4>2
        <5> QED BY <4>2, <5>1
      <4>4. cursor' = executed'[i - 1 + Len(walked')] /\ i - 1 + Len(walked') <= Len(executed')
        <5>1. i - 1 + Len(walked') = i
          BY <4>2
        <5> QED BY <1>1, <1>2, <2>2, <5>1
      <4>5. At(i - 1)'
        BY <1>2, <2>1, <4>3, <4>4 DEF At
      <4> QED BY <4>1, <4>5
    <3>2. CASE walked # <<>>
      <4>1. PICK k \in Nat : At(k)
        BY <3>2, WalkHeight
      <4>2. PICK b \in blocks \cup pruned : BlockHash(b) = cursor /\ Len(b) = k + Len(walked) + 1
        BY <1>1, <4>1 DEF At
      <4>3. i = k + Len(walked) + 1
        BY <2>2, <4>2, HeightIsUnique DEF StoreInv
      <4>4. \A j \in 1 .. Len(walked') : walked'[j] = executed[k + j]
        <5>1. ASSUME NEW j \in 1 .. Len(walked) PROVE walked'[j] = executed[k + j]
          BY <2>4, <4>1 DEF At
        <5>2. walked'[Len(walked) + 1] = executed[k + (Len(walked) + 1)]
          <6>1. k + (Len(walked) + 1) = i
            BY <1>3, <4>3
          <6> QED BY <2>2, <2>4, <6>1
        <5>3. \A j \in 1 .. Len(walked') : j \in 1 .. Len(walked) \/ j = Len(walked) + 1
          BY <1>3, <2>4
        <5> QED BY <5>1, <5>2, <5>3
      <4>5. cursor' = executed'[k + Len(walked')] /\ k + Len(walked') <= Len(executed')
        <5>1. k + Len(walked') = i
          BY <1>3, <2>4, <4>3
        <5> QED BY <1>1, <1>2, <2>2, <5>1
      <4>6. At(k)'
        BY <1>2, <2>1, <4>4, <4>5 DEF At
      <4> QED BY <4>6
    <3> QED BY <3>1, <3>2
  <2>6. walked' # <<>>
    BY <1>3, <2>4, EmptySeq
  <2>7. StartInv'
    BY <2>1, <2>6 DEF StartInv
  <2> QED BY <1>1, <1>2, <2>1, <2>4, <2>5, <2>7 DEF ReaderInv, ReaderTypes, WalkInv
<1> QED BY <1>4, <1>5

(* The next hash is that of the block after the last one shown.            *)
LEMMA NextBlockKeepsReader ==
  ASSUME StoreInv, ReaderInv, NextBlockHash
  PROVE  ReaderInv'
<1>1. at = "NextBlock" /\ walked' = walked /\ walked # <<>>
  BY DEF NextBlockHash, ReaderInv, StartInv
<1>2. /\ executed' = executed /\ blocks' = blocks /\ pruned' = pruned
      /\ begun' = begun /\ snapshot' = snapshot /\ BegunInv'
  BY WalkLeavesStore DEF Walk
<1>3. /\ Len(executed) \in Nat /\ Len(longest_chain) \in Nat /\ longest_chain \in Seq(Hash)
      /\ Len(executed) >= 1 => Len(executed) < Len(longest_chain)
      /\ \A j \in 1 .. Len(executed) : executed[j] = longest_chain[j]
      /\ \A j \in 1 .. Len(longest_chain) :
           /\ SubSeq(longest_chain, 1, j) \in blocks
           /\ Len(SubSeq(longest_chain, 1, j)) = j
           /\ BlockHash(SubSeq(longest_chain, 1, j)) = longest_chain[j]
  BY StoreFacts DEF StoreInv
<1>4. /\ Len(walked) \in Nat /\ Len(walked) >= 1 /\ Len(begun) \in Nat
      /\ Len(begun) <= Len(executed)
      /\ \A j \in 1 .. Len(begun) : begun[j] = executed[j]
  BY <1>1, WalkHeight
<1>5. PICK k \in Nat : At(k)
  BY <1>1, WalkHeight
<1>6. PICK n : n = k + Len(walked)
  OBVIOUS
<1>7. n \in 1 .. Len(executed) /\ cursor = executed[n] /\ n \in Nat
  BY <1>1, <1>3, <1>4, <1>5, <1>6 DEF At
<1>8. n + 1 \in 1 .. Len(longest_chain)
  BY <1>3, <1>7
<1>9. n \in Height(cursor)
  BY <1>7, HeightFacts
<1>10. \A j \in Height(cursor) : j = n
  <2> SUFFICES ASSUME NEW j \in Height(cursor) PROVE j = n
    OBVIOUS
  <2>1. j \in 1 .. Len(executed) /\ executed[j] = executed[n]
    BY <1>7, HeightFacts
  <2> QED BY <1>7, <2>1, ConfirmedOnce DEF StoreInv
<1>11. NextHash(cursor) = {longest_chain[n + 1]}
  BY <1>8, <1>9, <1>10 DEF NextHash
<1>12. at' = "BlockInfo" /\ cursor' = longest_chain[n + 1]
  BY <1>11 DEF NextBlockHash
<1>13. cursor' \in Hash
  BY <1>3, <1>8, <1>12, ElementOfSeq
<1>14. k + Len(walked) + 1 <= Len(begun) => cursor' = begun[k + Len(walked) + 1]
  BY <1>3, <1>4, <1>6, <1>7, <1>12
<1>15. \E b \in blocks \cup pruned : BlockHash(b) = cursor' /\ Len(b) = k + Len(walked) + 1
  BY <1>3, <1>6, <1>8, <1>12
<1>16. At(k)'
  BY <1>1, <1>2, <1>5, <1>12, <1>14, <1>15 DEF At
<1>17. StartInv'
  BY <1>1, <1>12 DEF StartInv
<1> QED BY <1>1, <1>2, <1>12, <1>13, <1>16, <1>17 DEF ReaderInv, ReaderTypes, WalkInv

-----------------------------------------------------------------------------
(* The theorems *)

LEMMA ReaderInitially == ReaderInit => StoreInv /\ ReaderInv
<1> SUFFICES ASSUME ReaderInit PROVE StoreInv /\ ReaderInv
  OBVIOUS
<1>1. Init /\ IInv
  BY InitIInv DEF ReaderInit
<1>2. /\ Len(<<>>) = 0 /\ <<>> \in Seq(Hash) /\ executed = <<>> /\ longest_chain = <<>>
  BY <1>1, EmptySeq DEF Init
<1>3. SatSub(0, N) = 0
  BY DepthAssumption DEF SatSub, N
<1>4. LogIsConfirmed
  BY <1>2, <1>3, SubSeqEmpty DEF LogIsConfirmed, Confirmed
<1>5. ReaderInv
  BY <1>2 DEF ReaderInit, ReaderInv, ReaderTypes, BegunInv, StartInv, WalkInv
<1> QED BY <1>1, <1>4, <1>5 DEF StoreInv

LEMMA ReaderStep ==
  ASSUME NEW r, Root = {r}, StoreInv, ReaderInv, [ReaderNext]_readerVars
  PROVE  StoreInv' /\ ReaderInv'
<1>1. CASE [Next]_vars /\ UNCHANGED client
  BY <1>1, StoreStep, StoreStepKeepsReader DEF StoreInv
<1>2. CASE AskFirstBlock \/ AskAuction
  <2>1. [Next]_vars
    BY <1>2 DEF AskFirstBlock, AskAuction
  <2> QED BY <1>2, <2>1, StoreStep, BeginKeepsReader DEF StoreInv
<1>3. CASE Walk
  <2>1. [Next]_vars
    BY <1>3 DEF Walk, FirstBlockHash, AuctionExists, BlockInfo, NextBlockHash
  <2>2. StoreInv'
    BY <2>1, StoreStep DEF StoreInv
  <2> QED BY <1>3, <2>2, FirstBlockKeepsReader, AuctionKeepsReader, BlockInfoKeepsReader,
             NextBlockKeepsReader DEF Walk
<1> QED BY <1>1, <1>2, <1>3 DEF ReaderNext, readerVars

LEMMA ReaderInvariance ==
  ASSUME NEW CONSTANT r, Root = {r}
  PROVE  ReaderSpec => [](StoreInv /\ ReaderInv)
<1>1. StoreInv /\ ReaderInv /\ [ReaderNext]_readerVars => (StoreInv /\ ReaderInv)'
  BY ReaderStep
<1> QED BY <1>1, ReaderInitially, PTL DEF ReaderSpec

(* The client and the store keep their types. *)
THEOREM ReaderTypeCorrectness ==
  ASSUME NEW CONSTANT r, Root = {r}
  PROVE  ReaderSpec => []ReaderTypeOK
<1>1. StoreInv /\ ReaderInv => ReaderTypeOK
  BY DEF StoreInv, IInv, ReaderInv, ReaderTypes, BegunInv, ReaderTypeOK
<1> QED BY <1>1, ReaderInvariance, PTL

(* With one root, what a client has been shown by queries that each saw    *)
(* another state of the store is a stretch of the confirmed chain.         *)
THEOREM WalksAreConfirmed ==
  ASSUME NEW CONSTANT r, Root = {r}
  PROVE  ReaderSpec => []WalkedIsConfirmed
<1>1. StoreInv /\ ReaderInv => WalkedIsConfirmed
  <2> SUFFICES ASSUME StoreInv, ReaderInv PROVE WalkedIsConfirmed
    OBVIOUS
  <2>1. /\ ConfirmedChain = executed /\ executed \in Seq(Hash) /\ Len(executed) \in Nat
    BY StoreFacts DEF StoreInv
  <2>2. walked \in Seq(Hash) /\ Len(walked) \in Nat
    BY LenProperties DEF ReaderInv, ReaderTypes
  <2>3. PICK k \in Nat : /\ k + Len(walked) <= Len(executed)
                         /\ \A i \in 1 .. Len(walked) : walked[i] = executed[k + i]
    <3>1. CASE walked = <<>>
      <4>1. Len(walked) = 0
        BY <3>1, EmptySeq
      <4> QED BY <2>1, <4>1
    <3>2. CASE walked # <<>>
      BY <3>2, WalkHeight DEF At
    <3> QED BY <3>1, <3>2
  <2>4. PICK stretch : stretch = SubSeq(executed, k + 1, k + Len(walked))
    OBVIOUS
  <2>5. /\ stretch \in Seq(Hash) /\ Len(stretch) = Len(walked)
        /\ \A i \in 1 .. Len(walked) : stretch[i] = executed[k + i]
    <3>1. PICK first, last : first = k + 1 /\ last = k + Len(walked)
      OBVIOUS
    <3>2. /\ first \in Int /\ last \in Int
          /\ \A i \in first .. last : executed[i] \in Hash
      BY <2>1, <2>2, <2>3, <3>1, ElementOfSeq
    <3>3. /\ stretch \in Seq(Hash)
          /\ Len(stretch) = IF first <= last THEN last - first + 1 ELSE 0
          /\ \A i \in 1 .. last - first + 1 : stretch[i] = executed[first + i - 1]
      <4>1. stretch = SubSeq(executed, first, last)
        BY <2>4, <3>1
      <4> QED BY <3>2, <4>1, SubSeqProperties
    <3>4. \A w \in Nat : /\ k + w - (k + 1) + 1 = w
                         /\ (IF k + 1 <= k + w THEN w ELSE 0) = w
      OBVIOUS
    <3>5. Len(stretch) = Len(walked)
      BY <2>2, <3>1, <3>3, <3>4
    <3>6. ASSUME NEW i \in 1 .. Len(walked)
          PROVE  stretch[i] = executed[k + i]
      <4>1. k + 1 + i - 1 = k + i
        OBVIOUS
      <4>2. stretch[i] = executed[k + 1 + i - 1]
        BY <2>2, <3>1, <3>3, <3>4
      <4> QED BY <4>1, <4>2
    <3> QED BY <3>3, <3>5, <3>6
  <2>6. walked = stretch
    BY <2>2, <2>3, <2>5, SeqEqual
  <2>7. k \in 0 .. Len(ConfirmedChain) - Len(walked)
    BY <2>1, <2>2, <2>3
  <2> QED BY <2>1, <2>4, <2>6, <2>7 DEF WalkedIsConfirmed
<1> QED BY <1>1, ReaderInvariance, PTL

(* With one root, a walk that has ended missed no block that was confirmed *)
(* when it began.                                                          *)
THEOREM WalksMissNothing ==
  ASSUME NEW CONSTANT r, Root = {r}
  PROVE  ReaderSpec => []NothingMissed
<1>1. StoreInv /\ ReaderInv => NothingMissed
  <2> SUFFICES ASSUME StoreInv, ReaderInv, at = "Done" PROVE
                 /\ walked # <<>>
                 /\ \A i, j \in 1 .. Len(begun) :
                      i <= j /\ begun[i] = walked[1] => begun[j] \in ToSet(walked)
    BY DEF NothingMissed
  <2>1. walked # <<>>
    BY DEF ReaderInv, StartInv
  <2>2. /\ Len(walked) \in Nat /\ Len(walked) >= 1 /\ walked \in Seq(Hash)
        /\ Len(begun) \in Nat /\ Len(begun) <= Len(executed)
        /\ \A i \in 1 .. Len(begun) : begun[i] = executed[i]
        /\ Len(executed) \in Nat
    BY <2>1, WalkHeight, StoreFacts DEF StoreInv
  <2>3. PICK k \in Nat : At(k)
    BY <2>1, WalkHeight
  <2>4. /\ k + Len(walked) <= Len(executed) /\ Len(begun) <= k + Len(walked)
        /\ \A i \in 1 .. Len(walked) : walked[i] = executed[k + i]
    BY <2>3 DEF At
  <2>5. ASSUME NEW i \in 1 .. Len(begun), NEW j \in 1 .. Len(begun),
               i <= j, begun[i] = walked[1]
        PROVE  begun[j] \in ToSet(walked)
    <3>1. k + 1 \in 1 .. Len(executed) /\ i \in 1 .. Len(executed)
      BY <2>2, <2>4
    <3>2. executed[i] = executed[k + 1]
      BY <2>2, <2>4, <2>5
    <3>3. i = k + 1
      BY <3>1, <3>2, ConfirmedOnce DEF StoreInv
    <3>4. j - k \in 1 .. Len(walked) /\ k + (j - k) = j
      BY <2>2, <2>4, <2>5, <3>3
    <3>5. begun[j] = walked[j - k]
      BY <2>2, <2>4, <3>4
    <3>6. j - k \in DOMAIN walked
      BY <2>2, <3>4, LenProperties
    <3> QED BY <3>5, <3>6 DEF ToSet
  <2> QED BY <2>1, <2>5
<1> QED BY <1>1, ReaderInvariance, PTL

(* With one root, an auction that was confirmed when the client asked is   *)
(* found, although the blocks and the chain are read under two locks.      *)
THEOREM ConfirmedAuctionsAreFound ==
  ASSUME NEW CONSTANT r, Root = {r}
  PROVE  ReaderSpec => []ConfirmedAuctionFound
<1>1. StoreInv /\ ReaderInv => ConfirmedAuctionFound
  <2> SUFFICES ASSUME ReaderInv, at = "NoAuction" PROVE ToSet(begun) \cap Opening = {}
    BY DEF ConfirmedAuctionFound
  <2>1. \A i \in 1 .. Len(begun) : begun[i] \notin Opening
    BY DEF ReaderInv, StartInv
  <2>2. DOMAIN begun = 1 .. Len(begun)
    BY LenProperties DEF ReaderInv, BegunInv
  <2> QED BY <2>1, <2>2 DEF ToSet
<1> QED BY <1>1, ReaderInvariance, PTL
=============================================================================
