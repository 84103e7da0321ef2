---------------------------- MODULE NetworkProofs -----------------------------
(***************************************************************************)
(* Proofs about Network, for any nodes, meshes, first peers, miners and    *)
(* bounds on failures: a response can be taken block by block, and the     *)
(* store of any node goes through the steps of BlockTree.                  *)
(***************************************************************************)
EXTENDS Network, SequenceTheorems, FiniteSetTheorems, TLAPS

(* The lemmas about sets of blocks that BlockTreeProofs rests on. *)
Lemmas == INSTANCE BlockTreeProofs WITH
  blocks <- blocks[Observed], longest_chain <- longest_chain[Observed],
  commited_pointer <- commited_pointer[Observed], pruned <- pruned[Observed],
  executed <- executed[Observed]

(* They speak of the same paths, the same order and the same losers. *)
LEMMA SameTerms ==
  /\ Lemmas!Path = Path /\ Lemmas!N = N
  /\ \A a, b : Lemmas!Beats(a, b) <=> Beats(a, b)
  /\ \A bs : Lemmas!LongestBranch(bs) = LongestBranch(bs)
  /\ \A bs, chain : Lemmas!Losers(bs, chain, N) = Losers(bs, chain, N)
<1>1. \A b : Lemmas!RootOf(b) = RootOf(b) /\ Lemmas!BlockHash(b) = BlockHash(b)
  BY DEF Lemmas!RootOf, RootOf, Lemmas!BlockHash, BlockHash, Lemmas!Last, Last
<1>2. Lemmas!Path = Path /\ Lemmas!N = N
  BY <1>1 DEF Lemmas!Path, Path, Lemmas!N, N
<1>3. \A a, b : Lemmas!Beats(a, b) <=> Beats(a, b)
  BY <1>1 DEF Lemmas!Beats, Beats
<1>4. \A bs : Lemmas!LongestBranch(bs) = LongestBranch(bs)
  BY DEF Lemmas!LongestBranch, LongestBranch, Lemmas!Beats, Beats,
     Lemmas!BlockHash, BlockHash, Lemmas!Last, Last
<1>5. \A b, chain, k : Lemmas!ForksAfter(b, chain, k) <=> ForksAfter(b, chain, k)
  BY DEF Lemmas!ForksAfter, ForksAfter
<1>6. \A bs, chain : Lemmas!Losers(bs, chain, N) = Losers(bs, chain, N)
  BY <1>5 DEF Lemmas!Losers, Losers
<1> QED BY <1>2, <1>3, <1>4, <1>6

(* What a block is: BlockTreeProofs, for the terms of this module. *)
LEMMA PathFacts ==
  ASSUME NEW b \in Path
  PROVE  /\ b \in Seq(Hash) /\ b # <<>>
         /\ Len(b) \in Nat /\ Len(b) >= 1
         /\ \A i \in 1 .. Len(b) : b[i] \in Hash
         /\ BlockHash(b) = b[Len(b)] /\ BlockHash(b) \in Nat
         /\ RootOf(b) = b[1] /\ b[1] \in Root
<1>1. b \in Lemmas!Path
  BY SameTerms
<1>2. Lemmas!BlockHash(b) = BlockHash(b) /\ Lemmas!RootOf(b) = RootOf(b)
  BY DEF Lemmas!RootOf, RootOf, Lemmas!BlockHash, BlockHash, Lemmas!Last, Last
<1> QED BY <1>1, <1>2, Lemmas!PathFacts, StoreAssumption

(* A block is its parent and its own hash. *)
LEMMA PathIsFrontAndLast ==
  ASSUME NEW b \in Path
  PROVE  BlockHash(b) \in Hash /\ b = Front(b) \o <<BlockHash(b)>>
<1>1. /\ b \in Seq(Hash) /\ Len(b) \in Nat /\ Len(b) >= 1
      /\ BlockHash(b) = b[Len(b)] /\ b[Len(b)] \in Hash
  BY PathFacts
<1>2. Len(b) - 1 \in 0 .. Len(b)
  BY <1>1
<1>3. PICK f : f = Front(b)
  OBVIOUS
<1>4. f \in Seq(Hash) /\ Len(f) = Len(b) - 1 /\ \A i \in 1 .. Len(b) - 1 : f[i] = b[i]
  BY <1>1, <1>2, <1>3, Lemmas!PrefixElements, StoreAssumption DEF Front
<1>5. PICK h \in Hash : h = BlockHash(b)
  BY <1>1
<1>6. PICK c : c = f \o <<h>>
  OBVIOUS
<1>7. c \in Seq(Hash) /\ Len(c) = Len(b)
  BY <1>1, <1>4, <1>6
<1>8. \A i \in 1 .. Len(b) : c[i] = b[i]
  BY <1>1, <1>4, <1>5, <1>6
<1> QED BY <1>1, <1>3, <1>5, <1>6, <1>7, <1>8, SeqEqual

(* The parent of a block is a proper prefix of it. *)
LEMMA ParentFacts ==
  ASSUME NEW b \in Path, Front(b) # <<>>
  PROVE  /\ Front(b) = SubSeq(b, 1, Len(b) - 1)
         /\ Len(b) - 1 \in 1 .. Len(b)
         /\ Len(Front(b)) = Len(b) - 1
         /\ Front(b) \in Seq(Hash)
         /\ \A i \in 1 .. Len(b) - 1 : SubSeq(Front(b), 1, i) = SubSeq(b, 1, i)
<1>1. b \in Seq(Hash) /\ Len(b) \in Nat /\ Len(b) >= 1
  BY PathFacts
<1>2. PICK f : f = SubSeq(b, 1, Len(b) - 1)
  OBVIOUS
<1>3. f = Front(b)
  BY <1>2 DEF Front
<1>4. Len(b) - 1 \in 0 .. Len(b)
  BY <1>1
<1>5. /\ f \in Seq(Hash) /\ Len(f) = Len(b) - 1
      /\ \A i \in 1 .. Len(b) - 1 : f[i] = b[i]
  BY <1>1, <1>2, <1>4, Lemmas!PrefixElements, StoreAssumption
<1>6. Len(b) - 1 \in 1 .. Len(b)
  <2>1. Len(f) # 0
    BY <1>3, <1>5, EmptySeq
  <2> QED BY <1>1, <1>5, <2>1
<1>7. ASSUME NEW i \in 1 .. Len(b) - 1
      PROVE  SubSeq(f, 1, i) = SubSeq(b, 1, i)
  <2>1. /\ i \in Nat /\ i <= Len(f) /\ i <= Len(b)
        /\ \A j \in 1 .. i : f[j] = b[j]
    BY <1>1, <1>5, <1>6
  <2> QED BY <1>1, <1>5, <2>1, Lemmas!CommonPrefix, StoreAssumption
<1> QED BY <1>2, <1>3, <1>5, <1>6, <1>7

(* A set of blocks closed under parents has all prefixes of its blocks.    *)
LEMMA PrefixesStored ==
  ASSUME NEW bs, bs \subseteq Path,
         \A x \in bs : Front(x) = <<>> \/ Front(x) \in bs,
         NEW c \in bs, NEW i \in 1 .. Len(c)
  PROVE  SubSeq(c, 1, i) \in bs
<1>1. bs \subseteq Lemmas!Path
  BY SameTerms
<1>2. \A x : Lemmas!Front(x) = Front(x)
  BY DEF Lemmas!Front, Front
<1>3. \A x \in bs : Lemmas!Front(x) = <<>> \/ Lemmas!Front(x) \in bs
  BY <1>2
<1> QED BY <1>1, <1>3, Lemmas!PrefixesStored, StoreAssumption

(* A prefix of a block, its hash and its parent. *)
LEMMA PrefixFacts ==
  ASSUME NEW c \in Path, NEW i \in 1 .. Len(c), SubSeq(c, 1, i) \in Path
  PROVE  /\ BlockHash(SubSeq(c, 1, i)) = c[i]
         /\ Len(SubSeq(c, 1, i)) = i
         /\ Front(SubSeq(c, 1, i)) = SubSeq(c, 1, i - 1)
<1>1. c \in Seq(Hash) /\ Len(c) \in Nat
  BY PathFacts
<1>2. PICK p : p = SubSeq(c, 1, i)
  OBVIOUS
<1>3. i \in 0 .. Len(c)
  BY <1>1
<1>4. p \in Seq(Hash) /\ Len(p) = i /\ \A j \in 1 .. i : p[j] = c[j]
  BY <1>1, <1>2, <1>3, Lemmas!PrefixElements, StoreAssumption
<1>5. BlockHash(p) = c[i]
  <2>1. BlockHash(p) = p[Len(p)]
    BY <1>2, PathFacts
  <2>2. i \in 1 .. i
    BY <1>3
  <2> QED BY <1>4, <2>1, <2>2
<1>6. Front(p) = SubSeq(p, 1, i - 1)
  BY <1>4 DEF Front
<1>7. SubSeq(p, 1, i - 1) = SubSeq(c, 1, i - 1)
  <2>1. /\ i - 1 \in Nat /\ i - 1 <= Len(p) /\ i - 1 <= Len(c)
        /\ \A j \in 1 .. i - 1 : p[j] = c[j]
    BY <1>1, <1>4
  <2> QED BY <1>1, <1>4, <2>1, Lemmas!CommonPrefix, StoreAssumption
<1> QED BY <1>2, <1>4, <1>5, <1>6, <1>7

(* A set of blocks closed under parents; the best of a set of blocks. *)
ParentClosed(bs) == \A x \in bs : Front(x) = <<>> \/ Front(x) \in bs
Best(m, bs) == m \in bs /\ \A c \in bs : Beats(m, c)

(* Block b is pushed into such a store bs, and fix() makes chain the chain  *)
(* and leaves kept.                                                         *)
Pushed(bs, b, chain, kept) ==
  /\ bs \in SUBSET Path /\ b \in Path
  /\ ParentClosed(bs) /\ ParentClosed(bs \cup {b})
  /\ bs = {} \/ \E m : Best(m, bs)
  /\ chain = LongestBranch(bs \cup {b})
  /\ kept = (bs \cup {b}) \ Losers(bs \cup {b}, chain, N)

(* What fix() makes of a store that is closed under parents and has a best *)
(* chain is one again.                                                     *)
LEMMA PushFacts ==
  ASSUME NEW bs, NEW b, NEW chain, NEW kept, Pushed(bs, b, chain, kept)
  PROVE  Best(chain, kept) /\ chain \in Path /\ ParentClosed(kept)
<1> USE DEF Pushed
<1>1. /\ bs \in SUBSET Lemmas!Path /\ b \in Lemmas!Path
      /\ bs = {} \/ \E m \in bs : \A c \in bs : Lemmas!Beats(m, c)
  BY SameTerms DEF Best
<1>2. /\ Lemmas!LongestBranch(bs \cup {b}) \in bs \cup {b}
      /\ \A c \in bs \cup {b} :
           Lemmas!Beats(Lemmas!LongestBranch(bs \cup {b}), c)
  BY <1>1, Lemmas!BestAfterPush, StoreAssumption
<1>3. chain \in bs \cup {b} /\ \A c \in bs \cup {b} : Beats(chain, c)
  BY <1>2, SameTerms
<1>4. chain \in Path
  BY <1>3
<1>5. chain \notin Losers(bs \cup {b}, chain, N)
  BY DEF Losers, ForksAfter
<1>6. ASSUME NEW x \in kept, Front(x) # <<>>
      PROVE  Front(x) \in kept
  <2>1. Front(x) \in bs \cup {b} /\ x \in bs \cup {b}
    BY <1>6 DEF ParentClosed
  <2>2. SUFFICES ASSUME Front(x) \in Losers(bs \cup {b}, chain, N) PROVE FALSE
    BY <2>1
  <2>3. /\ bs \cup {b} \in SUBSET Lemmas!Path /\ chain \in Lemmas!Path
        /\ Lemmas!Front(x) \in Lemmas!Losers(bs \cup {b}, chain, Lemmas!N)
    BY <1>4, <2>2, SameTerms DEF Lemmas!Front, Front
  <2>4. x \in Lemmas!Losers(bs \cup {b}, chain, Lemmas!N)
    BY <2>1, <2>3, Lemmas!LosersTakeDescendants, StoreAssumption
  <2> QED BY <1>6, <2>4, SameTerms
<1> QED BY <1>3, <1>4, <1>5, <1>6 DEF Best, ParentClosed

-----------------------------------------------------------------------------
(* The inductive invariant *)

StoresTyped ==
  /\ blocks \in [Node -> SUBSET Path] /\ pruned \in [Node -> SUBSET Path]
  /\ longest_chain \in [Node -> Seq(Hash)]
  /\ commited_pointer \in [Node -> Nat] /\ executed \in [Node -> Seq(Hash)]

(* The store of one node: closed under parents, its chain the best in it.  *)
StoreInv(n) ==
  /\ ParentClosed(blocks[n])
  /\ IF blocks[n] = {} THEN longest_chain[n] = <<>>
                       ELSE Best(longest_chain[n], blocks[n])

(* Hashes do not collide, and who knows a block has known its parent. *)
KnownInv ==
  /\ \A a, c \in Known : BlockHash(a) = BlockHash(c) => a = c
  /\ ParentClosed(Known)

StoresInv == StoresTyped /\ (\A n \in Node : StoreInv(n)) /\ KnownInv

(* The hashes n asks for: the parent of a block asked for is asked for too *)
(* or has been stored by n, also if n has pruned it since.                 *)
Closed(n, hs) ==
  /\ hs \subseteq UsedHashes
  /\ \A a \in Known : BlockHash(a) \in hs =>
       \/ Front(a) = <<>> \/ BlockHash(Front(a)) \in hs
       \/ Front(a) \in blocks[n] \cup pruned[n]

(* The blocks n is sent: the parent of each is among them or has been      *)
(* stored by n, or n will refuse the branch.                               *)
Follow(n, bs) ==
  /\ bs \subseteq Known
  /\ \A b \in bs : \/ Front(b) = <<>> \/ Cut(n, b)
                   \/ Front(b) \in bs \cup blocks[n] \cup pruned[n]

MessageInv(m) ==
  /\ m.from \in Node /\ m.to \in Node
  /\ m.type = "block" => m.block \in Known
  /\ m.type = "hashes" => m.chain \in Known \cup {<<>>}
  /\ m.type = "blocks?" => Closed(m.from, m.hashes)
  /\ m.type = "blocks" => Follow(m.to, m.blocks)

ServingInv(s) ==
  /\ s.to \in Node /\ s.chain \in Known \cup {<<>>}
  /\ Closed(s.to, s.hashes)

IInv ==
  /\ TypeOK /\ StoresInv
  /\ \A m \in net : MessageInv(m)
  /\ \A n \in Node : \A s \in serving[n] : ServingInv(s)
  /\ \A n \in Node : Follow(n, batch[n])

(* A block that n may push: its own, or one of another node. *)
Fresh(n, b) ==
  /\ b \in Path /\ b \notin blocks[n] \cup pruned[n]
  /\ HasPreviousBlock(n, b)
  /\ b \in Known \/ BlockHash(b) \notin UsedHashes

(* What a step may do to the stores. *)
Grown ==
  /\ StoresInv'
  /\ Known \subseteq Known'
  /\ \A a \in Known' : a \in Known \/ BlockHash(a) \notin UsedHashes
  /\ \A n \in Node : /\ pruned[n] \subseteq pruned'[n]
                     /\ blocks[n] \cup pruned[n] \subseteq blocks'[n] \cup pruned'[n]

(* Appending blocks to what was executed. *)
LEMMA ExecuteFacts ==
  ASSUME NEW chain \in Seq(Hash), NEW done \in Seq(Hash), NEW k \in Nat,
         NEW stop, stop = SatSub(Len(chain), N)
  PROVE  /\ done \o SubSeq(chain, k + 1, stop) \in Seq(Hash)
         /\ k + SatSub(stop, k) \in Nat
<1>1. Len(chain) \in Nat /\ N \in Nat
  BY LenProperties, StoreAssumption DEF N
<1>2. stop \in Nat /\ stop <= Len(chain)
  BY <1>1 DEF SatSub
<1>3. k + SatSub(stop, k) \in Nat
  BY <1>2 DEF SatSub
<1>4. SubSeq(chain, k + 1, stop) \in Seq(Hash)
  <2>1. \A i \in k + 1 .. stop : chain[i] \in Hash
    BY <1>1, <1>2, ElementOfSeq
  <2>2. k + 1 \in Int /\ stop \in Int
    BY <1>2
  <2> QED BY <2>1, <2>2, SubSeqProperties
<1> QED BY <1>3, <1>4, ConcatProperties

(* PushAndFix at n keeps the stores in order; the others stay as they are. *)
LEMMA PushGrows ==
  ASSUME StoresInv, NEW n \in Node, NEW b, Fresh(n, b), PushAndFix(n, b)
  PROVE  Grown /\ b \in blocks'[n] \cup pruned'[n]
<1>1. PICK chain : chain = LongestBranch(blocks[n] \cup {b})
  OBVIOUS
<1>2. PICK losers : losers = Losers(blocks[n] \cup {b}, chain, N)
  OBVIOUS
<1>3. PICK kept : kept = (blocks[n] \cup {b}) \ losers
  OBVIOUS
<1>4. /\ longest_chain' = [longest_chain EXCEPT ![n] = chain]
      /\ blocks' = [blocks EXCEPT ![n] = kept]
      /\ pruned' = [pruned EXCEPT ![n] = pruned[n] \cup losers]
      /\ executed' = [executed EXCEPT ![n] = executed[n] \o
           SubSeq(chain, commited_pointer[n] + 1, SatSub(Len(chain), N))]
      /\ commited_pointer' = [commited_pointer EXCEPT ![n] =
           commited_pointer[n] + SatSub(SatSub(Len(chain), N), commited_pointer[n])]
  BY <1>1, <1>2, <1>3 DEF PushAndFix
<1>5. /\ StoresTyped /\ StoreInv(n) /\ b \in Path /\ blocks[n] \in SUBSET Path
      /\ pruned[n] \in SUBSET Path
  BY DEF StoresInv, StoresTyped, Fresh
<1>6. losers \subseteq blocks[n] \cup {b}
  BY <1>2 DEF Losers
<1>7. Best(chain, kept) /\ chain \in Path /\ ParentClosed(kept)
  <2>1. PICK bs : bs = blocks[n]
    OBVIOUS
  <2>2. ParentClosed(bs) /\ (bs = {} \/ \E m : Best(m, bs))
    BY <1>5, <2>1 DEF StoreInv, ParentClosed, Best
  <2>3. ParentClosed(bs \cup {b})
    BY <2>1, <2>2 DEF ParentClosed, Fresh, HasPreviousBlock
  <2>4. /\ bs \in SUBSET Path /\ b \in Path
        /\ chain = LongestBranch(bs \cup {b})
        /\ kept = (bs \cup {b}) \ Losers(bs \cup {b}, chain, N)
    BY <1>1, <1>2, <1>3, <1>5, <2>1
  <2>5. Pushed(bs, b, chain, kept)
    BY <2>2, <2>3, <2>4 DEF Pushed
  <2> QED BY <2>5, PushFacts
<1>8. StoresTyped'
  <2>1. chain \in Seq(Hash) /\ kept \in SUBSET Path /\ pruned[n] \cup losers \in SUBSET Path
    BY <1>3, <1>5, <1>6, <1>7, PathFacts
  <2>2. executed[n] \in Seq(Hash) /\ commited_pointer[n] \in Nat
    BY <1>5 DEF StoresTyped
  <2>3. /\ executed[n] \o SubSeq(chain, commited_pointer[n] + 1, SatSub(Len(chain), N))
             \in Seq(Hash)
        /\ commited_pointer[n] + SatSub(SatSub(Len(chain), N), commited_pointer[n]) \in Nat
    BY <2>1, <2>2, ExecuteFacts
  <2> QED BY <1>4, <1>5, <2>1, <2>3 DEF StoresTyped
<1>9. ASSUME NEW p \in Node PROVE StoreInv(p)'
  <2>1. CASE p = n
    <3>1. blocks'[p] = kept /\ longest_chain'[p] = chain
      BY <1>4, <1>5, <2>1 DEF StoresTyped
    <3> QED BY <1>7, <3>1 DEF StoreInv, ParentClosed, Best
  <2>2. CASE p # n
    <3>1. blocks'[p] = blocks[p] /\ longest_chain'[p] = longest_chain[p]
      BY <1>4, <1>5, <2>2 DEF StoresTyped
    <3>2. StoreInv(p)
      BY DEF StoresInv
    <3> QED BY <3>1, <3>2 DEF StoreInv, ParentClosed, Best
  <2> QED BY <2>1, <2>2
<1>10. ASSUME NEW p \in Node
       PROVE  /\ pruned[p] \subseteq pruned'[p]
              /\ blocks[p] \cup pruned[p] \subseteq blocks'[p] \cup pruned'[p]
              /\ blocks'[p] \cup pruned'[p] \subseteq blocks[p] \cup pruned[p] \cup {b}
  <2>1. CASE p = n
    BY <1>3, <1>4, <1>5, <1>6, <2>1 DEF StoresTyped
  <2>2. CASE p # n
    BY <1>4, <1>5, <2>2 DEF StoresTyped
  <2> QED BY <2>1, <2>2
<1>11. Known \subseteq Known' /\ Known' \subseteq Known \cup {b}
  BY <1>10 DEF Known
<1>12. Front(b) = <<>> \/ Front(b) \in Known
  BY DEF Fresh, HasPreviousBlock, Known
<1>13. b \in Known \/ \A a \in Known : BlockHash(a) # BlockHash(b)
  BY DEF Fresh, UsedHashes
<1>14. KnownInv'
  <2>1. KnownInv
    BY DEF StoresInv
  <2>2. \A a, c \in Known' : BlockHash(a) = BlockHash(c) => a = c
    BY <1>11, <1>13, <2>1 DEF KnownInv
  <2>3. ParentClosed(Known)'
    BY <1>11, <1>12, <2>1 DEF KnownInv, ParentClosed
  <2> QED BY <2>2, <2>3 DEF KnownInv
<1>15. \A a \in Known' : a \in Known \/ BlockHash(a) \notin UsedHashes
  BY <1>11 DEF Fresh
<1>16. b \in blocks'[n] \cup pruned'[n]
  BY <1>3, <1>4, <1>5 DEF StoresTyped
<1> QED BY <1>8, <1>9, <1>10, <1>11, <1>14, <1>15, <1>16 DEF Grown, StoresInv

LEMMA SameGrows ==
  ASSUME StoresInv, UNCHANGED tree
  PROVE  Grown
<1>1. /\ blocks' = blocks /\ longest_chain' = longest_chain /\ pruned' = pruned
      /\ commited_pointer' = commited_pointer /\ executed' = executed
  BY DEF tree
<1>2. Known' = Known
  BY <1>1 DEF Known
<1>3. StoresTyped' /\ KnownInv'
  BY <1>1, <1>2 DEF StoresInv, StoresTyped, KnownInv
<1>4. \A n \in Node : StoreInv(n)'
  BY <1>1 DEF StoresInv, StoreInv, ParentClosed, Best
<1> QED BY <1>1, <1>2, <1>3, <1>4 DEF Grown, StoresInv

-----------------------------------------------------------------------------
(* What is on its way stays in order while the stores go on *)

LEMMA ClosedStays ==
  ASSUME Grown, NEW n \in Node, NEW hs, Closed(n, hs)
  PROVE  Closed(n, hs)'
<1>1. hs \subseteq UsedHashes'
  BY DEF Grown, Closed, UsedHashes
<1>2. ASSUME NEW a \in Known', BlockHash(a) \in hs
      PROVE  \/ Front(a) = <<>> \/ BlockHash(Front(a)) \in hs
             \/ Front(a) \in blocks'[n] \cup pruned'[n]
  <2>1. a \in Known
    BY <1>2 DEF Grown, Closed
  <2> QED BY <1>2, <2>1 DEF Grown, Closed
<1> QED BY <1>1, <1>2 DEF Closed

LEMMA FollowStays ==
  ASSUME Grown, NEW n \in Node, NEW bs, Follow(n, bs)
  PROVE  Follow(n, bs)'
<1>1. ASSUME NEW b, Cut(n, b) PROVE Cut(n, b)'
  BY <1>1 DEF Grown, Cut
<1> QED BY <1>1 DEF Grown, Follow

LEMMA MessagesStay ==
  ASSUME Grown, NEW m, MessageInv(m)
  PROVE  MessageInv(m)'
<1>1. m.type = "blocks?" => Closed(m.from, m.hashes)'
  BY ClosedStays DEF MessageInv
<1>2. m.type = "blocks" => Follow(m.to, m.blocks)'
  BY FollowStays DEF MessageInv
<1> QED BY <1>1, <1>2 DEF Grown, MessageInv

LEMMA ServingStays ==
  ASSUME Grown, NEW s, ServingInv(s)
  PROVE  ServingInv(s)'
<1>1. Closed(s.to, s.hashes)'
  BY ClosedStays DEF ServingInv
<1> QED BY <1>1 DEF Grown, ServingInv

(* The types of what is under way. *)
UnderWayTyped ==
  /\ outbox \in [Node -> Seq(Known)] /\ batch \in [Node -> SUBSET Known]
  /\ serving \in [Node -> SUBSET [to : Node, hashes : SUBSET UsedHashes,
                                 chain : Known \cup {<<>>}]]

LEMMA SeqMonotone ==
  ASSUME NEW S, NEW T, S \subseteq T, NEW s \in Seq(S)
  PROVE  s \in Seq(T)
<1>1. Len(s) \in Nat /\ \A i \in 1 .. Len(s) : s[i] \in S
  BY LenProperties, ElementOfSeq
<1>2. \A i \in 1 .. Len(s) : s[i] \in T
  BY <1>1
<1> QED BY <1>2

LEMMA TypesStay ==
  ASSUME IInv, Grown
  PROVE  /\ outbox \in [Node -> Seq(Known')] /\ batch \in [Node -> SUBSET Known']
         /\ serving \in [Node -> SUBSET [to : Node, hashes : SUBSET UsedHashes',
                                        chain : Known' \cup {<<>>}]]
<1>1. Known \subseteq Known' /\ UsedHashes \subseteq UsedHashes'
  BY DEF Grown, UsedHashes
<1>2. outbox \in [Node -> Seq(Known)] /\ batch \in [Node -> SUBSET Known]
  BY DEF IInv, TypeOK
<1>3. serving \in [Node -> SUBSET [to : Node, hashes : SUBSET UsedHashes,
                                  chain : Known \cup {<<>>}]]
  BY DEF IInv, TypeOK
<1>4. outbox \in [Node -> Seq(Known')]
  <2>1. \A n \in Node : outbox[n] \in Seq(Known')
    BY <1>1, <1>2, SeqMonotone
  <2> QED BY <1>2, <2>1
<1>5. serving \in [Node -> SUBSET [to : Node, hashes : SUBSET UsedHashes',
                                  chain : Known' \cup {<<>>}]]
  <2>1. [to : Node, hashes : SUBSET UsedHashes, chain : Known \cup {<<>>}]
          \subseteq [to : Node, hashes : SUBSET UsedHashes', chain : Known' \cup {<<>>}]
    BY <1>1
  <2> QED BY <1>3, <2>1
<1> QED BY <1>1, <1>2, <1>4, <1>5

(* A step keeps the invariant if what it adds to what is under way is in   *)
(* order.                                                                  *)
LEMMA StepKeepsIInv ==
  ASSUME IInv, Grown, UnderWayTyped',
         \A n \in Node : Cardinality(serving'[n]) <= 1,
         losses' \in 0 .. MaxLosses, failures' \in 0 .. MaxFailures,
         \A m \in net' : m \in net \/ MessageInv(m)',
         \A n \in Node : \A s \in serving'[n] : s \in serving[n] \/ ServingInv(s)',
         \A n \in Node : batch'[n] = batch[n] \/ Follow(n, batch[n])'
  PROVE  IInv'
<1>1. TypeOK' /\ StoresInv'
  BY DEF Grown, StoresInv, StoresTyped, UnderWayTyped, TypeOK
<1>2. \A m \in net' : MessageInv(m)'
  BY MessagesStay DEF IInv
<1>3. \A n \in Node : \A s \in serving'[n] : ServingInv(s)'
  BY ServingStays DEF IInv
<1>4. ASSUME NEW n \in Node, batch'[n] = batch[n]
      PROVE  Follow(n, batch[n])'
  <2>1. PICK bs : bs = batch[n]
    OBVIOUS
  <2>2. Follow(n, bs)
    BY <2>1 DEF IInv
  <2>3. Follow(n, bs)'
    BY <2>2, FollowStays
  <2>4. batch'[n] = bs
    BY <1>4, <2>1
  <2> QED BY <2>3, <2>4 DEF Follow
<1> QED BY <1>1, <1>2, <1>3, <1>4 DEF IInv

-----------------------------------------------------------------------------
(* The blocks that are pushed *)

LEMMA KnownPaths == StoresTyped => Known \subseteq Path
BY DEF StoresTyped, Known

LEMMA AcceptedIsFresh ==
  ASSUME StoresInv, NEW n \in Node, NEW b \in Known, AcceptBlockResult(n, b) = "Ok"
  PROVE  Fresh(n, b)
<1>1. b \notin blocks[n] /\ b \notin pruned[n] /\ HasPreviousBlock(n, b)
  BY Zenon DEF AcceptBlockResult
<1> QED BY <1>1, KnownPaths DEF StoresInv, Fresh

LEMMA MinedIsFresh ==
  ASSUME StoresInv, NEW n \in Node, NEW h \in Hash \ UsedHashes,
         NEW b, b = Append(longest_chain[n], h), RootOf(b) \in Root
  PROVE  Fresh(n, b)
<1>1. longest_chain[n] \in Seq(Hash) /\ h \in Hash
  BY DEF StoresInv, StoresTyped
<1>2. b \in Seq(Hash) /\ b # <<>>
  BY <1>1
<1>3. Front(b) = longest_chain[n] /\ BlockHash(b) = h
  <2>1. /\ Lemmas!Front(b) = longest_chain[n]
        /\ Lemmas!Last(b) = h
    BY <1>1, Lemmas!FrontOfAppend, StoreAssumption
  <2> QED BY <2>1 DEF Lemmas!Front, Front, Lemmas!Last, Last, BlockHash
<1>4. HasPreviousBlock(n, b)
  BY <1>3 DEF StoresInv, StoreInv, Best, HasPreviousBlock
<1>5. b \notin blocks[n] \cup pruned[n]
  BY <1>3 DEF UsedHashes, Known
<1> QED BY <1>2, <1>3, <1>4, <1>5 DEF Fresh, Path

(* Every block of the chain is stored: verify() never fails. *)
LEMMA ChainsVerify ==
  ASSUME StoresInv, NEW n \in Node
  PROVE  ChainVerifies(n)
<1> SUFFICES ASSUME NEW i \in 1 .. Len(longest_chain[n])
             PROVE  SubSeq(longest_chain[n], 1, i) \in blocks[n]
  BY DEF ChainVerifies
<1>1. longest_chain[n] # <<>>
  BY EmptySeq
<1>2. longest_chain[n] \in blocks[n] /\ blocks[n] \subseteq Path
  BY <1>1 DEF StoresInv, StoreInv, Best, StoresTyped
<1>3. \A x \in blocks[n] : Front(x) = <<>> \/ Front(x) \in blocks[n]
  BY DEF StoresInv, StoreInv, ParentClosed
<1> QED BY <1>2, <1>3, PrefixesStored

(* A prefix of a block that is known is known. *)
LEMMA PrefixesKnown ==
  ASSUME StoresInv, NEW c \in Known, NEW i \in 1 .. Len(c)
  PROVE  SubSeq(c, 1, i) \in Known
<1>1. Known \subseteq Path /\ \A x \in Known : Front(x) = <<>> \/ Front(x) \in Known
  BY KnownPaths DEF StoresInv, KnownInv, ParentClosed
<1> QED BY <1>1, PrefixesStored

LEMMA CutTakesDescendants ==
  ASSUME NEW n \in Node, NEW c \in Path, Front(c) # <<>>,
         Cut(n, Front(c)) \/ Front(c) \in pruned[n]
  PROVE  Cut(n, c)
<1>1. /\ Len(Front(c)) = Len(c) - 1 /\ Len(c) - 1 \in 1 .. Len(c) /\ Len(c) \in Nat
      /\ Front(c) = SubSeq(c, 1, Len(c) - 1)
      /\ \A i \in 1 .. Len(c) - 1 : SubSeq(Front(c), 1, i) = SubSeq(c, 1, i)
  BY ParentFacts, PathFacts
<1>2. CASE Front(c) \in pruned[n]
  BY <1>1, <1>2 DEF Cut
<1>3. CASE Cut(n, Front(c))
  <2>1. PICK i \in 1 .. Len(c) - 1 : SubSeq(c, 1, i) \in pruned[n]
    BY <1>1, <1>3 DEF Cut
  <2>2. i \in 1 .. Len(c)
    BY <1>1
  <2> QED BY <2>1, <2>2 DEF Cut
<1> QED BY <1>2, <1>3

-----------------------------------------------------------------------------
(* Every step keeps the invariant *)

LEMMA InitIInv == Init => IInv
<1> SUFFICES ASSUME Init PROVE IInv
  OBVIOUS
<1>1. Known = {}
  BY DEF Init, Known
<1>2. StoresTyped
  BY EmptySeq DEF Init, StoresTyped
<1>3. \A n \in Node : StoreInv(n)
  BY DEF Init, StoreInv, ParentClosed
<1>4. StoresInv
  BY <1>1, <1>2, <1>3 DEF StoresInv, KnownInv, ParentClosed
<1>5. \A n \in Node : Cardinality(serving[n]) <= 1
  BY FS_EmptySet DEF Init
<1>6. UnderWayTyped
  BY EmptySeq DEF Init, UnderWayTyped
<1>7. losses \in 0 .. MaxLosses /\ failures \in 0 .. MaxFailures
  BY LossesAssumption DEF Init
<1>8. TypeOK
  BY <1>2, <1>5, <1>6, <1>7 DEF TypeOK, StoresTyped, UnderWayTyped
<1>9. \A n \in Node : Follow(n, batch[n])
  BY DEF Init, Follow
<1> QED BY <1>4, <1>8, <1>9 DEF Init, IInv

(* What the invariant says of the bounds. *)
LEMMA Bounds ==
  ASSUME IInv
  PROVE  /\ \A n \in Node : Cardinality(serving[n]) <= 1
         /\ losses \in 0 .. MaxLosses /\ failures \in 0 .. MaxFailures
BY DEF IInv, TypeOK

LEMMA StutterKeeps ==
  ASSUME IInv, UNCHANGED vars
  PROVE  IInv'
<1>1. Grown
  BY SameGrows DEF IInv, vars
<1>2. UnderWayTyped'
  BY <1>1, TypesStay DEF UnderWayTyped, vars
<1> QED BY <1>1, <1>2, Bounds, StepKeepsIInv DEF vars

LEMMA MineKeeps ==
  ASSUME IInv, NEW n \in Node, NEW h \in Hash, Mine(n, h)
  PROVE  IInv'
<1>1. PICK b : b = Append(longest_chain[n], h)
  OBVIOUS
<1>2. /\ h \in Mined[n] \ UsedHashes /\ RootOf(b) \in Root
      /\ PushAndFix(n, b)
      /\ outbox' = [outbox EXCEPT ![n] = Append(outbox[n], b)]
      /\ UNCHANGED <<net, batch, serving, losses, failures>>
  BY <1>1 DEF Mine
<1>3. Grown /\ b \in blocks'[n] \cup pruned'[n]
  <2>1. Fresh(n, b)
    BY <1>1, <1>2, MinedIsFresh DEF IInv
  <2> QED BY <1>2, <2>1, PushGrows DEF IInv
<1>4. b \in Known'
  BY <1>3 DEF Known
<1>5. UnderWayTyped'
  BY <1>2, <1>3, <1>4, TypesStay DEF UnderWayTyped
<1> QED BY <1>2, <1>3, <1>5, Bounds, StepKeepsIInv

(* Steps of the channel and of the timer. *)
LEMMA PublishKeeps ==
  ASSUME IInv, NEW n \in Node, NEW peers \in SUBSET Mesh[n], Publish(n, peers)
  PROVE  IInv'
<1>1. /\ outbox[n] # <<>>
      /\ net' = net \cup Published(n, Head(outbox[n]), peers)
      /\ outbox' = [outbox EXCEPT ![n] = Tail(outbox[n])]
      /\ UNCHANGED <<tree, batch, serving, losses, failures>>
  BY DEF Publish
<1>2. Grown /\ Known \subseteq Known'
  BY <1>1, SameGrows DEF IInv, Grown
<1>3. outbox[n] \in Seq(Known) /\ Head(outbox[n]) \in Known
  <2>1. outbox[n] \in Seq(Known)
    BY DEF IInv, TypeOK
  <2> QED BY <1>1, <2>1
<1>4. UnderWayTyped'
  BY <1>1, <1>2, TypesStay DEF UnderWayTyped
<1>5. \A m \in Published(n, Head(outbox[n]), peers) : MessageInv(m)'
  <2>1. peers \subseteq Node
    BY PeersAssumption
  <2> QED BY <1>2, <1>3, <2>1 DEF Published, GossipMsg, MessageInv
<1> QED BY <1>1, <1>2, <1>4, <1>5, Bounds, StepKeepsIInv

LEMMA PublishFailsKeeps ==
  ASSUME IInv, NEW n \in Node, PublishFails(n)
  PROVE  IInv'
<1>1. /\ outbox[n] # <<>> /\ failures < MaxFailures
      /\ outbox' = [outbox EXCEPT ![n] = Append(Tail(outbox[n]), Head(outbox[n]))]
      /\ failures' = failures + 1
      /\ UNCHANGED <<tree, net, batch, serving, losses>>
  BY DEF PublishFails
<1>2. Grown
  BY <1>1, SameGrows DEF IInv
<1>3. UnderWayTyped'
  <2>1. outbox \in [Node -> Seq(Known')]
    BY <1>2, TypesStay
  <2>2. Append(Tail(outbox[n]), Head(outbox[n])) \in Seq(Known')
    BY <1>1, <2>1
  <2> QED BY <1>1, <1>2, <2>1, <2>2, TypesStay DEF UnderWayTyped
<1>4. failures' \in 0 .. MaxFailures
  BY <1>1, Bounds, LossesAssumption
<1> QED BY <1>1, <1>2, <1>3, <1>4, Bounds, StepKeepsIInv

LEMMA SyncKeeps ==
  ASSUME IInv, NEW n \in Node, Sync(n)
  PROVE  IInv'
<1>1. /\ net' = net \cup {HashesRequest(n, FirstPeer[n])}
      /\ UNCHANGED <<tree, outbox, batch, serving, losses, failures>>
  BY DEF Sync
<1>2. Grown
  BY <1>1, SameGrows DEF IInv
<1>3. UnderWayTyped'
  BY <1>1, <1>2, TypesStay DEF UnderWayTyped
<1>4. MessageInv(HashesRequest(n, FirstPeer[n]))'
  BY PeersAssumption DEF HashesRequest, MessageInv
<1> QED BY <1>1, <1>2, <1>3, <1>4, Bounds, StepKeepsIInv

LEMMA LoseKeeps ==
  ASSUME IInv, NEW m \in net, Lose(m)
  PROVE  IInv'
<1>1. /\ losses < MaxLosses /\ net' = net \ {m} /\ losses' = losses + 1
      /\ UNCHANGED <<tree, outbox, batch, serving, failures>>
  BY DEF Lose
<1>2. Grown
  BY <1>1, SameGrows DEF IInv
<1>3. UnderWayTyped'
  BY <1>1, <1>2, TypesStay DEF UnderWayTyped
<1>4. losses' \in 0 .. MaxLosses
  BY <1>1, Bounds, LossesAssumption
<1> QED BY <1>1, <1>2, <1>3, <1>4, Bounds, StepKeepsIInv

(* The select loop: gossip *)
LEMMA GossipKeeps ==
  ASSUME IInv, NEW n \in Node, NEW m \in net, NEW peers \in SUBSET (Mesh[n] \ {m.from}),
         GossipArrives(n, m, peers)
  PROVE  IInv'
<1>1. /\ m.type = "block" /\ UNCHANGED <<outbox, batch, serving, losses, failures>>
      /\ \/ /\ AcceptBlockResult(n, m.block) = "Ok" /\ PushAndFix(n, m.block)
            /\ net' = (net \ {m}) \cup Published(n, m.block, peers)
         \/ /\ net' \subseteq net \cup {HashesRequest(n, m.from)}
            /\ UNCHANGED tree
  BY DEF GossipArrives, Receives
<1>2. m.block \in Known /\ m.from \in Node /\ peers \subseteq Node
  BY <1>1, PeersAssumption DEF IInv, MessageInv
<1>3. Grown
  <2>1. CASE UNCHANGED tree
    BY <2>1, SameGrows DEF IInv
  <2>2. CASE AcceptBlockResult(n, m.block) = "Ok" /\ PushAndFix(n, m.block)
    <3>1. StoresInv
      BY DEF IInv
    <3>2. Fresh(n, m.block)
      BY <1>2, <2>2, <3>1, AcceptedIsFresh
    <3> QED BY <2>2, <3>1, <3>2, PushGrows
  <2> QED BY <1>1, <2>1, <2>2
<1>4. UnderWayTyped'
  BY <1>1, <1>3, TypesStay DEF UnderWayTyped
<1>5. \A x \in Published(n, m.block, peers) : MessageInv(x)'
  BY <1>2, <1>3 DEF Grown, Published, GossipMsg, MessageInv
<1>6. MessageInv(HashesRequest(n, m.from))'
  BY <1>2 DEF HashesRequest, MessageInv
<1>7. \A x \in net' : x \in net \/ MessageInv(x)'
  BY <1>1, <1>5, <1>6
<1> QED BY <1>1, <1>3, <1>4, <1>7, Bounds, StepKeepsIInv

(* The select loop: an exchange *)
LEMMA ServeHashesKeeps ==
  ASSUME IInv, NEW n \in Node, NEW m \in net, ServeHashes(n, m)
  PROVE  IInv'
<1>1. /\ net' = (net \ {m}) \cup {HashesReply(n, m.from, longest_chain[n])}
      /\ UNCHANGED <<tree, outbox, batch, serving, losses, failures>>
  BY DEF ServeHashes
<1>2. Grown /\ Known \subseteq Known'
  BY <1>1, SameGrows DEF IInv, Grown
<1>3. UnderWayTyped'
  BY <1>1, <1>2, TypesStay DEF UnderWayTyped
<1>4. longest_chain[n] \in Known \cup {<<>>}
  BY DEF IInv, StoresInv, StoreInv, Best, Known
<1>5. PICK x : x = HashesReply(n, m.from, longest_chain[n])
  OBVIOUS
<1>6. MessageInv(x)
  BY <1>4, <1>5 DEF IInv, HashesReply, MessageInv
<1>7. MessageInv(x)'
  BY <1>2, <1>6, MessagesStay
<1> QED BY <1>1, <1>2, <1>3, <1>5, <1>7, Bounds, StepKeepsIInv

(* What a node asks for, out of a chain it was sent, is closed. *)
LEMMA RequestIsClosed ==
  ASSUME StoresInv, NEW n \in Node, NEW chain \in Known \cup {<<>>},
         NEW missing, missing = {i \in 1 .. Len(chain) : SubSeq(chain, 1, i) \notin blocks[n]}
  PROVE  Closed(n, {chain[i] : i \in missing})
<1>1. CASE chain = <<>>
  <2>1. missing = {}
    BY <1>1, EmptySeq
  <2> QED BY <2>1 DEF Closed
<1>2. CASE chain \in Known
  <2>1. chain \in Path /\ Known \subseteq Path
    BY <1>2, KnownPaths DEF StoresInv
  <2>2. ASSUME NEW i \in 1 .. Len(chain)
        PROVE  /\ SubSeq(chain, 1, i) \in Known
               /\ BlockHash(SubSeq(chain, 1, i)) = chain[i]
               /\ Front(SubSeq(chain, 1, i)) = SubSeq(chain, 1, i - 1)
    BY <1>2, <2>1, PrefixesKnown, PrefixFacts
  <2>3. {chain[i] : i \in missing} \subseteq UsedHashes
    BY <2>2 DEF UsedHashes
  <2>4. ASSUME NEW a \in Known, NEW i \in missing, BlockHash(a) = chain[i],
               Front(a) # <<>>
        PROVE  \/ BlockHash(Front(a)) \in {chain[j] : j \in missing}
               \/ Front(a) \in blocks[n] \cup pruned[n]
    <3>1. i \in 1 .. Len(chain) /\ Len(chain) \in Nat
      BY <2>1, PathFacts
    <3>2. a = SubSeq(chain, 1, i)
      BY <2>2, <2>4, <3>1 DEF StoresInv, KnownInv
    <3>3. Front(a) = SubSeq(chain, 1, i - 1)
      BY <2>2, <3>1, <3>2
    <3>4. i - 1 \in 1 .. Len(chain)
      <4>1. CASE i = 1
        <5>1. SubSeq(chain, 1, i - 1) = <<>>
          BY <4>1, SubSeqEmpty
        <5> QED BY <2>4, <3>3, <5>1
      <4> QED BY <3>1, <4>1
    <3>5. CASE i - 1 \in missing
      BY <2>2, <3>3, <3>4, <3>5
    <3>6. CASE i - 1 \notin missing
      BY <3>3, <3>4, <3>6
    <3> QED BY <3>5, <3>6
  <2> QED BY <2>3, <2>4 DEF Closed
<1> QED BY <1>1, <1>2

LEMMA HashesArriveKeeps ==
  ASSUME IInv, NEW n \in Node, NEW m \in net, HashesArrive(n, m)
  PROVE  IInv'
<1>1. PICK missing :
        missing = {i \in 1 .. Len(m.chain) : SubSeq(m.chain, 1, i) \notin blocks[n]}
  OBVIOUS
<1>2. PICK hs : hs = {m.chain[i] : i \in missing}
  OBVIOUS
<1>3. /\ m.type = "hashes"
      /\ net' \subseteq net \cup {BlocksRequest(n, m.from, hs)}
      /\ UNCHANGED <<tree, outbox, batch, serving, losses, failures>>
  BY <1>1, <1>2 DEF HashesArrive, Receives
<1>4. Grown
  BY <1>3, SameGrows DEF IInv
<1>5. UnderWayTyped'
  BY <1>3, <1>4, TypesStay DEF UnderWayTyped
<1>6. m.chain \in Known \cup {<<>>} /\ m.from \in Node
  BY <1>3 DEF IInv, MessageInv
<1>7. Closed(n, hs)
  BY <1>1, <1>2, <1>6, RequestIsClosed DEF IInv
<1>8. MessageInv(BlocksRequest(n, m.from, hs))
  BY <1>6, <1>7 DEF BlocksRequest, MessageInv
<1>9. PICK x : x = BlocksRequest(n, m.from, hs)
  OBVIOUS
<1>10. MessageInv(x)'
  BY <1>4, <1>8, <1>9, MessagesStay
<1> QED BY <1>3, <1>4, <1>5, <1>9, <1>10, Bounds, StepKeepsIInv

LEMMA ServeBlocksKeeps ==
  ASSUME IInv, NEW n \in Node, NEW m \in net, ServeBlocks(n, m)
  PROVE  IInv'
<1>1. PICK s : s = [to |-> m.from, hashes |-> m.hashes, chain |-> longest_chain[n]]
  OBVIOUS
<1>2. /\ m.type = "blocks?"
      /\ serving' = [serving EXCEPT ![n] = {s}] /\ net' = net \ {m}
      /\ UNCHANGED <<tree, outbox, batch, losses, failures>>
  BY <1>1 DEF ServeBlocks, Receives
<1>3. Grown /\ Known \subseteq Known' /\ UsedHashes \subseteq UsedHashes'
  BY <1>2, SameGrows DEF IInv, Grown, UsedHashes
<1>4. longest_chain[n] \in Known \cup {<<>>}
  BY DEF IInv, StoresInv, StoreInv, Best, Known
<1>5. m.from \in Node /\ Closed(m.from, m.hashes)
  BY <1>2 DEF IInv, MessageInv
<1>6. ServingInv(s)
  BY <1>1, <1>4, <1>5 DEF ServingInv
<1>7. ServingInv(s)'
  BY <1>3, <1>6, ServingStays
<1>8. s \in [to : Node, hashes : SUBSET UsedHashes', chain : Known' \cup {<<>>}]
  BY <1>1, <1>3, <1>4, <1>5 DEF Closed
<1>9. serving \in [Node -> SUBSET [to : Node, hashes : SUBSET UsedHashes',
                                  chain : Known' \cup {<<>>}]]
  BY <1>3, TypesStay
<1>10. UnderWayTyped'
  BY <1>2, <1>3, <1>8, <1>9, TypesStay DEF UnderWayTyped
<1>11. \A p \in Node : Cardinality(serving'[p]) <= 1
  <2>1. Cardinality({s}) = 1
    BY FS_Singleton
  <2> QED BY <1>2, <1>9, <2>1, Bounds
<1>12. \A p \in Node : \A t \in serving'[p] : t \in serving[p] \/ ServingInv(t)'
  BY <1>2, <1>7, <1>9
<1> QED BY <1>2, <1>3, <1>10, <1>11, <1>12, Bounds, StepKeepsIInv

(* What n sends of the chain it has read, when it is asked for hs. *)
Wanted(chain, hs)   == {i \in 1 .. Len(chain) : chain[i] \in hs}
Found(n, chain, hs) == {SubSeq(chain, 1, i) : i \in Wanted(chain, hs)} \cap blocks[n]

(* What a node sends of its chain, if what it was asked for is closed, can *)
(* be taken block by block.                                                *)
LEMMA ReplyFollows ==
  ASSUME StoresInv, NEW n \in Node, NEW p \in Node, NEW hs, Closed(p, hs),
         NEW chain, chain \in Known \cup {<<>>}
  PROVE  Follow(p, Found(n, chain, hs))
<1>0. PICK wanted : wanted = Wanted(chain, hs)
  OBVIOUS
<1>a. PICK found : found = Found(n, chain, hs)
  OBVIOUS
<1>b. /\ wanted = {i \in 1 .. Len(chain) : chain[i] \in hs}
      /\ found = {SubSeq(chain, 1, i) : i \in wanted} \cap blocks[n]
  BY <1>0, <1>a DEF Wanted, Found
<1>1. found \subseteq Known
  BY <1>b DEF Known
<1>2. ASSUME NEW b \in found, Front(b) # <<>>
      PROVE  Front(b) \in found \cup blocks[p] \cup pruned[p]
  <2>1. PICK i \in wanted : b = SubSeq(chain, 1, i)
    BY <1>b
  <2>2. i \in 1 .. Len(chain) /\ chain[i] \in hs
    BY <1>b
  <2>3. chain \in Known
    BY <2>2, EmptySeq
  <2>4. chain \in Path /\ Known \subseteq Path /\ Len(chain) \in Nat
    BY <2>3, KnownPaths, PathFacts DEF StoresInv
  <2>5. BlockHash(b) = chain[i] /\ Front(b) = SubSeq(chain, 1, i - 1)
    BY <1>1, <2>1, <2>2, <2>4, PrefixFacts
  <2>6. \/ BlockHash(Front(b)) \in hs
        \/ Front(b) \in blocks[p] \cup pruned[p]
    BY <1>1, <1>2, <2>2, <2>5 DEF Closed
  <2>7. CASE BlockHash(Front(b)) \in hs
    <3>1. Front(b) \in blocks[n]
      BY <1>2, <1>b DEF StoresInv, StoreInv, ParentClosed
    <3>2. i - 1 \in 1 .. Len(chain)
      <4>1. CASE i = 1
        <5>1. SubSeq(chain, 1, i - 1) = <<>>
          BY <4>1, SubSeqEmpty
        <5> QED BY <1>2, <2>5, <5>1
      <4> QED BY <2>2, <2>4, <4>1
    <3>3. BlockHash(Front(b)) = chain[i - 1]
      <4>1. SubSeq(chain, 1, i - 1) \in Path
        BY <2>3, <2>4, <3>2, PrefixesKnown
      <4> QED BY <2>4, <2>5, <3>2, <4>1, PrefixFacts
    <3>4. i - 1 \in wanted
      BY <1>b, <2>7, <3>2, <3>3
    <3> QED BY <1>b, <2>5, <3>1, <3>4
  <2> QED BY <2>6, <2>7
<1> QED BY <1>1, <1>2, <1>a DEF Follow

LEMMA SendBlocksKeeps ==
  ASSUME IInv, NEW n \in Node, SendBlocks(n)
  PROVE  IInv'
<1>1. PICK s \in serving[n] :
        LET wanted == {i \in 1 .. Len(s.chain) : s.chain[i] \in s.hashes}
            found  == {SubSeq(s.chain, 1, i) : i \in wanted} \cap blocks[n]
        IN  /\ net' = net \cup {BlocksReply(n, s.to, found)}
            /\ serving' = [serving EXCEPT ![n] = {}]
            /\ UNCHANGED <<tree, outbox, batch, losses, failures>>
  BY DEF SendBlocks
<1>0. PICK p, hs, chain : p = s.to /\ hs = s.hashes /\ chain = s.chain
  OBVIOUS
<1>3. PICK found : found = Found(n, chain, hs)
  OBVIOUS
<1>4. PICK x : x = BlocksReply(n, p, found)
  OBVIOUS
<1>5. /\ net' = net \cup {x}
      /\ serving' = [serving EXCEPT ![n] = {}]
      /\ UNCHANGED <<tree, outbox, batch, losses, failures>>
  BY <1>0, <1>1, <1>3, <1>4 DEF Found, Wanted
<1>6. Grown
  BY <1>5, SameGrows DEF IInv
<1>7. p \in Node /\ chain \in Known \cup {<<>>} /\ Closed(p, hs)
  BY <1>0 DEF IInv, ServingInv
<1>8. Follow(p, found)
  <2>1. StoresInv
    BY DEF IInv
  <2> QED BY <1>3, <1>7, <2>1, ReplyFollows
<1>9. MessageInv(x)
  BY <1>4, <1>7, <1>8 DEF BlocksReply, MessageInv
<1>10. MessageInv(x)'
  BY <1>6, <1>9, MessagesStay
<1>11. serving \in [Node -> SUBSET [to : Node, hashes : SUBSET UsedHashes',
                                   chain : Known' \cup {<<>>}]]
  BY <1>6, TypesStay
<1>12. UnderWayTyped'
  BY <1>5, <1>6, <1>11, TypesStay DEF UnderWayTyped
<1>13. \A r \in Node : Cardinality(serving'[r]) <= 1
  BY <1>5, <1>11, Bounds, FS_EmptySet
<1>14. \A r \in Node : \A t \in serving'[r] : t \in serving[r]
  BY <1>5, <1>11
<1> QED BY <1>5, <1>6, <1>10, <1>12, <1>13, <1>14, Bounds, StepKeepsIInv

LEMMA BlocksArriveKeeps ==
  ASSUME IInv, NEW n \in Node, NEW m \in net, BlocksArrive(n, m)
  PROVE  IInv'
<1>1. PICK bs : bs = m.blocks
  OBVIOUS
<1>2. /\ m.to = n /\ m.type = "blocks"
      /\ batch' = [batch EXCEPT ![n] = bs] /\ net' = net \ {m}
      /\ UNCHANGED <<tree, outbox, serving, losses, failures>>
  BY <1>1 DEF BlocksArrive, Receives
<1>3. Grown
  BY <1>2, SameGrows DEF IInv
<1>4. Follow(n, bs)
  BY <1>1, <1>2 DEF IInv, MessageInv
<1>5. Follow(n, bs)'
  BY <1>3, <1>4, FollowStays
<1>6. batch \in [Node -> SUBSET Known']
  BY <1>3, TypesStay
<1>7. UnderWayTyped'
  BY <1>2, <1>3, <1>5, <1>6, TypesStay DEF UnderWayTyped, Follow
<1>8. \A p \in Node : batch'[p] = batch[p] \/ Follow(p, batch[p])'
  <2>1. batch'[n] = bs
    BY <1>2, <1>6
  <2>2. Follow(n, batch[n])'
    BY <1>5, <2>1 DEF Follow
  <2> QED BY <1>2, <1>6, <2>2
<1> QED BY <1>2, <1>3, <1>7, <1>8, Bounds, StepKeepsIInv

(* The parent of the block that comes next is not still to come: the node  *)
(* has it, or has pruned the branch.                                       *)
LEMMA NextHasParent ==
  ASSUME StoresInv, NEW n \in Node, Follow(n, batch[n]), NEW b \in NextBlocks(batch[n])
  PROVE  /\ b \in Known /\ b \in batch[n]
         /\ HasPreviousBlock(n, b) \/ Cut(n, b)
<1>1. b \in batch[n] /\ b \in Known /\ b \in Path /\ \A c \in batch[n] : Len(b) <= Len(c)
  BY KnownPaths DEF NextBlocks, Follow, StoresInv
<1>2. CASE Front(b) = <<>>
  BY <1>1, <1>2 DEF HasPreviousBlock
<1>3. CASE Front(b) # <<>>
  <2>1. Len(Front(b)) = Len(b) - 1 /\ Len(b) \in Nat
    BY <1>1, <1>3, ParentFacts, PathFacts
  <2>2. Front(b) \notin batch[n]
    BY <1>1, <2>1
  <2>3. Cut(n, b) \/ Front(b) \in blocks[n] \cup pruned[n]
    BY <1>1, <1>3, <2>2 DEF Follow
  <2>4. Front(b) \in pruned[n] => Cut(n, b)
    BY <1>1, <1>3, CutTakesDescendants
  <2> QED BY <1>1, <2>3, <2>4 DEF HasPreviousBlock
<1> QED BY <1>2, <1>3

(* A block of a response that is refused is stored already, or pruned, or  *)
(* on a branch that is.                                                    *)
LEMMA RefusedIsKnownOrCut ==
  ASSUME StoresInv, NEW n \in Node, NEW b \in Known,
         HasPreviousBlock(n, b) \/ Cut(n, b), AcceptBlockResult(n, b) # "Ok"
  PROVE  b \in blocks[n] \cup pruned[n] \/ Cut(n, b)
<1>1. \/ b \in blocks[n] \/ b \in pruned[n] \/ Front(b) \in pruned[n]
      \/ ~HasPreviousBlock(n, b) \/ ~ChainVerifies(n)
  BY DEF AcceptBlockResult
<1>2. ASSUME Front(b) \in pruned[n] PROVE Cut(n, b)
  <2>1. b \in Path /\ Front(b) \in Path
    BY <1>2, KnownPaths DEF StoresInv, StoresTyped
  <2> QED BY <1>2, <2>1, PathFacts, CutTakesDescendants
<1> QED BY <1>1, <1>2, ChainsVerify

LEMMA AcceptRequestedKeeps ==
  ASSUME IInv, NEW n \in Node, AcceptRequested(n)
  PROVE  IInv'
<1>1. PICK b \in NextBlocks(batch[n]) :
        /\ IF AcceptBlockResult(n, b) = "Ok" THEN PushAndFix(n, b) ELSE UNCHANGED tree
        /\ batch' = [batch EXCEPT ![n] = batch[n] \ {b}]
        /\ UNCHANGED <<outbox, net, serving, losses, failures>>
  BY DEF AcceptRequested
<1>2. StoresInv /\ Follow(n, batch[n])
  BY DEF IInv
<1>3. b \in Known /\ b \in batch[n] /\ (HasPreviousBlock(n, b) \/ Cut(n, b))
  BY <1>2, NextHasParent
<1>4. Grown /\ (b \in blocks'[n] \cup pruned'[n] \/ Cut(n, b))
  <2>1. CASE AcceptBlockResult(n, b) = "Ok"
    <3>1. Fresh(n, b)
      BY <1>2, <1>3, <2>1, AcceptedIsFresh
    <3> QED BY <1>1, <1>2, <2>1, <3>1, PushGrows
  <2>2. CASE AcceptBlockResult(n, b) # "Ok"
    <3>1. UNCHANGED tree
      BY <1>1, <2>2
    <3>2. b \in blocks[n] \cup pruned[n] \/ Cut(n, b)
      BY <1>2, <1>3, <2>2, RefusedIsKnownOrCut
    <3>3. Grown
      BY <1>2, <3>1, SameGrows
    <3> QED BY <3>2, <3>3 DEF Grown
  <2> QED BY <2>1, <2>2
<1>5. batch \in [Node -> SUBSET Known']
  BY <1>4, TypesStay
<1>6. UnderWayTyped'
  BY <1>1, <1>4, <1>5, TypesStay DEF UnderWayTyped
<1>7. PICK bs : bs = batch[n]
  OBVIOUS
<1>8. Follow(n, bs) /\ Follow(n, bs)' /\ batch'[n] = bs \ {b}
  BY <1>1, <1>2, <1>4, <1>5, <1>7, FollowStays
<1>9. \A c \in bs : Cut(n, c) => Cut(n, c)'
  BY <1>4 DEF Grown, Cut
<1>10. ASSUME NEW c \in bs \ {b}
       PROVE  \/ Front(c) = <<>> \/ Cut(n, c)'
              \/ Front(c) \in (bs \ {b}) \cup blocks'[n] \cup pruned'[n]
  <2>1. CASE Front(c) = b
    <3>1. b \in Path /\ c \in Path
      BY <1>2, <1>3, <1>8, KnownPaths DEF Follow, StoresInv
    <3>2. Cut(n, b) => Cut(n, c)
      BY <2>1, <3>1, PathFacts, CutTakesDescendants
    <3> QED BY <1>4, <1>9, <2>1, <3>2
  <2>2. CASE Front(c) # b
    BY <1>8, <2>2 DEF Follow
  <2> QED BY <2>1, <2>2
<1>11. Follow(n, batch[n])'
  <2>1. bs \ {b} \subseteq Known'
    BY <1>8 DEF Follow
  <2> QED BY <1>8, <1>10, <2>1 DEF Follow
<1>12. \A p \in Node : batch'[p] = batch[p] \/ Follow(p, batch[p])'
  BY <1>1, <1>5, <1>11
<1> QED BY <1>1, <1>4, <1>6, <1>12, Bounds, StepKeepsIInv

LEMMA NextIInv == IInv /\ [Next]_vars => IInv'
<1> SUFFICES ASSUME IInv, [Next]_vars PROVE IInv'
  OBVIOUS
<1>1. CASE UNCHANGED vars
  BY <1>1, StutterKeeps
<1>2. CASE \E n \in Node, h \in Hash : Mine(n, h)
  BY <1>2, MineKeeps
<1>3. ASSUME NEW n \in Node, Ask(n) PROVE IInv'
  BY <1>3, SyncKeeps, HashesArriveKeeps, BlocksArriveKeeps DEF Ask
<1>4. ASSUME NEW n \in Node, Serve(n) PROVE IInv'
  BY <1>4, ServeHashesKeeps, ServeBlocksKeeps DEF Serve
<1>5. ASSUME NEW n \in Node, GoOn(n) PROVE IInv'
  BY <1>5, SendBlocksKeeps, AcceptRequestedKeeps DEF GoOn
<1>6. ASSUME NEW n \in Node, Send(n) \/ Hear(n) PROVE IInv'
  BY <1>6, PublishKeeps, GossipKeeps DEF Send, Hear
<1>7. CASE \E n \in Node : PublishFails(n)
  BY <1>7, PublishFailsKeeps
<1>8. CASE \E m \in net : Lose(m)
  BY <1>8, LoseKeeps
<1> QED BY <1>1, <1>2, <1>3, <1>4, <1>5, <1>6, <1>7, <1>8 DEF Next

-----------------------------------------------------------------------------
(* The store of the observed node goes through the steps of BlockTree *)

LEMMA SameStoreTerms ==
  /\ Store!Path = Path /\ Store!N = N
  /\ \A bs : Store!LongestBranch(bs) = LongestBranch(bs)
  /\ \A bs, chain : Store!Losers(bs, chain, N) = Losers(bs, chain, N)
  /\ \A i, j : Store!SatSub(i, j) = SatSub(i, j)
  /\ \A b : Store!Front(b) = Front(b) /\ Store!BlockHash(b) = BlockHash(b)
<1>1. \A b : Store!RootOf(b) = RootOf(b) /\ Store!BlockHash(b) = BlockHash(b)
  BY DEF Store!RootOf, RootOf, Store!BlockHash, BlockHash, Store!Last, Last
<1>2. Store!Path = Path /\ Store!N = N
  BY <1>1 DEF Store!Path, Path, Store!N, N
<1>3. \A bs : Store!LongestBranch(bs) = LongestBranch(bs)
  BY DEF Store!LongestBranch, LongestBranch, Store!Beats, Beats,
     Store!BlockHash, BlockHash, Store!Last, Last
<1>4. \A b, chain, k : Store!ForksAfter(b, chain, k) <=> ForksAfter(b, chain, k)
  BY DEF Store!ForksAfter, ForksAfter
<1>5. \A bs, chain : Store!Losers(bs, chain, N) = Losers(bs, chain, N)
  BY <1>4 DEF Store!Losers, Losers
<1>6. \A i, j : Store!SatSub(i, j) = SatSub(i, j)
  BY DEF Store!SatSub, SatSub
<1>7. \A b : Store!Front(b) = Front(b)
  BY DEF Store!Front, Front
<1> QED BY <1>1, <1>2, <1>3, <1>5, <1>6, <1>7

LEMMA StorePushes ==
  ASSUME StoresTyped, NEW b, PushAndFix(Observed, b)
  PROVE  Store!PushAndFix(b)
<1>1. Observed \in Node
  BY PeersAssumption
<1>2. PICK chain : chain = LongestBranch(blocks[Observed] \cup {b})
  OBVIOUS
<1>3. PICK losers : losers = Losers(blocks[Observed] \cup {b}, chain, N)
  OBVIOUS
<1>4. /\ longest_chain'[Observed] = chain
      /\ blocks'[Observed] = (blocks[Observed] \cup {b}) \ losers
      /\ pruned'[Observed] = pruned[Observed] \cup losers
      /\ executed'[Observed] = executed[Observed] \o
           SubSeq(chain, commited_pointer[Observed] + 1, SatSub(Len(chain), N))
      /\ commited_pointer'[Observed] = commited_pointer[Observed] +
           SatSub(SatSub(Len(chain), N), commited_pointer[Observed])
  BY <1>1, <1>2, <1>3 DEF PushAndFix, StoresTyped
<1>5. /\ chain = Store!LongestBranch(blocks[Observed] \cup {b})
      /\ losers = Store!Losers(blocks[Observed] \cup {b}, chain, Store!N)
      /\ Store!SatSub(Len(chain), Store!N) = SatSub(Len(chain), N)
      /\ Store!SatSub(SatSub(Len(chain), N), commited_pointer[Observed])
           = SatSub(SatSub(Len(chain), N), commited_pointer[Observed])
  BY <1>2, <1>3, SameStoreTerms
<1>6. Store!ExecuteTransactions(chain)
  BY <1>4, <1>5 DEF Store!ExecuteTransactions
<1> QED BY <1>4, <1>5, <1>6 DEF Store!PushAndFix

(* A step of another node, or one that pushes nothing. *)
LEMMA StoreStutters ==
  ASSUME StoresTyped, \/ UNCHANGED tree
                      \/ \E n \in Node \ {Observed}, b \in Path : PushAndFix(n, b)
  PROVE  UNCHANGED Store!vars
<1>1. CASE UNCHANGED tree
  BY <1>1 DEF tree, Store!vars
<1>2. CASE \E n \in Node \ {Observed}, b \in Path : PushAndFix(n, b)
  <2>1. PICK n \in Node \ {Observed}, b \in Path : PushAndFix(n, b)
    BY <1>2
  <2>2. /\ longest_chain'[Observed] = longest_chain[Observed]
        /\ blocks'[Observed] = blocks[Observed]
        /\ pruned'[Observed] = pruned[Observed]
        /\ executed'[Observed] = executed[Observed]
        /\ commited_pointer'[Observed] = commited_pointer[Observed]
    BY <2>1, PeersAssumption DEF PushAndFix, StoresTyped
  <2> QED BY <2>2 DEF Store!vars
<1> QED BY <1>1, <1>2

(* A block that the observed node mines is one that BlockTree may mine. *)
LEMMA StoreMines ==
  ASSUME StoresInv, NEW h \in Hash, Mine(Observed, h)
  PROVE  Store!ProposeBlock(h)
<1>1. PICK b : b = Append(longest_chain[Observed], h)
  OBVIOUS
<1>2. h \in Hash \ UsedHashes /\ RootOf(b) \in Root /\ PushAndFix(Observed, b)
  BY <1>1 DEF Mine
<1>3. b \in Path
  <2>1. Fresh(Observed, b)
    BY <1>1, <1>2, PeersAssumption, MinedIsFresh
  <2> QED BY <2>1 DEF Fresh
<1>4. \A c \in blocks[Observed] \cup pruned[Observed] : BlockHash(c) # h
  BY <1>2, PeersAssumption DEF UsedHashes, Known
<1>5. Store!PushAndFix(b)
  BY <1>2, StorePushes DEF StoresInv
<1> QED BY <1>1, <1>3, <1>4, <1>5, SameStoreTerms DEF Store!ProposeBlock

(* A block that it accepts, from gossip or a response, is one that         *)
(* BlockTree may be offered: its parent is stored, its hash its own.       *)
LEMMA StoreAccepts ==
  ASSUME StoresInv, NEW b \in Known,
         AcceptBlockResult(Observed, b) = "Ok", PushAndFix(Observed, b)
  PROVE  Store!Next
<1>1. /\ b \notin blocks[Observed] /\ b \notin pruned[Observed]
      /\ Front(b) \notin pruned[Observed] /\ HasPreviousBlock(Observed, b)
      /\ ChainVerifies(Observed)
  BY Zenon DEF AcceptBlockResult
<1>2. Store!HasPreviousBlock(b)
  BY <1>1, SameStoreTerms DEF HasPreviousBlock, Store!HasPreviousBlock
<1>3. Store!ChainVerifies
  BY <1>1 DEF ChainVerifies, Store!ChainVerifies
<1>4. Store!AcceptBlockResult(b, TRUE) = "Ok"
  <2>1. Store!Front(b) \notin pruned[Observed]
    BY <1>1, SameStoreTerms
  <2> QED BY <1>1, <1>2, <1>3, <2>1 DEF Store!AcceptBlockResult
<1>5. b \in Path /\ b \in Seq(Hash)
  BY KnownPaths DEF StoresInv, Path
<1>6. b \in Store!Offered
  <2>1. PICK p : p = Front(b)
    OBVIOUS
  <2>2. PICK h : h = BlockHash(b)
    OBVIOUS
  <2>3. h \in Hash /\ b = p \o <<h>>
    BY <1>5, <2>1, <2>2, PathIsFrontAndLast
  <2>4. p \in blocks[Observed] \cup pruned[Observed] \cup {<<>>}
    BY <1>1, <2>1 DEF HasPreviousBlock
  <2>5. \A c \in blocks[Observed] \cup pruned[Observed] :
          Store!BlockHash(c) = Store!BlockHash(b) => c = b
    <3>1. blocks[Observed] \cup pruned[Observed] \subseteq Known
      BY PeersAssumption DEF Known
    <3> QED BY <3>1, SameStoreTerms DEF StoresInv, KnownInv
  <2>6. b \in Store!Path
    BY <1>5, SameStoreTerms
  <2>7. PICK known : known = blocks[Observed] \cup pruned[Observed]
    OBVIOUS
  <2>8. PICK suffix : suffix = {<<g>> : g \in Hash} \cup (Hash \X Hash)
    OBVIOUS
  <2>9. <<h>> \in suffix
    BY <2>3, <2>8
  <2>10. b \in {p \o s : s \in suffix}
    BY <2>3, <2>9
  <2>11. b \in UNION {{q \o s : s \in suffix} : q \in known \cup {<<>>}}
    BY <2>4, <2>7, <2>10
  <2> QED BY <2>5, <2>6, <2>7, <2>8, <2>11 DEF Store!Offered
<1>7. Store!AcceptBlock(b, TRUE)
  BY <1>4, StorePushes DEF Store!AcceptBlock, StoresInv
<1> QED BY <1>6, <1>7 DEF Store!Next

-----------------------------------------------------------------------------
(* What the nodes have executed, where all blocks have one root *)

(* A store that fix() has left: c is its chain, no block forks from the    *)
(* confirmed part of c, whose length is k, and that part was executed.     *)
Settled(bs, c, k, done) ==
  /\ bs \in SUBSET Path
  /\ IF bs = {} THEN c = <<>> ELSE Best(c, bs)
  /\ Losers(bs, c, N) = {}
  /\ k = SatSub(Len(c), N)
  /\ done = SubSeq(c, 1, k)

SettledInv == \A n \in Node :
  Settled(blocks[n], longest_chain[n], commited_pointer[n], executed[n])

(* The numbers and sequences of a settled store. *)
LEMMA SettledFacts ==
  ASSUME NEW bs, NEW c, NEW k, NEW done, Settled(bs, c, k, done)
  PROVE  /\ c \in Seq(Hash) /\ Len(c) \in Nat /\ N \in Nat \ {0}
         /\ k \in 0 .. Len(c)
         /\ Len(c) > N => k = Len(c) - N
         /\ Len(c) <= N => k = 0
         /\ done \in Seq(Hash) /\ Len(done) = k
         /\ \A i \in 1 .. k : done[i] = c[i]
<1>1. c \in Seq(Hash) /\ Len(c) \in Nat
  <2>1. CASE bs = {}
    <3>1. c = <<>>
      BY <2>1 DEF Settled
    <3> QED BY <3>1, EmptySeq
  <2>2. CASE bs # {}
    <3>1. c \in Path
      BY <2>2 DEF Settled, Best
    <3> QED BY <3>1, PathFacts
  <2> QED BY <2>1, <2>2
<1>2. N \in Nat \ {0}
  BY StoreAssumption DEF N
<1>3. k = IF Len(c) > N THEN Len(c) - N ELSE 0
  BY DEF Settled, SatSub
<1>4. k \in 0 .. Len(c)
  BY <1>1, <1>2, <1>3
<1>5. done = SubSeq(c, 1, k)
  BY DEF Settled
<1>6. /\ done \in Seq(Hash) /\ Len(done) = k
      /\ \A i \in 1 .. k : done[i] = c[i]
  BY <1>1, <1>4, <1>5, Lemmas!PrefixElements, StoreAssumption
<1> QED BY <1>1, <1>2, <1>3, <1>4, <1>6

(* A stored block agrees with the chain on all but the last blocks of it.  *)
LEMMA StoredAgrees ==
  ASSUME NEW r, Root = {r},
         NEW bs, NEW c, NEW k, NEW done, Settled(bs, c, k, done),
         NEW b \in bs
  PROVE  \A i \in 1 .. k : i <= Len(b) => b[i] = c[i]
<1>1. bs \in SUBSET Path /\ c \in Path /\ Losers(bs, c, N) = {} /\ b \in Path
  BY DEF Settled, Best
<1>2. RootOf(b) = b[1] /\ RootOf(c) = c[1] /\ b[1] = c[1]
  BY <1>1, PathFacts
<1>3. bs \in SUBSET Lemmas!Path /\ c \in Lemmas!Path /\ Lemmas!Losers(bs, c, Lemmas!N) = {}
  BY <1>1, SameTerms
<1>4. Lemmas!RootOf(b) = Lemmas!RootOf(c)
  BY <1>2 DEF Lemmas!RootOf, RootOf
<1>5. ASSUME NEW i \in 1 .. k, i <= Len(b) PROVE b[i] = c[i]
  <2>1. /\ Len(c) \in Nat /\ N \in Nat \ {0} /\ k \in 0 .. Len(c)
        /\ Len(c) > N => k = Len(c) - N
        /\ Len(c) <= N => k = 0
    BY SettledFacts
  <2>2. i \in 1 .. Len(c) - N + 1
    BY <1>5, <2>1
  <2>3. i \in 1 .. Len(c) - Lemmas!N + 1
    BY <2>2, SameTerms
  <2> QED BY <1>3, <1>4, <1>5, <2>3, Lemmas!SurvivorsAgree, StoreAssumption
<1> QED BY <1>5

(* What fix() makes of a settled store is settled again: the chain it      *)
(* chooses begins with what was executed.                                  *)
LEMMA PushSettles ==
  ASSUME NEW r, Root = {r},
         NEW bs, NEW c, NEW k, NEW done, Settled(bs, c, k, done),
         NEW b, NEW chain, NEW kept, Pushed(bs, b, chain, kept),
         NEW stop, stop = SatSub(Len(chain), N)
  PROVE  Settled(kept, chain, k + SatSub(stop, k), done \o SubSeq(chain, k + 1, stop))
<1>1. /\ bs \in SUBSET Path /\ b \in Path
      /\ chain = LongestBranch(bs \cup {b})
      /\ kept = (bs \cup {b}) \ Losers(bs \cup {b}, chain, N)
  BY DEF Pushed
<1>2. Best(chain, kept) /\ chain \in Path
  BY PushFacts
<1>3. chain \in bs \cup {b} /\ \A x \in bs \cup {b} : Beats(chain, x)
  <2>1. /\ bs \in SUBSET Lemmas!Path /\ b \in Lemmas!Path
        /\ bs = {} \/ \E m \in bs : \A x \in bs : Lemmas!Beats(m, x)
    BY SameTerms DEF Pushed, Best
  <2>2. /\ Lemmas!LongestBranch(bs \cup {b}) \in bs \cup {b}
        /\ \A x \in bs \cup {b} :
             Lemmas!Beats(Lemmas!LongestBranch(bs \cup {b}), x)
    BY <2>1, Lemmas!BestAfterPush, StoreAssumption
  <2> QED BY <1>1, <2>2, SameTerms
<1>4. Losers(kept, chain, N) = {}
  BY <1>1 DEF Losers
<1>5. chain \in Seq(Hash) /\ Len(chain) \in Nat
  BY <1>2, PathFacts
<1>6. /\ c \in Seq(Hash) /\ Len(c) \in Nat /\ N \in Nat \ {0} /\ k \in 0 .. Len(c)
      /\ Len(c) > N => k = Len(c) - N
      /\ Len(c) <= N => k = 0
      /\ done \in Seq(Hash) /\ Len(done) = k
      /\ \A i \in 1 .. k : done[i] = c[i]
  BY SettledFacts
<1>7. Len(chain) >= Len(c)
  <2>1. CASE bs = {}
    <3>1. c = <<>>
      BY <2>1 DEF Settled
    <3>2. Len(c) = 0
      BY <3>1
    <3> QED BY <1>5, <3>2
  <2>2. CASE bs # {}
    <3>1. c \in bs
      BY <2>2 DEF Settled, Best
    <3>2. Beats(chain, c)
      BY <1>3, <3>1
    <3> QED BY <1>5, <1>6, <3>2 DEF Beats
  <2> QED BY <2>1, <2>2
<1>8. /\ stop \in 0 .. Len(chain) /\ k <= stop
      /\ k + SatSub(stop, k) = stop
  <2>1. stop = IF Len(chain) > N THEN Len(chain) - N ELSE 0
    BY DEF SatSub
  <2>2. stop \in 0 .. Len(chain) /\ k <= stop
    BY <1>5, <1>6, <1>7, <2>1
  <2>3. SatSub(stop, k) = stop - k
    BY <1>6, <2>2 DEF SatSub
  <2> QED BY <1>6, <2>2, <2>3
<1>9. ASSUME NEW i \in 1 .. k PROVE chain[i] = c[i]
  <2>1. i \in Nat /\ i >= 1 /\ i <= Len(c) - N
    BY <1>6
  <2>2. CASE chain \in bs
    <3>1. i <= Len(chain)
      BY <1>5, <1>6, <1>7, <2>1
    <3> QED BY <2>2, <3>1, StoredAgrees
  <2>3. CASE chain = b
    <3>1. Len(b) \in Nat /\ Len(b) >= Len(c) /\ i <= Len(b) - 1
      BY <1>5, <1>6, <1>7, <2>1, <2>3
    <3>2. PICK p : p = Front(b)
      OBVIOUS
    <3>3. b \in Seq(Hash) /\ Len(b) - 1 \in 0 .. Len(b)
      BY <1>5, <2>1, <2>3, <3>1
    <3>4. Len(p) = Len(b) - 1 /\ \A j \in 1 .. Len(b) - 1 : p[j] = b[j]
      BY <3>2, <3>3, Lemmas!PrefixElements, StoreAssumption DEF Front
    <3>5. p \in bs
      <4>1. p = <<>> \/ p \in bs \cup {b}
        BY <3>2 DEF Pushed, ParentClosed
      <4>2. Len(p) # 0 /\ p # b
        BY <2>1, <3>1, <3>4
      <4> QED BY <4>1, <4>2, EmptySeq
    <3>6. p[i] = c[i]
      <4>1. \A j \in 1 .. k : j <= Len(p) => p[j] = c[j]
        BY <3>5, StoredAgrees
      <4> QED BY <3>1, <3>4, <4>1
    <3>7. i \in 1 .. Len(b) - 1
      BY <2>1, <3>1
    <3> QED BY <2>3, <3>4, <3>6, <3>7
  <2> QED BY <1>3, <2>2, <2>3
<1>10. done \o SubSeq(chain, k + 1, stop) = SubSeq(chain, 1, stop)
  <2>1. PICK run : run = SubSeq(chain, k + 1, stop)
    OBVIOUS
  <2>2. PICK new : new = SubSeq(chain, 1, stop)
    OBVIOUS
  <2>3. /\ new \in Seq(Hash) /\ Len(new) = stop
        /\ \A i \in 1 .. stop : new[i] = chain[i]
    BY <1>5, <1>8, <2>2, Lemmas!PrefixElements, StoreAssumption
  <2>4. /\ run \in Seq(Hash) /\ Len(run) = stop - k
        /\ \A i \in 1 .. stop - k : run[i] = chain[k + i]
    <3>1. \A i \in k + 1 .. stop : chain[i] \in Hash
      BY <1>5, <1>6, <1>8, ElementOfSeq
    <3>2. k + 1 \in Int /\ stop \in Int
      BY <1>6, <1>8
    <3>3. /\ run \in Seq(Hash)
          /\ Len(run) = IF k + 1 <= stop THEN stop - (k + 1) + 1 ELSE 0
          /\ \A i \in 1 .. stop - (k + 1) + 1 : run[i] = chain[k + 1 + i - 1]
      BY <2>1, <3>1, <3>2, SubSeqProperties
    <3> QED BY <3>3, <1>6, <1>8
  <2>5. PICK all : all = done \o run
    OBVIOUS
  <2>6. /\ all \in Seq(Hash) /\ Len(all) = k + (stop - k)
        /\ \A i \in 1 .. k + (stop - k) :
             all[i] = IF i <= k THEN done[i] ELSE run[i - k]
    <3>1. /\ all \in Seq(Hash) /\ Len(all) = Len(done) + Len(run)
          /\ \A i \in 1 .. Len(done) + Len(run) :
               all[i] = IF i <= Len(done) THEN done[i] ELSE run[i - Len(done)]
      BY <1>6, <2>4, <2>5, ConcatProperties
    <3> QED BY <1>6, <2>4, <3>1
  <2>7. Len(all) = stop
    BY <1>6, <1>8, <2>6
  <2>8. ASSUME NEW i \in 1 .. stop PROVE all[i] = new[i]
    <3>1. i \in 1 .. k + (stop - k)
      BY <1>6, <1>8
    <3>2. CASE i <= k
      <4>1. i \in 1 .. k
        BY <1>6, <3>2
      <4> QED BY <1>6, <1>9, <2>3, <2>6, <3>1, <3>2, <4>1
    <3>3. CASE ~(i <= k)
      <4>1. i - k \in 1 .. stop - k /\ k + (i - k) = i
        BY <1>6, <1>8, <3>3
      <4>2. run[i - k] = chain[i]
        BY <2>4, <4>1
      <4> QED BY <2>3, <2>6, <3>1, <3>3, <4>2
    <3> QED BY <3>2, <3>3
  <2>9. all = new
    BY <2>3, <2>6, <2>7, <2>8, SeqEqual
  <2> QED BY <2>1, <2>2, <2>5, <2>9
<1>11. kept \in SUBSET Path
  BY <1>1
<1>12. kept # {}
  BY <1>2 DEF Best
<1> QED BY <1>2, <1>4, <1>8, <1>10, <1>11, <1>12 DEF Settled

(* A push at one node leaves all of them settled. *)
LEMMA PushKeepsSettled ==
  ASSUME NEW r, Root = {r}, StoresInv, SettledInv,
         NEW n \in Node, NEW b, Fresh(n, b), PushAndFix(n, b)
  PROVE  SettledInv'
<1>1. PICK chain : chain = LongestBranch(blocks[n] \cup {b})
  OBVIOUS
<1>2. PICK kept : kept = (blocks[n] \cup {b}) \ Losers(blocks[n] \cup {b}, chain, N)
  OBVIOUS
<1>3. PICK stop : stop = SatSub(Len(chain), N)
  OBVIOUS
<1>4. PICK k, done : k = commited_pointer[n] /\ done = executed[n]
  OBVIOUS
<1>5. /\ longest_chain' = [longest_chain EXCEPT ![n] = chain]
      /\ blocks' = [blocks EXCEPT ![n] = kept]
      /\ executed' = [executed EXCEPT ![n] = done \o SubSeq(chain, k + 1, stop)]
      /\ commited_pointer' = [commited_pointer EXCEPT ![n] = k + SatSub(stop, k)]
  BY <1>1, <1>2, <1>3, <1>4 DEF PushAndFix
<1>6. /\ StoresTyped /\ StoreInv(n) /\ b \in Path /\ blocks[n] \in SUBSET Path
  BY DEF StoresInv, StoresTyped, Fresh
<1>7. PICK bs : bs = blocks[n]
  OBVIOUS
<1>8. Pushed(bs, b, chain, kept)
  <2>1. ParentClosed(bs) /\ (bs = {} \/ \E m : Best(m, bs))
    BY <1>6, <1>7 DEF StoreInv, ParentClosed, Best
  <2>2. ParentClosed(bs \cup {b})
    BY <1>7, <2>1 DEF ParentClosed, Fresh, HasPreviousBlock
  <2> QED BY <1>1, <1>2, <1>6, <1>7, <2>1, <2>2 DEF Pushed
<1>9. Settled(bs, longest_chain[n], k, done)
  BY <1>4, <1>7 DEF SettledInv
<1>10. Settled(kept, chain, k + SatSub(stop, k), done \o SubSeq(chain, k + 1, stop))
  BY <1>3, <1>8, <1>9, PushSettles
<1>11. ASSUME NEW p \in Node
       PROVE  Settled(blocks'[p], longest_chain'[p], commited_pointer'[p], executed'[p])
  <2>1. CASE p = n
    <3>1. /\ blocks'[p] = kept /\ longest_chain'[p] = chain
          /\ commited_pointer'[p] = k + SatSub(stop, k)
          /\ executed'[p] = done \o SubSeq(chain, k + 1, stop)
      BY <1>5, <1>6, <2>1 DEF StoresTyped
    <3> QED BY <1>10, <3>1
  <2>2. CASE p # n
    <3>1. /\ blocks'[p] = blocks[p] /\ longest_chain'[p] = longest_chain[p]
          /\ commited_pointer'[p] = commited_pointer[p] /\ executed'[p] = executed[p]
      BY <1>5, <1>6, <2>2 DEF StoresTyped
    <3> QED BY <3>1 DEF SettledInv
  <2> QED BY <2>1, <2>2
<1> QED BY <1>11 DEF SettledInv, Settled, Best, Path

(* A step changes no store, or pushes a fresh block at one node. *)
LEMMA StepPushesFresh ==
  ASSUME IInv, [Next]_vars
  PROVE  UNCHANGED tree \/ \E n \in Node : \E b : Fresh(n, b) /\ PushAndFix(n, b)
<1>1. StoresInv
  BY DEF IInv
<1>2. ASSUME NEW n \in Node, NEW b \in Known, AcceptBlockResult(n, b) = "Ok"
      PROVE  Fresh(n, b)
  BY <1>1, <1>2, AcceptedIsFresh
<1>3. ASSUME NEW n \in Node, NEW h \in Hash, Mine(n, h)
      PROVE  \E b : Fresh(n, b) /\ PushAndFix(n, b)
  <2>1. PICK b : b = Append(longest_chain[n], h)
    OBVIOUS
  <2>2. h \in Hash \ UsedHashes /\ RootOf(b) \in Root /\ PushAndFix(n, b)
    BY <1>3, <2>1 DEF Mine
  <2> QED BY <1>1, <2>1, <2>2, MinedIsFresh
<1>4. ASSUME NEW n \in Node, Hear(n)
      PROVE  UNCHANGED tree \/ \E b : Fresh(n, b) /\ PushAndFix(n, b)
  <2>1. PICK m \in net :
          \/ m.block \in Known /\ PushAndFix(n, m.block)
             /\ AcceptBlockResult(n, m.block) = "Ok"
          \/ UNCHANGED tree
    BY <1>4 DEF Hear, GossipArrives, Receives, IInv, MessageInv
  <2> QED BY <1>2, <2>1
<1>5. ASSUME NEW n \in Node, GoOn(n)
      PROVE  UNCHANGED tree \/ \E b : Fresh(n, b) /\ PushAndFix(n, b)
  <2>1. CASE SendBlocks(n)
    BY <2>1 DEF SendBlocks
  <2>2. CASE AcceptRequested(n)
    <3>1. PICK b \in NextBlocks(batch[n]) :
            IF AcceptBlockResult(n, b) = "Ok" THEN PushAndFix(n, b) ELSE UNCHANGED tree
      BY <2>2 DEF AcceptRequested
    <3>2. b \in Known
      BY NextHasParent DEF IInv
    <3> QED BY <1>2, <3>1, <3>2
  <2> QED BY <1>5, <2>1, <2>2 DEF GoOn
<1>6. ASSUME NEW n \in Node, Ask(n) \/ Serve(n) \/ Send(n) \/ PublishFails(n)
      PROVE  UNCHANGED tree
  BY <1>6 DEF Ask, Sync, HashesArrive, BlocksArrive, Serve, ServeHashes,
     ServeBlocks, Send, Publish, PublishFails
<1>7. ASSUME NEW m \in net, Lose(m) PROVE UNCHANGED tree
  BY <1>7 DEF Lose
<1>8. UNCHANGED vars => UNCHANGED tree
  BY DEF vars
<1> QED BY <1>3, <1>4, <1>5, <1>6, <1>7, <1>8 DEF Next

(* In the beginning nothing is stored and nothing was executed. *)
LEMMA InitSettled == Init => SettledInv
<1> SUFFICES ASSUME Init, NEW n \in Node
             PROVE  Settled(blocks[n], longest_chain[n], commited_pointer[n], executed[n])
  BY DEF SettledInv
<1>1. /\ blocks[n] = {} /\ longest_chain[n] = <<>> /\ commited_pointer[n] = 0
      /\ executed[n] = <<>>
  BY DEF Init
<1>2. SatSub(0, N) = 0
  BY StoreAssumption DEF SatSub, N
<1>3. SubSeq(<<>>, 1, 0) = <<>> /\ Len(<<>>) = 0
  BY SubSeqEmpty, EmptySeq
<1> QED BY <1>1, <1>2, <1>3 DEF Settled, Losers

LEMMA SettledInvariance ==
  ASSUME NEW CONSTANT r, Root = {r}
  PROVE  Spec => [](IInv /\ SettledInv)
<1>1. IInv /\ SettledInv /\ [Next]_vars => SettledInv'
  <2> SUFFICES ASSUME IInv, SettledInv, [Next]_vars PROVE SettledInv'
    OBVIOUS
  <2>1. CASE UNCHANGED tree
    BY <2>1 DEF tree, SettledInv
  <2>2. ASSUME NEW n \in Node, NEW b, Fresh(n, b), PushAndFix(n, b)
        PROVE  SettledInv'
    BY <2>2, PushKeepsSettled DEF IInv
  <2> QED BY <2>1, <2>2, StepPushesFresh
<1> QED BY <1>1, InitIInv, NextIInv, InitSettled, PTL DEF Spec

-----------------------------------------------------------------------------
(* Theorems *)

(* What nodes mine, publish, ask for and answer (vm.rs, runtime.rs,        *)
(* behaviour.rs) stays within the blocks some node knows, whose hashes do  *)
(* not collide.                                                            *)
THEOREM Invariance == Spec => []IInv
BY InitIInv, NextIInv, PTL DEF Spec

(* The stores are well-typed, and every block on its way is known.         *)
THEOREM TypeCorrectness == Spec => []TypeOK
<1>1. IInv => TypeOK
  BY DEF IInv
<1> QED BY <1>1, Invariance, PTL

(* accept_block_from_r_r() never gets a block of a response before its     *)
(* parent, unless the node has pruned the branch: for any number of nodes, *)
(* with lost and reordered messages, and although the peer may reorganise  *)
(* between its answers, and between the two reads of one.                  *)
THEOREM RepliesHaveNoOrphans == Spec => []NoOrphanInReply
<1>1. IInv => NoOrphanInReply
  BY NextHasParent DEF IInv, NoOrphanInReply
<1> QED BY <1>1, Invariance, PTL

(* Whatever messages it gets, in whichever order, and whatever it mines    *)
(* meanwhile, the store of any node (Observed is any of them) goes through *)
(* the steps of BlockTree: what is proved of that module holds of a node   *)
(* of a network.                                                           *)
THEOREM StoresImplementBlockTree == Spec => ImplementsStore
<1>1. Init => Store!Init
  BY PeersAssumption DEF Init, Store!Init
<1>2. IInv /\ [Next]_vars => [Store!Next]_Store!vars
  <2> SUFFICES ASSUME IInv, [Next]_vars PROVE [Store!Next]_Store!vars
    OBVIOUS
  <2>1. StoresInv /\ StoresTyped
    BY DEF IInv, StoresInv
  <2>2. ASSUME NEW n \in Node, NEW b \in Known, PushAndFix(n, b),
               AcceptBlockResult(n, b) = "Ok"
        PROVE  [Store!Next]_Store!vars
    <3>1. b \in Path
      BY <2>1, KnownPaths
    <3>2. CASE n = Observed
      BY <2>1, <2>2, <3>2, StoreAccepts
    <3>3. CASE n # Observed
      BY <2>1, <2>2, <3>1, <3>3, StoreStutters
    <3> QED BY <3>2, <3>3
  <2>3. ASSUME NEW n \in Node, NEW h \in Hash, Mine(n, h)
        PROVE  [Store!Next]_Store!vars
    <3>1. CASE n = Observed
      BY <2>1, <2>3, <3>1, StoreMines DEF Store!Next
    <3>2. CASE n # Observed
      <4>1. PICK b : b = Append(longest_chain[n], h)
        OBVIOUS
      <4>2. h \in Hash \ UsedHashes /\ RootOf(b) \in Root /\ PushAndFix(n, b)
        BY <2>3, <4>1 DEF Mine
      <4>3. Fresh(n, b)
        BY <2>1, <4>1, <4>2, MinedIsFresh
      <4>4. b \in Path
        BY <4>3 DEF Fresh
      <4> QED BY <2>1, <3>2, <4>2, <4>4, StoreStutters
    <3> QED BY <3>1, <3>2
  <2>4. ASSUME NEW n \in Node, Hear(n) PROVE [Store!Next]_Store!vars
    <3>1. PICK m \in net :
            \/ m.block \in Known /\ PushAndFix(n, m.block)
               /\ AcceptBlockResult(n, m.block) = "Ok"
            \/ UNCHANGED tree
      BY <2>4 DEF Hear, GossipArrives, Receives, IInv, MessageInv
    <3> QED BY <2>1, <2>2, <3>1, StoreStutters
  <2>5. ASSUME NEW n \in Node, GoOn(n) PROVE [Store!Next]_Store!vars
    <3>1. CASE SendBlocks(n)
      <4>1. UNCHANGED tree
        BY <3>1 DEF SendBlocks
      <4> QED BY <2>1, <4>1, StoreStutters
    <3>2. CASE AcceptRequested(n)
      <4>1. PICK b \in NextBlocks(batch[n]) :
              IF AcceptBlockResult(n, b) = "Ok" THEN PushAndFix(n, b) ELSE UNCHANGED tree
        BY <3>2 DEF AcceptRequested
      <4>2. b \in Known
        BY NextHasParent DEF IInv
      <4> QED BY <2>1, <2>2, <4>1, <4>2, StoreStutters
    <3> QED BY <2>5, <3>1, <3>2 DEF GoOn
  <2>6. CASE UNCHANGED tree
    BY <2>1, <2>6, StoreStutters
  <2>7. ASSUME NEW n \in Node, Ask(n) \/ Serve(n) \/ Send(n) \/ PublishFails(n)
        PROVE  UNCHANGED tree
    BY <2>7 DEF Ask, Sync, HashesArrive, BlocksArrive, Serve, ServeHashes,
       ServeBlocks, Send, Publish, PublishFails
  <2>8. ASSUME NEW m \in net, Lose(m) PROVE UNCHANGED tree
    BY <2>8 DEF Lose
  <2>9. UNCHANGED vars => UNCHANGED tree
    BY DEF vars
  <2> QED BY <2>3, <2>4, <2>5, <2>6, <2>7, <2>8, <2>9 DEF Next
<1> QED BY <1>1, <1>2, Invariance, PTL DEF Spec, ImplementsStore, Store!Spec

(* With one root, a node that stores the block another's chain ends in has *)
(* executed all that the other has, in the same order, whatever forks each *)
(* of them has seen: prune() and the depth of execution of fix() keep the  *)
(* histories of the nodes together.                                        *)
THEOREM HistoriesAgree ==
  ASSUME NEW CONSTANT r, Root = {r}
  PROVE  Spec => []SameHistory
<1>1. SettledInv => SameHistory
  <2> SUFFICES ASSUME SettledInv, NEW n \in Node, NEW p \in Node,
                      longest_chain[n] \in blocks[p]
               PROVE  IsPrefix(executed[n], executed[p])
    BY DEF SameHistory
  <2>1. PICK c, k, done :
          /\ c = longest_chain[n] /\ k = commited_pointer[n] /\ done = executed[n]
          /\ Settled(blocks[n], c, k, done)
    BY DEF SettledInv
  <2>2. PICK bs, d, l, log :
          /\ bs = blocks[p] /\ d = longest_chain[p] /\ log = executed[p]
          /\ Settled(bs, d, l, log)
    BY DEF SettledInv
  <2>3. /\ Len(c) \in Nat /\ N \in Nat \ {0} /\ k \in 0 .. Len(c)
        /\ Len(c) > N => k = Len(c) - N
        /\ Len(c) <= N => k = 0
        /\ done \in Seq(Hash) /\ Len(done) = k
        /\ \A i \in 1 .. k : done[i] = c[i]
    BY <2>1, SettledFacts
  <2>4. /\ Len(d) \in Nat /\ l \in 0 .. Len(d)
        /\ Len(d) > N => l = Len(d) - N
        /\ log \in Seq(Hash) /\ Len(log) = l
        /\ \A i \in 1 .. l : log[i] = d[i]
    BY <2>2, SettledFacts
  <2>5. Len(d) >= Len(c)
    <3>1. c \in bs
      BY <2>1, <2>2
    <3>2. Beats(d, c)
      BY <2>2, <3>1 DEF Settled, Best
    <3> QED BY <2>3, <2>4, <3>2 DEF Beats
  <2>6. k <= l
    BY <2>3, <2>4, <2>5
  <2>7. ASSUME NEW i \in 1 .. k PROVE done[i] = log[i]
    <3>1. c \in bs /\ i \in 1 .. l /\ i <= Len(c)
      BY <2>1, <2>2, <2>3, <2>4, <2>6
    <3>2. c[i] = d[i]
      <4>1. Settled(bs, d, l, log) /\ c \in bs
        BY <2>2, <3>1
      <4>2. \A j \in 1 .. l : j <= Len(c) => c[j] = d[j]
        BY <4>1, StoredAgrees
      <4> QED BY <3>1, <4>2
    <3> QED BY <2>3, <2>4, <3>1, <3>2
  <2>8. SubSeq(done, 1, k) = SubSeq(log, 1, k)
    <3>1. k \in Nat /\ k <= Len(done) /\ k <= Len(log)
      BY <2>3, <2>4, <2>6
    <3> QED BY <2>3, <2>4, <2>7, <3>1, Lemmas!CommonPrefix, StoreAssumption
  <2>9. IsPrefix(done, log)
    BY <2>3, <2>4, <2>6, <2>8 DEF IsPrefix
  <2> QED BY <2>1, <2>2, <2>9
<1> QED BY <1>1, SettledInvariance, PTL
=============================================================================
