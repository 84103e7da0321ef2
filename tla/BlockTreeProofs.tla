--------------------------- MODULE BlockTreeProofs --------------------------
(***************************************************************************)
(* Proofs about BlockTree, for every set of hashes, every set of roots and *)
(* every positive EXECUTE_AFTER_N_BLOCKS.                                  *)
(***************************************************************************)
EXTENDS BlockTree, SequenceTheorems, WellFoundedInduction, TLAPS

-----------------------------------------------------------------------------
(* Prefixes *)

(* A prefix of a sequence, element by element. *)
LEMMA PrefixElements ==
  ASSUME NEW S, NEW s \in Seq(S), NEW k \in 0 .. Len(s)
  PROVE  /\ SubSeq(s, 1, k) \in Seq(S)
         /\ Len(SubSeq(s, 1, k)) = k
         /\ \A i \in 1 .. k : SubSeq(s, 1, k)[i] = s[i]
<1>1. Len(s) \in Nat /\ \A i \in 1 .. Len(s) : s[i] \in S
  BY LenProperties, ElementOfSeq
<1>2. k \in Int /\ 1 \in Int /\ \A i \in 1 .. k : s[i] \in S
  BY <1>1
<1>3. /\ SubSeq(s, 1, k) \in Seq(S)
      /\ Len(SubSeq(s, 1, k)) = IF 1 <= k THEN k - 1 + 1 ELSE 0
      /\ \A i \in 1 .. k - 1 + 1 : SubSeq(s, 1, k)[i] = s[1 + i - 1]
  BY <1>2, SubSeqProperties
<1> QED BY <1>1, <1>3

(* Two sequences have a prefix in common exactly when they agree on it. *)
LEMMA CommonPrefix ==
  ASSUME NEW S, NEW a \in Seq(S), NEW b \in Seq(S),
         NEW k \in Nat, k <= Len(a), k <= Len(b)
  PROVE  SubSeq(a, 1, k) = SubSeq(b, 1, k) <=> \A i \in 1 .. k : a[i] = b[i]
<1>1. /\ SubSeq(a, 1, k) \in Seq(S) /\ Len(SubSeq(a, 1, k)) = k
      /\ \A i \in 1 .. k : SubSeq(a, 1, k)[i] = a[i]
  BY PrefixElements, LenProperties
<1>2. /\ SubSeq(b, 1, k) \in Seq(S) /\ Len(SubSeq(b, 1, k)) = k
      /\ \A i \in 1 .. k : SubSeq(b, 1, k)[i] = b[i]
  BY PrefixElements, LenProperties
<1>3. ASSUME \A i \in 1 .. k : a[i] = b[i]
      PROVE  SubSeq(a, 1, k) = SubSeq(b, 1, k)
  BY <1>1, <1>2, <1>3, SeqEqual
<1>4. ASSUME SubSeq(a, 1, k) = SubSeq(b, 1, k), NEW i \in 1 .. k
      PROVE  a[i] = b[i]
  BY <1>1, <1>2, <1>4
<1> QED BY <1>3, <1>4

(* A sequence is the front of the sequence it is extended to. *)
LEMMA FrontOfAppend ==
  ASSUME NEW S, NEW s \in Seq(S), NEW e \in S
  PROVE  /\ Front(Append(s, e)) = s
         /\ Last(Append(s, e)) = e
<1> DEFINE t == Append(s, e)
<1>1. /\ t \in Seq(S) /\ Len(s) \in Nat /\ Len(t) = Len(s) + 1
      /\ \A i \in 1 .. Len(s) : t[i] = s[i]
      /\ t[Len(s) + 1] = e
  BY AppendProperties, LenProperties
<1> HIDE DEF t
<1>2. Len(s) \in 0 .. Len(t) /\ Len(t) - 1 = Len(s)
  BY <1>1
<1>3. /\ SubSeq(t, 1, Len(s)) \in Seq(S)
      /\ Len(SubSeq(t, 1, Len(s))) = Len(s)
      /\ \A i \in 1 .. Len(s) : SubSeq(t, 1, Len(s))[i] = t[i]
  BY <1>1, <1>2, PrefixElements
<1>4. SubSeq(t, 1, Len(s)) = s
  BY <1>1, <1>3, SeqEqual
<1>5. Front(t) = s /\ Last(t) = e
  BY <1>1, <1>2, <1>4 DEF Front, Last
<1> QED BY <1>5 DEF t

(* A set of natural numbers that is not empty has a least element. *)
LEMMA LeastElement ==
  ASSUME NEW D, D \subseteq Nat, D # {}
  PROVE  \E j \in D : \A i \in D : j <= i
<1> DEFINE R == OpToRel(<, Nat)
<1>1. IsWellFoundedOn(R, Nat)
  BY NatLessThanWellFounded
<1>2. \A i, j \in Nat : i < j => <<i, j>> \in R
  BY Zenon DEF OpToRel
<1> HIDE DEF R
<1>3. PICK j \in D : \A i \in D : <<i, j>> \notin R
  BY <1>1, WFMin, Zenon
<1>4. \A i \in D : ~(i < j)
  BY <1>2, <1>3, Zenon
<1> QED BY <1>4

(* Sequences that differ somewhere up to m have a first difference. *)
LEMMA FirstDifference ==
  ASSUME NEW a, NEW b, NEW m \in Nat, NEW d \in 1 .. m, a[d] # b[d]
  PROVE  \E k \in 0 .. m - 1 : /\ \A i \in 1 .. k : a[i] = b[i]
                               /\ a[k + 1] # b[k + 1]
<1> DEFINE D == {i \in 1 .. m : a[i] # b[i]}
<1>1. D \subseteq Nat /\ D # {}
  OBVIOUS
<1>2. PICK j \in D : \A i \in D : j <= i
  BY <1>1, LeastElement
<1>3. \A i \in 1 .. j - 1 : a[i] = b[i]
  BY <1>2
<1> QED BY <1>3

-----------------------------------------------------------------------------
(* The order on branches *)

(* A block is a sequence that is not empty, and its hash is a number. *)
LEMMA PathFacts ==
  ASSUME NEW b \in Path
  PROVE  /\ b \in Seq(Hash) /\ b # <<>>
         /\ Len(b) \in Nat /\ Len(b) >= 1
         /\ \A i \in 1 .. Len(b) : b[i] \in Hash
         /\ BlockHash(b) = b[Len(b)] /\ BlockHash(b) \in Nat
         /\ RootOf(b) = b[1] /\ b[1] \in Root
<1>1. b \in Seq(Hash) /\ b # <<>> /\ Head(b) \in Root
  BY DEF Path, RootOf
<1>2. Len(b) \in Nat /\ Len(b) >= 1
  BY <1>1, EmptySeq
<1>3. \A i \in 1 .. Len(b) : b[i] \in Hash
  BY <1>1, ElementOfSeq
<1>4. Head(b) = b[1]
  BY <1>1, <1>2
<1>5. BlockHash(b) = b[Len(b)]
  BY DEF BlockHash, Last
<1>7. b[Len(b)] \in Nat
  <2>1. b[Len(b)] \in Hash
    BY <1>2, <1>3
  <2> QED BY <2>1, HashAssumption
<1>6. RootOf(b) = b[1] /\ b[1] \in Root
  BY <1>1, <1>4 DEF RootOf
<1> QED BY <1>1, <1>2, <1>3, <1>5, <1>6, <1>7

(* Of two branches one beats the other, and beating is transitive. *)
LEMMA BeatsOrder ==
  ASSUME NEW a \in Path, NEW b \in Path, NEW c \in Path
  PROVE  /\ Beats(a, b) \/ Beats(b, a)
         /\ Beats(a, b) /\ Beats(b, c) => Beats(a, c)
         /\ Beats(a, b) => Len(a) >= Len(b)
         /\ Beats(a, b) /\ Beats(b, a) =>
              Len(a) = Len(b) /\ BlockHash(a) = BlockHash(b)
BY PathFacts DEF Beats

(* Adding a block to a set that has a best branch, or to no block at all, *)
(* leaves a set with a best branch, and LongestBranch returns it.         *)
LEMMA BestAfterPush ==
  ASSUME NEW bs \in SUBSET Path, NEW b \in Path,
         bs = {} \/ \E m \in bs : \A c \in bs : Beats(m, c)
  PROVE  /\ LongestBranch(bs \cup {b}) \in bs \cup {b}
         /\ \A c \in bs \cup {b} : Beats(LongestBranch(bs \cup {b}), c)
<1> DEFINE stored == bs \cup {b}
<1>1. \E w \in stored : \A c \in stored : Beats(w, c)
  <2>1. CASE bs = {}
    BY <2>1, BeatsOrder
  <2>2. ASSUME NEW m \in bs, \A c \in bs : Beats(m, c)
        PROVE  \E w \in stored : \A c \in stored : Beats(w, c)
    <3>1. CASE Beats(m, b)
      BY <2>2, <3>1
    <3>2. CASE Beats(b, m)
      <4>1. \A c \in bs : Beats(b, c)
        BY <2>2, <3>2, BeatsOrder
      <4>2. Beats(b, b)
        BY BeatsOrder
      <4> QED BY <4>1, <4>2
    <3> QED BY <3>1, <3>2, BeatsOrder
  <2> QED BY <2>1, <2>2
<1>2. LongestBranch(stored) = CHOOSE w \in stored : \A c \in stored : Beats(w, c)
  BY DEF LongestBranch
<1> HIDE DEF stored
<1> QED BY <1>1, <1>2 DEF stored

(* Where hashes are unique, LongestBranch is the only best branch. *)
LEMMA BestIsUnique ==
  ASSUME NEW bs \in SUBSET Path, NEW m \in bs, \A c \in bs : Beats(m, c),
         \A a, c \in bs : BlockHash(a) = BlockHash(c) => a = c
  PROVE  LongestBranch(bs) = m
<1> DEFINE w == LongestBranch(bs)
<1>1. w \in bs /\ \A c \in bs : Beats(w, c)
  BY DEF LongestBranch
<1>2. Beats(w, m) /\ Beats(m, w)
  BY <1>1
<1> QED BY <1>1, <1>2, BeatsOrder

-----------------------------------------------------------------------------
(* The inductive invariant *)

(* What the guards of both actions say of the block they push. *)
Fresh(b) ==
  /\ b \in Path
  /\ b \notin blocks \cup pruned
  /\ \A c \in blocks \cup pruned : BlockHash(c) # BlockHash(b)
  /\ HasPreviousBlock(b)

(* The chain that `fix` chooses when b is pushed. *)
NewChain(b) == LongestBranch(blocks \cup {b})

(* The chain chosen is the best of the blocks stored, b included; it is no *)
(* shorter than the one before, and prune() does not touch it.             *)
LEMMA NewChainFacts ==
  ASSUME TypeOK, ChainIsBest, NEW b, Fresh(b)
  PROVE  /\ NewChain(b) \in blocks \cup {b}
         /\ NewChain(b) \in Path
         /\ \A c \in blocks \cup {b} : Beats(NewChain(b), c)
         /\ Len(longest_chain) \in Nat
         /\ Len(NewChain(b)) >= Len(longest_chain)
         /\ NewChain(b) \notin Losers(blocks \cup {b}, NewChain(b), N)
<1>1. blocks \in SUBSET Path /\ b \in Path
  BY DEF TypeOK, Fresh
<1>2. blocks = {} \/ \E m \in blocks : \A c \in blocks : Beats(m, c)
  BY DEF ChainIsBest
<1>3. /\ NewChain(b) \in blocks \cup {b}
      /\ \A c \in blocks \cup {b} : Beats(NewChain(b), c)
  BY <1>1, <1>2, BestAfterPush DEF NewChain
<1>4. NewChain(b) \in Path
  BY <1>1, <1>3
<1>5. Len(longest_chain) \in Nat /\ Len(NewChain(b)) >= Len(longest_chain)
  <2>1. CASE longest_chain = <<>>
    BY <2>1, <1>4, PathFacts, EmptySeq
  <2>2. CASE longest_chain \in blocks
    <3>1. Beats(NewChain(b), longest_chain) /\ longest_chain \in Path
      BY <2>2, <1>1, <1>3
    <3> QED BY <3>1, <1>4, BeatsOrder, PathFacts
  <2> QED BY <2>1, <2>2 DEF ChainIsBest
<1>6. NewChain(b) \notin Losers(blocks \cup {b}, NewChain(b), N)
  BY DEF Losers, ForksAfter
<1> QED BY <1>3, <1>4, <1>5, <1>6

(* Saturating subtraction is subtraction where that is possible. *)
LEMMA SatSubFacts ==
  ASSUME NEW m \in Nat, NEW n \in Nat
  PROVE  /\ SatSub(m, n) \in Nat
         /\ SatSub(m, n) <= m
         /\ m >= n => SatSub(m, n) = m - n
         /\ m <= n => SatSub(m, n) = 0
BY DEF SatSub

(* The pointer ends at the confirmed part of the chain chosen, and the     *)
(* history has grown by the blocks in between.                             *)
LEMMA ExecuteFacts ==
  ASSUME TypeOK, NEW chain \in Seq(Hash), Len(chain) >= Len(longest_chain),
         commited_pointer = SatSub(Len(longest_chain), N),
         Len(executed) = commited_pointer,
         ExecuteTransactions(chain)
  PROVE  /\ commited_pointer' = SatSub(Len(chain), N)
         /\ commited_pointer' \in Nat
         /\ executed' \in Seq(Hash)
         /\ Len(executed') = commited_pointer'
         /\ \A i \in 1 .. commited_pointer' :
              executed'[i] = IF i <= commited_pointer THEN executed[i]
                                                      ELSE chain[i]
<1>1. /\ Len(chain) \in Nat /\ Len(longest_chain) \in Nat
      /\ N \in Nat /\ commited_pointer \in Nat
      /\ executed \in Seq(Hash)
  BY LenProperties, DepthAssumption DEF TypeOK, N
<1>2. PICK stop : stop = SatSub(Len(chain), N)
  OBVIOUS
<1>3. stop \in Nat /\ stop >= commited_pointer /\ stop <= Len(chain)
  <2>1. stop \in Nat /\ stop <= Len(chain)
    BY <1>1, <1>2, SatSubFacts
  <2>2. CASE Len(longest_chain) >= N
    <3>1. commited_pointer = Len(longest_chain) - N
      BY <1>1, <2>2, SatSubFacts
    <3>2. stop = Len(chain) - N
      BY <1>1, <1>2, <2>2, SatSubFacts
    <3> QED BY <1>1, <2>1, <3>1, <3>2
  <2>3. CASE Len(longest_chain) <= N
    <3>1. commited_pointer = 0
      BY <1>1, <2>3, SatSubFacts
    <3> QED BY <2>1, <3>1
  <2> QED BY <1>1, <2>2, <2>3
<1>4. commited_pointer' = stop
  <2>1. commited_pointer' = commited_pointer + SatSub(stop, commited_pointer)
    BY <1>2 DEF ExecuteTransactions
  <2>2. SatSub(stop, commited_pointer) = stop - commited_pointer
    BY <1>1, <1>3, SatSubFacts
  <2> QED BY <2>1, <2>2, <1>1, <1>3
<1>5. PICK run : run = SubSeq(chain, commited_pointer + 1, stop)
  OBVIOUS
<1>6. /\ run \in Seq(Hash)
      /\ Len(run) = stop - commited_pointer
      /\ \A i \in 1 .. stop - commited_pointer :
           run[i] = chain[commited_pointer + i]
  <2>1. \A i \in commited_pointer + 1 .. stop : chain[i] \in Hash
    BY <1>1, <1>3, ElementOfSeq
  <2>2. commited_pointer + 1 \in Int /\ stop \in Int
    BY <1>1, <1>3
  <2>3. /\ run \in Seq(Hash)
        /\ Len(run) = IF commited_pointer + 1 <= stop
                      THEN stop - (commited_pointer + 1) + 1 ELSE 0
        /\ \A i \in 1 .. stop - (commited_pointer + 1) + 1 :
             run[i] = chain[commited_pointer + 1 + i - 1]
    BY <1>5, <2>1, <2>2, SubSeqProperties
  <2> QED BY <2>3, <1>1, <1>3
<1>7. executed' = executed \o run
  BY <1>2, <1>5 DEF ExecuteTransactions
<1>8. /\ executed' \in Seq(Hash)
      /\ Len(executed') = Len(executed) + Len(run)
      /\ \A i \in 1 .. Len(executed) + Len(run) :
           executed'[i] = IF i <= Len(executed) THEN executed[i]
                                                ELSE run[i - Len(executed)]
  BY <1>1, <1>6, <1>7, ConcatProperties
<1>9. ASSUME NEW i \in 1 .. stop
      PROVE  executed'[i] = IF i <= commited_pointer THEN executed[i]
                                                     ELSE chain[i]
  <2>1. CASE i <= commited_pointer
    BY <1>1, <1>3, <1>6, <1>8, <2>1
  <2>2. CASE i > commited_pointer
    <3>1. /\ i - commited_pointer \in 1 .. stop - commited_pointer
          /\ commited_pointer + (i - commited_pointer) = i
          /\ ~(i <= commited_pointer)
      BY <1>1, <1>3, <2>2
    <3>2. run[i - commited_pointer] = chain[i]
      BY <1>6, <3>1
    <3>3. i \in 1 .. Len(executed) + Len(run)
      BY <1>1, <1>3, <1>6
    <3>4. executed'[i] = run[i - commited_pointer]
      BY <1>8, <3>1, <3>3
    <3> QED BY <3>1, <3>2, <3>4
  <2> QED BY <1>1, <1>3, <2>1, <2>2
<1> QED BY <1>1, <1>2, <1>3, <1>4, <1>6, <1>8, <1>9

(* A descendant of a block that prune() removes is removed as well. *)
LEMMA LosersTakeDescendants ==
  ASSUME NEW bs \in SUBSET Path, NEW chain \in Path, NEW c \in bs,
         Front(c) \in Losers(bs, chain, N)
  PROVE  c \in Losers(bs, chain, N)
<1> DEFINE f == Front(c)
<1>1. /\ c \in Seq(Hash) /\ Len(c) \in Nat /\ Len(c) >= 1
      /\ chain \in Seq(Hash) /\ Len(chain) \in Nat /\ N \in Nat \ {0}
  BY PathFacts, DepthAssumption DEF N
<1>2. PICK k \in 1 .. Len(chain) - N : ForksAfter(f, chain, k)
  BY DEF Losers
<1>3. /\ f = SubSeq(c, 1, Len(c) - 1) /\ Len(c) - 1 \in 0 .. Len(c)
  BY <1>1 DEF Front
<1>4. /\ f \in Seq(Hash) /\ Len(f) = Len(c) - 1
      /\ \A i \in 1 .. Len(c) - 1 : f[i] = c[i]
  BY <1>1, <1>3, PrefixElements
<1> HIDE DEF f
<1>5. /\ k \in Nat /\ k + 1 \in 1 .. Len(c) - 1
      /\ k <= Len(f) /\ k <= Len(c) /\ k <= Len(chain)
  BY <1>1, <1>2, <1>4 DEF ForksAfter
<1>6. \A i \in 1 .. k : f[i] = chain[i]
  BY <1>1, <1>2, <1>4, <1>5, CommonPrefix DEF ForksAfter
<1>7. \A i \in 1 .. k : c[i] = chain[i]
  BY <1>4, <1>5, <1>6
<1>8. SubSeq(c, 1, k) = SubSeq(chain, 1, k)
  BY <1>1, <1>5, <1>7, CommonPrefix
<1>9. c[k + 1] # chain[k + 1]
  BY <1>2, <1>4, <1>5 DEF ForksAfter
<1>10. Len(c) > k
  BY <1>1, <1>5
<1>11. ForksAfter(c, chain, k)
  BY <1>8, <1>9, <1>10 DEF ForksAfter
<1> QED BY <1>2, <1>11 DEF Losers

(* Pushing a fresh block and fixing the chain preserves the invariant. *)
LEMMA PushPreservesIInv ==
  ASSUME IInv, NEW b, Fresh(b), PushAndFix(b)
  PROVE  IInv'
<1> DEFINE stored == blocks \cup {b}
           chain  == NewChain(b)
           losers == Losers(stored, chain, N)
<1>1. /\ longest_chain' = chain
      /\ blocks' = stored \ losers
      /\ pruned' = pruned \cup losers
      /\ ExecuteTransactions(chain)
  BY DEF PushAndFix, NewChain
<1>2. /\ chain \in stored /\ chain \in Path /\ chain \notin losers
      /\ \A c \in stored : Beats(chain, c)
      /\ Len(chain) >= Len(longest_chain)
  BY NewChainFacts DEF IInv
<1>3. stored \in SUBSET Path /\ losers \subseteq stored
  BY DEF IInv, TypeOK, Fresh, Losers
<1>4. /\ commited_pointer' = SatSub(Len(chain), N)
      /\ commited_pointer' \in Nat
      /\ executed' \in Seq(Hash)
      /\ Len(executed') = commited_pointer'
  <2>1. chain \in Seq(Hash)
    BY <1>2, PathFacts
  <2> QED BY <1>1, <1>2, <2>1, ExecuteFacts DEF IInv, FixIsIdempotent
<1>5. TypeOK'
  <2>1. chain \in Seq(Hash)
    BY <1>2, PathFacts
  <2> QED BY <1>1, <1>3, <1>4, <2>1 DEF IInv, TypeOK
<1>6. AncestorsStored'
  <2> SUFFICES ASSUME NEW c \in blocks', Front(c) # <<>>
               PROVE  Front(c) \in blocks'
    BY DEF AncestorsStored, HasPreviousBlock
  <2>1. Front(c) \in blocks
    BY <1>1 DEF IInv, AncestorsStored, HasPreviousBlock, Fresh
  <2>2. Front(c) \notin losers
    BY <1>1, <1>2, <1>3, LosersTakeDescendants
  <2> QED BY <1>1, <2>1, <2>2
<1>7. PrunedStayOut'
  BY <1>1 DEF IInv, PrunedStayOut, Fresh
<1>8. ChainIsBest'
  BY <1>1, <1>2 DEF ChainIsBest
<1>9. HashesUnique'
  <2>1. \A a, c \in blocks \cup pruned \cup {b} :
          BlockHash(a) = BlockHash(c) => a = c
    BY DEF IInv, HashesUnique, Fresh
  <2>2. blocks' \cup pruned' \subseteq blocks \cup pruned \cup {b}
    BY <1>1, <1>3
  <2> QED BY <2>1, <2>2 DEF HashesUnique
<1>10. FixIsIdempotent'
  <2>1. longest_chain' = LongestBranch(blocks')
    <3>1. /\ blocks' \in SUBSET Path /\ chain \in blocks'
          /\ \A c \in blocks' : Beats(chain, c)
      BY <1>1, <1>2, <1>3
    <3>2. \A a, c \in blocks' : BlockHash(a) = BlockHash(c) => a = c
      BY <1>9 DEF HashesUnique
    <3> QED BY <1>1, <3>1, <3>2, BestIsUnique
  <2>2. Losers(blocks', longest_chain', N) = {}
    BY <1>1 DEF Losers
  <2> QED BY <1>1, <1>4, <2>1, <2>2 DEF FixIsIdempotent, N
<1> QED BY <1>4, <1>5, <1>6, <1>7, <1>8, <1>9, <1>10 DEF IInv

(* A block that is accepted is fresh. *)
LEMMA AcceptPushesFresh ==
  ASSUME NEW b \in Offered, NEW valid, AcceptBlock(b, valid)
  PROVE  Fresh(b) /\ PushAndFix(b)
<1>1. b \notin blocks /\ b \notin pruned /\ HasPreviousBlock(b)
  BY Zenon DEF AcceptBlock, AcceptBlockResult
<1>2. b \in Path /\ \A c \in blocks \cup pruned : BlockHash(c) # BlockHash(b)
  BY <1>1 DEF Offered
<1> QED BY <1>1, <1>2 DEF Fresh, AcceptBlock

(* A block that is mined is fresh, and has the hash it was mined with. *)
LEMMA ProposePushesFresh ==
  ASSUME IInv, NEW h \in Hash, ProposeBlock(h)
  PROVE  \E b : Fresh(b) /\ PushAndFix(b) /\ BlockHash(b) = h
<1> DEFINE b == Append(longest_chain, h)
<1>1. /\ b \in Path /\ PushAndFix(b)
      /\ \A c \in blocks \cup pruned : BlockHash(c) # h
  BY DEF ProposeBlock
<1>2. BlockHash(b) = h /\ Front(b) = longest_chain
  <2>1. longest_chain \in Seq(Hash)
    BY DEF IInv, TypeOK
  <2> QED BY <2>1, FrontOfAppend DEF BlockHash
<1>3. HasPreviousBlock(b)
  BY <1>2 DEF HasPreviousBlock, IInv, ChainIsBest
<1>4. Fresh(b)
  BY <1>1, <1>2, <1>3 DEF Fresh
<1> QED BY <1>1, <1>2, <1>4

(* Both actions push a fresh block, or change nothing. *)
LEMMA NextPushesFresh ==
  ASSUME IInv, Next
  PROVE  \/ \E b : Fresh(b) /\ PushAndFix(b)
         \/ UNCHANGED vars
<1>1. ASSUME NEW b \in Offered, NEW valid \in BOOLEAN, RejectBlock(b, valid)
      PROVE  UNCHANGED vars
  BY <1>1 DEF RejectBlock
<1> QED BY <1>1, AcceptPushesFresh, ProposePushesFresh DEF Next

-----------------------------------------------------------------------------
(* Theorems *)

(* The initial state satisfies the invariant. *)
LEMMA InitIInv == Init => IInv
<1> SUFFICES ASSUME Init PROVE IInv
  OBVIOUS
<1>1. Len(<<>>) = 0 /\ <<>> \in Seq(Hash)
  BY EmptySeq
<1>2. SatSub(0, N) = 0
  BY DepthAssumption DEF SatSub, N
<1>3. TypeOK
  BY <1>1 DEF Init, TypeOK
<1>4. FixIsIdempotent
  BY <1>1, <1>2 DEF Init, FixIsIdempotent, LongestBranch, Losers
<1> QED
  BY <1>1, <1>3, <1>4
  DEF Init, IInv, AncestorsStored, PrunedStayOut, ChainIsBest, HashesUnique

(* Every step preserves it. *)
LEMMA NextIInv == IInv /\ [Next]_vars => IInv'
<1> SUFFICES ASSUME IInv, [Next]_vars PROVE IInv'
  OBVIOUS
<1>1. CASE UNCHANGED vars
  BY <1>1 DEF vars, IInv, TypeOK, AncestorsStored, HasPreviousBlock,
     PrunedStayOut, ChainIsBest, HashesUnique, FixIsIdempotent
<1>2. ASSUME NEW b, Fresh(b), PushAndFix(b)
      PROVE  IInv'
  BY <1>2, PushPreservesIInv
<1> QED BY <1>1, <1>2, NextPushesFresh

(* The invariant, its type part included, holds in every reachable state:  *)
(* accept_block() and propose_block() keep the block store, the chain, the *)
(* pruned set and the pointer consistent with each other.                  *)
THEOREM Invariance == Spec => []IInv
BY InitIInv, NextIInv, PTL DEF Spec

(* Blocks stay paths on the allowed roots, the pointer a natural number.   *)
THEOREM TypeCorrectness == Spec => []TypeOK
<1>1. IInv => TypeOK
  BY DEF IInv
<1> QED BY <1>1, Invariance, PTL

(* accept_block() refuses orphans and prune() takes descendants along, so  *)
(* a node always holds the whole branch of every block it stores.          *)
THEOREM AncestorsAlwaysStored == Spec => []AncestorsStored
<1>1. IInv => AncestorsStored
  BY DEF IInv
<1> QED BY <1>1, Invariance, PTL

(* What prune() removed is never stored again. *)
THEOREM PrunedNeverReturn == Spec => []PrunedStayOut
<1>1. IInv => PrunedStayOut
  BY DEF IInv
<1> QED BY <1>1, Invariance, PTL

(* After every operation, `fix` would choose the same chain again, prune   *)
(* nothing and execute nothing.                                            *)
THEOREM FixLeavesNothing == Spec => []FixIsIdempotent
<1>1. IInv => FixIsIdempotent
  BY DEF IInv
<1> QED BY <1>1, Invariance, PTL

-----------------------------------------------------------------------------
(* The history of executed blocks *)

(* Every prefix of a block of a set that is closed under parents is in the *)
(* set: the closure, applied as often as needed.                           *)
LEMMA PrefixesStored ==
  ASSUME NEW bs, bs \subseteq Path,
         \A x \in bs : Front(x) = <<>> \/ Front(x) \in bs,
         NEW c \in bs, NEW i \in 1 .. Len(c)
  PROVE  SubSeq(c, 1, i) \in bs
<1>1. c \in Seq(Hash) /\ Len(c) \in Nat /\ Len(c) >= 1
  BY PathFacts
<1> DEFINE Missing(d) == SubSeq(c, 1, Len(c) - d) \notin bs
<1> SUFFICES ASSUME SubSeq(c, 1, i) \notin bs PROVE FALSE
  OBVIOUS
<1>2. PICK D : D = {d \in 0 .. Len(c) - 1 : Missing(d)}
  OBVIOUS
<1>3. PICK d \in D : \A e \in D : d <= e
  <2>1. D \subseteq Nat
    BY <1>2
  <2>2. Len(c) - i \in D
    <3>1. Len(c) - i \in 0 .. Len(c) - 1 /\ Len(c) - (Len(c) - i) = i
      BY <1>1
    <3> QED BY <1>2, <3>1
  <2> QED BY <2>1, <2>2, LeastElement
<1>4. d \in Nat /\ d <= Len(c) - 1 /\ Missing(d)
  BY <1>1, <1>2, <1>3
<1>5. d # 0
  <2>1. SubSeq(c, 1, Len(c)) = c
    <3>1. /\ SubSeq(c, 1, Len(c)) \in Seq(Hash)
          /\ Len(SubSeq(c, 1, Len(c))) = Len(c)
          /\ \A j \in 1 .. Len(c) : SubSeq(c, 1, Len(c))[j] = c[j]
      BY <1>1, PrefixElements
    <3> QED BY <1>1, <3>1, SeqEqual
  <2>2. Len(c) - 0 = Len(c)
    BY <1>1
  <2>3. ~Missing(0)
    BY <2>1, <2>2
  <2> QED BY <1>4, <2>3
<1>6. PICK n : n = Len(c) - d
  OBVIOUS
<1>7. n \in Nat /\ n >= 1 /\ n + 1 <= Len(c) /\ Len(c) - (d - 1) = n + 1
  BY <1>1, <1>4, <1>5, <1>6
<1>8. SubSeq(c, 1, n) \notin bs
  BY <1>4, <1>6
<1>9. SubSeq(c, 1, n + 1) \in bs
  <2>1. d - 1 \in 0 .. Len(c) - 1 /\ ~(d <= d - 1)
    BY <1>1, <1>4, <1>5
  <2>2. ~Missing(d - 1)
    BY <1>2, <1>3, <2>1
  <2> QED BY <1>7, <2>2
<1>10. PICK p : p = SubSeq(c, 1, n + 1)
  OBVIOUS
<1>11. /\ p \in Seq(Hash) /\ Len(p) = n + 1
       /\ \A j \in 1 .. n + 1 : p[j] = c[j]
  BY <1>1, <1>7, <1>10, PrefixElements
<1>12. Front(p) = SubSeq(c, 1, n)
  <2>1. Front(p) = SubSeq(p, 1, n)
    BY <1>7, <1>11 DEF Front
  <2>2. \A j \in 1 .. n : p[j] = c[j]
    BY <1>7, <1>11
  <2> QED BY <1>1, <1>7, <1>11, <2>1, <2>2, CommonPrefix
<1>13. Front(p) # <<>>
  <2>1. Len(SubSeq(c, 1, n)) = n
    BY <1>1, <1>7, PrefixElements
  <2> QED BY <1>7, <1>12, <2>1, EmptySeq
<1>14. Front(p) \in bs
  BY <1>9, <1>10, <1>13
<1> QED BY <1>8, <1>12, <1>14

(* A step executes blocks that are stored, at their heights. *)
LEMMA PushExecutesByHeight ==
  ASSUME IInv, ExecutedByHeight, NEW b, Fresh(b), PushAndFix(b)
  PROVE  ExecutedByHeight'
<1>1. IInv' /\ longest_chain' = NewChain(b) /\ ExecuteTransactions(NewChain(b))
  BY PushPreservesIInv DEF PushAndFix, NewChain
<1>2. /\ NewChain(b) \in Path /\ NewChain(b) \in Seq(Hash)
      /\ Len(NewChain(b)) >= Len(longest_chain)
      /\ Len(NewChain(b)) \in Nat
  BY NewChainFacts, PathFacts DEF IInv
<1>3. /\ commited_pointer' = SatSub(Len(NewChain(b)), N)
      /\ commited_pointer' \in Nat /\ commited_pointer \in Nat
      /\ Len(executed') = commited_pointer'
      /\ \A i \in 1 .. commited_pointer' :
           executed'[i] = IF i <= commited_pointer THEN executed[i]
                                                   ELSE NewChain(b)[i]
  BY <1>1, <1>2, ExecuteFacts DEF IInv, TypeOK, FixIsIdempotent
<1>4. blocks \cup pruned \subseteq blocks' \cup pruned'
  BY DEF PushAndFix
<1>5. ASSUME NEW i \in 1 .. commited_pointer'
      PROVE  \E c \in blocks' \cup pruned' :
               Len(c) = i /\ BlockHash(c) = executed'[i]
  <2>1. CASE i <= commited_pointer
    <3>1. i \in 1 .. Len(executed) /\ executed'[i] = executed[i]
      BY <1>3, <2>1 DEF IInv
    <3> QED BY <1>4, <3>1 DEF ExecutedByHeight
  <2>2. CASE ~(i <= commited_pointer)
    <3>1. executed'[i] = NewChain(b)[i]
      BY <1>3, <2>2
    <3>2. i \in 1 .. Len(NewChain(b))
      <4>1. N \in Nat
        BY DepthAssumption DEF N
      <4> QED BY <1>2, <1>3, <4>1, SatSubFacts
    <3>3. NewChain(b) \in blocks'
      <4>1. NewChain(b) # <<>>
        BY <1>2 DEF Path
      <4> QED BY <1>1, <4>1 DEF IInv, ChainIsBest
    <3>4. PICK c : c = SubSeq(NewChain(b), 1, i)
      OBVIOUS
    <3>5. c \in blocks'
      <4>1. /\ blocks' \subseteq Path
            /\ \A x \in blocks' : Front(x) = <<>> \/ Front(x) \in blocks'
        BY <1>1 DEF IInv, TypeOK, AncestorsStored, HasPreviousBlock
      <4> QED BY <3>2, <3>3, <3>4, <4>1, PrefixesStored
    <3>6. Len(c) = i /\ c[i] = NewChain(b)[i]
      BY <1>2, <3>2, <3>4, PrefixElements
    <3>7. BlockHash(c) = c[i]
      BY <3>6 DEF BlockHash, Last
    <3> QED BY <3>1, <3>5, <3>6, <3>7
  <2> QED BY <2>1, <2>2
<1> QED BY <1>3, <1>5 DEF ExecutedByHeight

(* Across reorganisations of any depth, and from one tree to another, a    *)
(* node executes one block of each height, in order.                       *)
THEOREM HeightsExecuteInOrder == Spec => []ExecutedByHeight
<1>1. Init => ExecutedByHeight
  <2> SUFFICES ASSUME Init PROVE ExecutedByHeight
    OBVIOUS
  <2>1. Len(executed) = 0 /\ commited_pointer = 0
    BY EmptySeq DEF Init
  <2> QED BY <2>1 DEF ExecutedByHeight
<1>2. IInv /\ ExecutedByHeight /\ [Next]_vars => ExecutedByHeight'
  <2> SUFFICES ASSUME IInv, ExecutedByHeight, [Next]_vars
               PROVE  ExecutedByHeight'
    OBVIOUS
  <2>1. CASE UNCHANGED vars
    BY <2>1 DEF vars, ExecutedByHeight
  <2>2. ASSUME NEW b, Fresh(b), PushAndFix(b) PROVE ExecutedByHeight'
    BY <2>2, PushExecutesByHeight
  <2> QED BY <2>1, <2>2, NextPushesFresh
<1> QED BY <1>1, <1>2, Invariance, PTL DEF Spec

-----------------------------------------------------------------------------
(* Mining *)

(* The chain never gets shorter, and a mined block becomes its tip: the    *)
(* chain it extends beats every stored block, so one block more beats them *)
(* by length.                                                              *)
THEOREM ProposalsWin == Spec => ProposalWins
<1> DEFINE A == /\ Len(longest_chain') >= Len(longest_chain)
                /\ \A h \in Hash : ProposeBlock(h) => BlockHash(longest_chain') = h
<1>1. IInv /\ [Next]_vars => [A]_vars
  <2> SUFFICES ASSUME IInv, [Next]_vars, ~UNCHANGED vars PROVE A
    OBVIOUS
  <2>1. Len(longest_chain') >= Len(longest_chain)
    <3>1. PICK b : Fresh(b) /\ PushAndFix(b)
      BY NextPushesFresh
    <3>2. longest_chain' = NewChain(b)
      BY <3>1 DEF PushAndFix, NewChain
    <3> QED BY <3>1, <3>2, NewChainFacts DEF IInv
  <2>2. ASSUME NEW h \in Hash, ProposeBlock(h)
        PROVE  BlockHash(longest_chain') = h
    <3>1. PICK b : b = Append(longest_chain, h)
      OBVIOUS
    <3>2. longest_chain \in Seq(Hash) /\ Len(longest_chain) \in Nat
      BY LenProperties DEF IInv, TypeOK
    <3>3. Len(b) = Len(longest_chain) + 1 /\ BlockHash(b) = h /\ Front(b) = longest_chain
      BY <3>1, <3>2, AppendProperties, FrontOfAppend DEF BlockHash
    <3>4. /\ b \in Path /\ PushAndFix(b)
          /\ \A c \in blocks \cup pruned : BlockHash(c) # h
      BY <2>2, <3>1 DEF ProposeBlock
    <3>5. HasPreviousBlock(b)
      BY <3>3 DEF HasPreviousBlock, IInv, ChainIsBest
    <3>6. Fresh(b)
      BY <3>3, <3>4, <3>5 DEF Fresh
    <3>7. /\ NewChain(b) \in blocks \cup {b} /\ NewChain(b) \in Path
          /\ Beats(NewChain(b), b)
      BY <3>6, NewChainFacts DEF IInv
    <3>8. Len(NewChain(b)) >= Len(longest_chain) + 1
      BY <3>3, <3>4, <3>7, BeatsOrder
    <3>9. NewChain(b) \notin blocks
      <4> SUFFICES ASSUME NewChain(b) \in blocks PROVE FALSE
        OBVIOUS
      <4>1. longest_chain \in Path /\ Beats(longest_chain, NewChain(b))
        BY DEF IInv, TypeOK, ChainIsBest
      <4>2. Len(longest_chain) >= Len(NewChain(b))
        BY <3>7, <4>1, BeatsOrder
      <4>3. Len(NewChain(b)) \in Nat
        BY <3>7, PathFacts
      <4> QED BY <3>2, <3>8, <4>2, <4>3
    <3>10. longest_chain' = NewChain(b)
      BY <3>4 DEF PushAndFix, NewChain
    <3> QED BY <3>3, <3>7, <3>9, <3>10
  <2> QED BY <2>1, <2>2
<1>2. Spec => [][A]_vars
  BY <1>1, Invariance, PTL DEF Spec
<1> QED BY <1>2 DEF ProposalWins

-----------------------------------------------------------------------------
(* The confirmed part of the chain *)

(* Two branches that were not pruned against each other agree on all but   *)
(* the last N - 1 blocks of the longest, if they have the same root.       *)
LEMMA SurvivorsAgree ==
  ASSUME NEW bs \in SUBSET Path, NEW chain \in Path, NEW c \in bs,
         Losers(bs, chain, N) = {}, RootOf(c) = RootOf(chain),
         NEW i \in 1 .. Len(chain) - N + 1, i <= Len(c)
  PROVE  c[i] = chain[i]
<1>1. /\ c \in Seq(Hash) /\ Len(c) \in Nat /\ RootOf(c) = c[1]
      /\ chain \in Seq(Hash) /\ Len(chain) \in Nat
      /\ RootOf(chain) = chain[1]
      /\ N \in Nat \ {0} /\ c \in Path
  BY PathFacts, DepthAssumption DEF N
<1> SUFFICES ASSUME c[i] # chain[i] PROVE FALSE
  OBVIOUS
<1>2. i \in Nat /\ i \in 1 .. i
  BY <1>1
<1>3. PICK k \in 0 .. i - 1 : /\ \A j \in 1 .. k : c[j] = chain[j]
                              /\ c[k + 1] # chain[k + 1]
  BY <1>2, FirstDifference
<1>4. k # 0
  <2>1. c[1] = chain[1]
    BY <1>1
  <2>2. ASSUME k = 0 PROVE c[1] # chain[1]
    <3>1. k + 1 = 1
      BY <2>2
    <3> QED BY <1>3, <3>1
  <2> QED BY <2>1, <2>2
<1>5. /\ k \in Nat /\ k \in 1 .. Len(chain) - N
      /\ k <= Len(c) /\ k <= Len(chain) /\ Len(c) > k
  BY <1>1, <1>2, <1>3, <1>4
<1>6. SubSeq(c, 1, k) = SubSeq(chain, 1, k)
  BY <1>1, <1>3, <1>5, CommonPrefix
<1>7. ForksAfter(c, chain, k)
  BY <1>3, <1>5, <1>6 DEF ForksAfter
<1> QED BY <1>5, <1>7 DEF Losers

(* A step that keeps the root of the chain keeps its confirmed part.       *)
LEMMA PushKeepsConfirmed ==
  ASSUME IInv, NEW b, Fresh(b), PushAndFix(b), longest_chain # <<>>,
         RootOf(NewChain(b)) = RootOf(longest_chain),
         NEW i \in 1 .. commited_pointer
  PROVE  NewChain(b)[i] = longest_chain[i]
<1>1. /\ longest_chain \in blocks /\ longest_chain \in Path
      /\ blocks \in SUBSET Path
      /\ commited_pointer = SatSub(Len(longest_chain), N)
      /\ Losers(blocks, longest_chain, N) = {}
  BY DEF IInv, ChainIsBest, TypeOK, FixIsIdempotent
<1>2. /\ Len(longest_chain) \in Nat /\ N \in Nat \ {0}
      /\ longest_chain \in Seq(Hash)
  BY <1>1, PathFacts, DepthAssumption DEF N
<1>3. Len(longest_chain) > N /\ commited_pointer = Len(longest_chain) - N
  <2>1. CASE Len(longest_chain) <= N
    <3>1. commited_pointer = 0
      BY <1>1, <1>2, <2>1, SatSubFacts
    <3> QED BY <3>1
  <2>2. CASE Len(longest_chain) > N
    <3>1. commited_pointer = Len(longest_chain) - N
      BY <1>1, <1>2, <2>2, SatSubFacts
    <3> QED BY <2>2, <3>1
  <2> QED BY <1>2, <2>1, <2>2
<1>4. /\ NewChain(b) \in blocks \cup {b} /\ NewChain(b) \in Path
      /\ Len(NewChain(b)) >= Len(longest_chain)
      /\ Len(NewChain(b)) \in Nat
  BY NewChainFacts, PathFacts DEF IInv
<1>5. CASE NewChain(b) \in blocks
  <2>1. i \in 1 .. Len(longest_chain) - N + 1 /\ i <= Len(NewChain(b))
    BY <1>2, <1>3, <1>4
  <2> QED BY <1>1, <1>5, <2>1, SurvivorsAgree
<1>6. CASE NewChain(b) = b
  <2> DEFINE p == Front(b)
  <2>1. /\ b \in Path /\ b \in Seq(Hash) /\ Len(b) \in Nat
        /\ Len(b) >= Len(longest_chain) /\ RootOf(b) = b[1]
    BY <1>4, <1>6, PathFacts
  <2>2. /\ p = SubSeq(b, 1, Len(b) - 1) /\ Len(b) - 1 \in 0 .. Len(b)
    BY <1>2, <1>3, <2>1 DEF Front
  <2>3. /\ Len(p) = Len(b) - 1
        /\ \A j \in 1 .. Len(b) - 1 : p[j] = b[j]
    BY <2>1, <2>2, PrefixElements
  <2> HIDE DEF p
  <2>4. Len(p) >= 1
    BY <1>2, <1>3, <2>1, <2>3
  <2>5. p \in blocks
    <3>1. p # <<>>
      BY <2>4, EmptySeq
    <3> QED BY <3>1 DEF Fresh, HasPreviousBlock, p
  <2>6. RootOf(p) = RootOf(longest_chain)
    <3>1. RootOf(p) = p[1]
      BY <1>1, <2>5, PathFacts
    <3>2. p[1] = b[1]
      BY <2>1, <2>3, <2>4
    <3> QED BY <1>6, <2>1, <3>1, <3>2
  <2>7. /\ i \in 1 .. Len(longest_chain) - N + 1 /\ i <= Len(p)
        /\ i \in 1 .. Len(b) - 1
    BY <1>2, <1>3, <2>1, <2>3
  <2>8. p[i] = longest_chain[i]
    BY <1>1, <2>5, <2>6, <2>7, SurvivorsAgree
  <2> QED BY <1>6, <2>3, <2>7, <2>8
<1> QED BY <1>4, <1>5, <1>6

(* What was confirmed of the old chain is a prefix of what is confirmed of *)
(* the new one.                                                            *)
LEMMA ConfirmedExtends ==
  ASSUME TypeOK, FixIsIdempotent, NEW chain \in Seq(Hash),
         Len(chain) >= Len(longest_chain),
         \A i \in 1 .. commited_pointer : chain[i] = longest_chain[i]
  PROVE  IsPrefix(Confirmed(longest_chain, N), Confirmed(chain, N))
<1>1. /\ Len(chain) \in Nat /\ Len(longest_chain) \in Nat
      /\ longest_chain \in Seq(Hash) /\ N \in Nat
      /\ commited_pointer = SatSub(Len(longest_chain), N)
  BY LenProperties, DepthAssumption DEF TypeOK, FixIsIdempotent, N
<1>2. PICK stop : stop = SatSub(Len(chain), N)
  OBVIOUS
<1>3. /\ stop \in 0 .. Len(chain)
      /\ commited_pointer \in 0 .. Len(longest_chain)
      /\ commited_pointer <= stop
  <2>1. /\ stop \in Nat /\ stop <= Len(chain) /\ commited_pointer \in Nat
        /\ commited_pointer <= Len(longest_chain)
    BY <1>1, <1>2, SatSubFacts
  <2>2. CASE Len(longest_chain) <= N
    <3>1. commited_pointer = 0
      BY <1>1, <2>2, SatSubFacts
    <3> QED BY <2>1, <3>1
  <2>3. CASE Len(longest_chain) > N
    <3>1. commited_pointer = Len(longest_chain) - N
      BY <1>1, <2>3, SatSubFacts
    <3>2. stop = Len(chain) - N
      BY <1>1, <1>2, <2>3, SatSubFacts
    <3> QED BY <1>1, <2>1, <3>1, <3>2
  <2> QED BY <1>1, <2>2, <2>3
<1>4. PICK old : old = SubSeq(longest_chain, 1, commited_pointer)
  OBVIOUS
<1>5. /\ old \in Seq(Hash) /\ Len(old) = commited_pointer
      /\ \A i \in 1 .. commited_pointer : old[i] = longest_chain[i]
  BY <1>1, <1>3, <1>4, PrefixElements
<1>6. PICK new : new = SubSeq(chain, 1, stop)
  OBVIOUS
<1>7. /\ new \in Seq(Hash) /\ Len(new) = stop
      /\ \A i \in 1 .. stop : new[i] = chain[i]
  BY <1>1, <1>3, <1>6, PrefixElements
<1>8. /\ commited_pointer \in 0 .. Len(new)
      /\ \A i \in 1 .. commited_pointer : i \in 1 .. stop
  BY <1>3, <1>7
<1>9. \A i \in 1 .. commited_pointer : old[i] = new[i]
  BY <1>5, <1>7, <1>8
<1>10. /\ SubSeq(old, 1, commited_pointer) = SubSeq(new, 1, commited_pointer)
       /\ Len(old) <= Len(new)
  BY <1>5, <1>7, <1>8, <1>9, CommonPrefix
<1>11. old = Confirmed(longest_chain, N) /\ new = Confirmed(chain, N)
  BY <1>1, <1>2, <1>4, <1>6 DEF Confirmed
<1> QED BY <1>5, <1>10, <1>11 DEF IsPrefix

(* A reorganisation never changes the confirmed part of the chain while    *)
(* the chain stays in the tree of one first block: prune() leaves no       *)
(* branch of that tree to which the node could still switch.               *)
THEOREM ConfirmedIsStable == Spec => ConfirmedStable
<1> DEFINE A == (longest_chain # <<>>
                  /\ RootOf(longest_chain') = RootOf(longest_chain))
                 => IsPrefix(Confirmed(longest_chain, N),
                             Confirmed(longest_chain', N))
<1>1. IInv /\ [Next]_vars => [A]_vars
  <2> SUFFICES ASSUME IInv, [Next]_vars, ~UNCHANGED vars,
                      longest_chain # <<>>,
                      RootOf(longest_chain') = RootOf(longest_chain)
               PROVE  IsPrefix(Confirmed(longest_chain, N),
                               Confirmed(longest_chain', N))
    OBVIOUS
  <2>1. PICK b : Fresh(b) /\ PushAndFix(b)
    BY NextPushesFresh
  <2>2. longest_chain' = NewChain(b)
    BY <2>1 DEF PushAndFix, NewChain
  <2>3. \A i \in 1 .. commited_pointer : longest_chain'[i] = longest_chain[i]
    BY <2>1, <2>2, PushKeepsConfirmed
  <2>4. /\ longest_chain' \in Seq(Hash)
        /\ Len(longest_chain') >= Len(longest_chain)
    BY <2>1, <2>2, NewChainFacts, PathFacts DEF IInv
  <2>5. TypeOK /\ FixIsIdempotent
    BY DEF IInv
  <2> QED BY <2>3, <2>4, <2>5, ConfirmedExtends
<1>2. Spec => [][A]_vars
  BY <1>1, Invariance, PTL DEF Spec
<1> QED BY <1>2 DEF ConfirmedStable

-----------------------------------------------------------------------------
(* One root: all the nodes have the same first block *)

(* The blocks executed are the confirmed part of the chain. *)
LogIsConfirmed == executed = Confirmed(longest_chain, N)

(* Every block starts at the one root. *)
LEMMA OneRootOnly ==
  ASSUME NEW r, Root = {r}, NEW a \in Path, NEW c \in Path
  PROVE  RootOf(a) = RootOf(c)
BY PathFacts

(* A step keeps the executed blocks equal to the confirmed part. *)
LEMMA PushKeepsLog ==
  ASSUME NEW r, Root = {r}, IInv, LogIsConfirmed, NEW b, Fresh(b),
         PushAndFix(b)
  PROVE  /\ LogIsConfirmed'
         /\ NewChain(b) \in Seq(Hash)
         /\ Len(NewChain(b)) >= Len(longest_chain)
         /\ \A i \in 1 .. commited_pointer : NewChain(b)[i] = longest_chain[i]
<1>1. /\ longest_chain' = NewChain(b) /\ ExecuteTransactions(NewChain(b))
  BY DEF PushAndFix, NewChain
<1>2. /\ NewChain(b) \in Path /\ NewChain(b) \in Seq(Hash)
      /\ Len(NewChain(b)) >= Len(longest_chain)
      /\ Len(NewChain(b)) \in Nat
  BY NewChainFacts, PathFacts DEF IInv
<1>3. ASSUME NEW i \in 1 .. commited_pointer
      PROVE  NewChain(b)[i] = longest_chain[i]
  <2>1. longest_chain # <<>>
    <3>1. SUFFICES ASSUME longest_chain = <<>> PROVE FALSE
      OBVIOUS
    <3>2. Len(longest_chain) = 0
      BY <3>1, EmptySeq
    <3>3. commited_pointer = SatSub(0, N)
      BY <3>2 DEF IInv, FixIsIdempotent
    <3>4. SatSub(0, N) = 0
      BY DepthAssumption DEF SatSub, N
    <3> QED BY <3>3, <3>4
  <2>2. longest_chain \in Path
    BY <2>1 DEF IInv, TypeOK, ChainIsBest
  <2>3. RootOf(NewChain(b)) = RootOf(longest_chain)
    BY <1>2, <2>2, OneRootOnly
  <2> QED BY <2>1, <2>3, PushKeepsConfirmed
<1>4. /\ commited_pointer' = SatSub(Len(NewChain(b)), N)
      /\ executed' \in Seq(Hash)
      /\ Len(executed') = commited_pointer'
      /\ \A i \in 1 .. commited_pointer' :
           executed'[i] = IF i <= commited_pointer THEN executed[i]
                                                   ELSE NewChain(b)[i]
  BY <1>1, <1>2, ExecuteFacts DEF IInv, FixIsIdempotent
<1>5. /\ commited_pointer \in Nat /\ commited_pointer' \in Nat
      /\ commited_pointer' \in 0 .. Len(NewChain(b))
  <2>1. N \in Nat /\ commited_pointer \in Nat
    BY DepthAssumption DEF N, IInv, TypeOK
  <2> QED BY <1>2, <1>4, <2>1, SatSubFacts
<1>6. \A i \in 1 .. commited_pointer : executed[i] = longest_chain[i]
  <2>1. /\ longest_chain \in Seq(Hash) /\ Len(longest_chain) \in Nat
        /\ N \in Nat /\ commited_pointer = SatSub(Len(longest_chain), N)
    BY LenProperties, DepthAssumption DEF IInv, TypeOK, FixIsIdempotent, N
  <2>2. commited_pointer \in 0 .. Len(longest_chain)
    BY <1>5, <2>1, SatSubFacts
  <2>3. executed = SubSeq(longest_chain, 1, commited_pointer)
    BY <2>1 DEF LogIsConfirmed, Confirmed
  <2> QED BY <2>1, <2>2, <2>3, PrefixElements
<1>7. \A i \in 1 .. commited_pointer' : executed'[i] = NewChain(b)[i]
  <2> SUFFICES ASSUME NEW i \in 1 .. commited_pointer'
               PROVE  executed'[i] = NewChain(b)[i]
    OBVIOUS
  <2>1. CASE i <= commited_pointer
    <3>1. i \in 1 .. commited_pointer
      BY <1>5, <2>1
    <3> QED BY <1>3, <1>4, <1>6, <2>1, <3>1
  <2>2. CASE ~(i <= commited_pointer)
    BY <1>4, <2>2
  <2> QED BY <2>1, <2>2
<1>8. PICK new : new = SubSeq(NewChain(b), 1, commited_pointer')
  OBVIOUS
<1>9. /\ new \in Seq(Hash) /\ Len(new) = commited_pointer'
      /\ \A i \in 1 .. commited_pointer' : new[i] = NewChain(b)[i]
  BY <1>2, <1>5, <1>8, PrefixElements
<1>10. executed' = new
  BY <1>4, <1>7, <1>9, SeqEqual
<1>11. LogIsConfirmed'
  BY <1>1, <1>4, <1>8, <1>10 DEF LogIsConfirmed, Confirmed, N
<1> QED BY <1>2, <1>3, <1>11

(* In the beginning nothing is executed and nothing is confirmed. *)
LEMMA InitLogIsConfirmed == Init => LogIsConfirmed
<1> SUFFICES ASSUME Init PROVE LogIsConfirmed
  OBVIOUS
<1>1. /\ Len(longest_chain) = 0 /\ executed = <<>>
  BY EmptySeq DEF Init
<1>2. SatSub(0, N) = 0
  BY DepthAssumption DEF SatSub, N
<1> QED BY <1>1, <1>2, SubSeqEmpty DEF LogIsConfirmed, Confirmed

(* With one root, the executed blocks are the confirmed part of the chain. *)
LEMMA OneRootInvariance ==
  ASSUME NEW CONSTANT r, Root = {r}
  PROVE  Spec => [](IInv /\ LogIsConfirmed)
<1>2. IInv /\ LogIsConfirmed /\ [Next]_vars => LogIsConfirmed'
  <2> SUFFICES ASSUME IInv, LogIsConfirmed, [Next]_vars PROVE LogIsConfirmed'
    OBVIOUS
  <2>1. CASE UNCHANGED vars
    BY <2>1 DEF vars, LogIsConfirmed
  <2>2. ASSUME NEW b, Fresh(b), PushAndFix(b) PROVE LogIsConfirmed'
    BY <2>2, PushKeepsLog
  <2> QED BY <2>1, <2>2, NextPushesFresh
<1> QED BY <1>2, InitIInv, InitLogIsConfirmed, NextIInv, PTL DEF Spec

(* With one root, what the comment on prune() promises holds: no block is  *)
(* left whose branch leaves the longest chain before its last N blocks.    *)
THEOREM OneRootForksArePruned ==
  ASSUME NEW CONSTANT r, Root = {r}
  PROVE  Spec => []BeatenForksPruned
<1>1. IInv => BeatenForksPruned
  <2> SUFFICES ASSUME IInv, NEW b \in blocks,
                      NEW k \in 0 .. Len(longest_chain) - N,
                      ForksAfter(b, longest_chain, k)
               PROVE  FALSE
    BY DEF BeatenForksPruned
  <2>1. /\ b \in Path /\ longest_chain \in Path
        /\ Losers(blocks, longest_chain, N) = {}
    BY DEF IInv, TypeOK, ChainIsBest, FixIsIdempotent
  <2>2. RootOf(b) = RootOf(longest_chain)
    BY <2>1, OneRootOnly
  <2>3. CASE k = 0
    <3>1. b[1] = longest_chain[1]
      BY <2>1, <2>2, PathFacts
    <3>2. k + 1 = 1
      BY <2>3
    <3> QED BY <3>1, <3>2 DEF ForksAfter
  <2>4. CASE k # 0
    <3>1. k \in 1 .. Len(longest_chain) - N
      BY <2>4
    <3> QED BY <2>1, <3>1 DEF Losers
  <2> QED BY <2>3, <2>4
<1> QED BY <1>1, Invariance, PTL

(* With one root, the blocks a node executes form a log that only grows    *)
(* and is at every moment the chain without its last N blocks.             *)
THEOREM OneRootImplementsLog ==
  ASSUME NEW CONSTANT r, Root = {r}
  PROVE  Spec => ImplementsLog
<1>1. Init => Log!Init
  BY DEF Init, Log!Init
<1>2. IInv /\ LogIsConfirmed /\ LogIsConfirmed' /\ [Next]_vars
        => [Log!Adopt]_<<longest_chain, executed>>
  <2> SUFFICES ASSUME IInv, LogIsConfirmed, LogIsConfirmed', [Next]_vars
               PROVE  Log!Adopt \/ UNCHANGED <<longest_chain, executed>>
    OBVIOUS
  <2>1. CASE UNCHANGED vars
    BY <2>1 DEF vars
  <2>2. ASSUME NEW b, Fresh(b), PushAndFix(b) PROVE Log!Adopt
    <3>1. longest_chain' = NewChain(b)
      BY <2>2 DEF PushAndFix, NewChain
    <3>2. /\ longest_chain' \in Seq(Hash)
          /\ Len(longest_chain') >= Len(longest_chain)
          /\ \A i \in 1 .. commited_pointer :
               longest_chain'[i] = longest_chain[i]
      BY <2>2, <3>1, PushKeepsLog
    <3>3. /\ executed = Confirmed(longest_chain, N)
          /\ executed' = Confirmed(longest_chain', N)
      BY DEF LogIsConfirmed, N
    <3>4. TypeOK /\ FixIsIdempotent
      BY DEF IInv
    <3>5. IsPrefix(executed, executed')
      BY <3>2, <3>3, <3>4, ConfirmedExtends
    <3>6. IsPrefix(executed, longest_chain')
      <4>1. /\ Len(longest_chain) \in Nat /\ Len(longest_chain') \in Nat
            /\ N \in Nat /\ longest_chain \in Seq(Hash)
            /\ commited_pointer = SatSub(Len(longest_chain), N)
        BY <3>2, <3>4, LenProperties, DepthAssumption
           DEF TypeOK, FixIsIdempotent, N
      <4>2. /\ commited_pointer \in 0 .. Len(longest_chain)
            /\ commited_pointer \in 0 .. Len(longest_chain')
            /\ commited_pointer \in Nat
        BY <3>2, <4>1, SatSubFacts
      <4>3. executed = SubSeq(longest_chain, 1, commited_pointer)
        BY <3>3, <4>1 DEF Confirmed
      <4>4. Len(executed) = commited_pointer
        BY <4>1, <4>2, <4>3, PrefixElements
      <4>5. SubSeq(longest_chain, 1, commited_pointer)
              = SubSeq(longest_chain', 1, commited_pointer)
        BY <3>2, <4>1, <4>2, CommonPrefix
      <4>6. SubSeq(executed, 1, commited_pointer) = executed
        <5>1. /\ executed \in Seq(Hash)
              /\ \A i \in 1 .. commited_pointer :
                   SubSeq(executed, 1, commited_pointer)[i] = executed[i]
              /\ SubSeq(executed, 1, commited_pointer) \in Seq(Hash)
              /\ Len(SubSeq(executed, 1, commited_pointer)) = commited_pointer
          BY <3>4, <4>2, <4>4, PrefixElements DEF TypeOK
        <5> QED BY <4>4, <5>1, SeqEqual
      <4> QED BY <4>2, <4>3, <4>4, <4>5, <4>6 DEF IsPrefix
    <3>7. /\ Log!IsPrefix(executed, executed')
          /\ Log!IsPrefix(executed, longest_chain')
      BY <3>5, <3>6 DEF IsPrefix, Log!IsPrefix
    <3>8. executed' = Log!Confirmed(longest_chain', N)
      BY <3>3 DEF Confirmed, Log!Confirmed, SatSub, Log!SatSub
    <3> QED BY <3>2, <3>7, <3>8 DEF Log!Adopt
  <2> QED BY <2>1, <2>2, NextPushesFresh
<1>3. Spec => [](IInv /\ LogIsConfirmed)
  BY OneRootInvariance
<1> QED BY <1>1, <1>2, <1>3, PTL DEF Spec, ImplementsLog, Log!Spec

-----------------------------------------------------------------------------
(* What a push settles, for whoever waits for a block to be decided *)

(* The stored blocks that are still to be executed, or to be pruned. *)
Unsettled == {c \in blocks : Len(c) > commited_pointer}

(* The hashes of the blocks that a step executes. *)
NewlyExecuted == ToSet(SubSeq(executed', Len(executed) + 1, Len(executed')))

(* A stored block is a prefix of itself, block by block. *)
LEMMA StoredPrefix ==
  ASSUME NEW bs \in SUBSET Path, \A x \in bs : Front(x) = <<>> \/ Front(x) \in bs,
         NEW c \in bs, NEW i \in 1 .. Len(c)
  PROVE  /\ SubSeq(c, 1, i) \in bs
         /\ Len(SubSeq(c, 1, i)) = i
         /\ BlockHash(SubSeq(c, 1, i)) = c[i]
<1>1. c \in Seq(Hash) /\ Len(c) \in Nat
  BY PathFacts
<1>2. PICK p : p = SubSeq(c, 1, i)
  OBVIOUS
<1>3. p \in bs
  BY <1>2, PrefixesStored
<1>4. Len(p) = i /\ p[i] = c[i]
  <2>1. i \in 0 .. Len(c) /\ i \in 1 .. i
    BY <1>1
  <2> QED BY <1>1, <1>2, <2>1, PrefixElements
<1>5. BlockHash(p) = p[Len(p)]
  BY <1>3, PathFacts
<1> QED BY <1>2, <1>3, <1>4, <1>5

(* A stored block no higher than the confirmed part of the chain lies on   *)
(* it, where there is one root.                                            *)
LEMMA LowBlocksAreConfirmed ==
  ASSUME NEW r, Root = {r}, NEW bs \in SUBSET Path, NEW chain \in Path,
         Losers(bs, chain, N) = {},
         NEW c \in bs, Len(c) <= SatSub(Len(chain), N)
  PROVE  /\ Len(c) \in 1 .. SatSub(Len(chain), N)
         /\ Len(c) \in 1 .. Len(chain)
         /\ BlockHash(c) = chain[Len(c)]
<1>1. /\ c \in Path /\ Len(c) \in Nat /\ Len(c) >= 1
      /\ BlockHash(c) = c[Len(c)]
      /\ Len(chain) \in Nat /\ N \in Nat \ {0}
  BY PathFacts, DepthAssumption DEF N
<1>2. SatSub(Len(chain), N) = Len(chain) - N
  BY <1>1 DEF SatSub
<1>3. /\ Len(c) \in 1 .. SatSub(Len(chain), N) /\ Len(c) \in 1 .. Len(chain)
      /\ Len(c) \in 1 .. Len(chain) - N + 1 /\ Len(c) <= Len(c)
  BY <1>1, <1>2
<1>4. c[Len(c)] = chain[Len(c)]
  BY <1>1, <1>3, OneRootOnly, SurvivorsAgree
<1> QED BY <1>1, <1>3, <1>4

(* The state before and after a push, for the lemma below: what is stored, *)
(* and that the blocks executed are the confirmed part of the chain.       *)
LEMMA PushStates ==
  ASSUME NEW r, Root = {r}, IInv, LogIsConfirmed, NEW b, Fresh(b), PushAndFix(b)
  PROVE  /\ IInv'
         /\ longest_chain' \in blocks'
         /\ commited_pointer \in Nat /\ commited_pointer' \in Nat
         /\ commited_pointer <= commited_pointer'
         /\ commited_pointer' <= Len(longest_chain')
         /\ Len(executed) = commited_pointer
         /\ Len(executed') = commited_pointer'
         /\ executed' \in Seq(Hash)
         /\ \A i \in 1 .. commited_pointer' : executed'[i] = longest_chain'[i]
         /\ \A i \in 1 .. commited_pointer :
              /\ executed'[i] = executed[i]
              /\ executed[i] = longest_chain[i] /\ i \in 1 .. Len(longest_chain)
<1>1. IInv' /\ LogIsConfirmed'
  BY PushPreservesIInv, PushKeepsLog
<1>2. /\ NewChain(b) \in Seq(Hash) /\ Len(NewChain(b)) >= Len(longest_chain)
      /\ longest_chain' = NewChain(b) /\ ExecuteTransactions(NewChain(b))
  BY PushKeepsLog DEF PushAndFix, NewChain
<1>3. /\ commited_pointer' = SatSub(Len(NewChain(b)), N) /\ commited_pointer' \in Nat
      /\ executed' \in Seq(Hash)
      /\ Len(executed') = commited_pointer'
      /\ \A i \in 1 .. commited_pointer' :
           executed'[i] = IF i <= commited_pointer THEN executed[i] ELSE NewChain(b)[i]
  BY <1>2, ExecuteFacts DEF IInv, FixIsIdempotent
<1>4. /\ commited_pointer \in Nat /\ Len(executed) = commited_pointer
      /\ commited_pointer = SatSub(Len(longest_chain), N)
      /\ longest_chain \in Seq(Hash) /\ Len(longest_chain) \in Nat
      /\ Len(NewChain(b)) \in Nat /\ N \in Nat
  BY <1>2, LenProperties, DepthAssumption DEF IInv, TypeOK, FixIsIdempotent, N
<1>5. /\ commited_pointer <= commited_pointer'
      /\ commited_pointer' <= Len(NewChain(b))
      /\ commited_pointer <= Len(longest_chain)
  BY <1>2, <1>3, <1>4 DEF SatSub
<1>6. longest_chain' \in blocks'
  <2>1. NewChain(b) \in blocks \cup {b}
        /\ NewChain(b) \notin Losers(blocks \cup {b}, NewChain(b), N)
    BY NewChainFacts DEF IInv
  <2> QED BY <1>2, <2>1 DEF PushAndFix, NewChain
<1>7. \A i \in 1 .. commited_pointer : executed[i] = longest_chain[i]
  <2>1. executed = SubSeq(longest_chain, 1, commited_pointer)
    BY <1>4 DEF LogIsConfirmed, Confirmed
  <2>2. commited_pointer \in 0 .. Len(longest_chain)
    BY <1>4, <1>5
  <2> QED BY <1>4, <2>1, <2>2, PrefixElements
<1>8. \A i \in 1 .. commited_pointer : NewChain(b)[i] = longest_chain[i]
  BY PushKeepsLog
<1>9. \A i \in 1 .. commited_pointer :
        executed'[i] = executed[i] /\ i \in 1 .. Len(longest_chain)
  BY <1>3, <1>4, <1>5
<1>10. \A i \in 1 .. commited_pointer' : executed'[i] = NewChain(b)[i]
  BY <1>3, <1>4, <1>7, <1>8
<1> QED BY <1>1, <1>2, <1>3, <1>4, <1>5, <1>6, <1>7, <1>9, <1>10

(* The elements of a sequence from its k-th on. *)
LEMMA TailElements ==
  ASSUME NEW S, NEW s \in Seq(S), NEW k \in Nat, k <= Len(s)
  PROVE  /\ \A i \in k + 1 .. Len(s) : s[i] \in ToSet(SubSeq(s, k + 1, Len(s)))
         /\ \A e \in ToSet(SubSeq(s, k + 1, Len(s))) :
              \E i \in k + 1 .. Len(s) : e = s[i]
<1>1. PICK n \in Nat : n = Len(s)
  BY LenProperties
<1>2. PICK q : q = SubSeq(s, k + 1, n)
  OBVIOUS
<1>3. /\ q \in Seq(S) /\ Len(q) = n - k
      /\ \A i \in 1 .. n - k : q[i] = s[k + i]
  <2>1. \A i \in k + 1 .. n : s[i] \in S
    BY <1>1, ElementOfSeq
  <2>2. k + 1 \in Int /\ n \in Int
    BY <1>1
  <2>3. /\ q \in Seq(S)
        /\ Len(q) = IF k + 1 <= n THEN n - (k + 1) + 1 ELSE 0
        /\ \A i \in 1 .. n - (k + 1) + 1 : q[i] = s[k + 1 + i - 1]
    BY <1>2, <2>1, <2>2, SubSeqProperties
  <2> QED BY <1>1, <2>3
<1>4. ToSet(q) = {q[i] : i \in 1 .. n - k}
  BY <1>3, LenProperties DEF ToSet
<1>5. ASSUME NEW i \in k + 1 .. n PROVE s[i] \in ToSet(q)
  <2>1. i - k \in 1 .. n - k /\ k + (i - k) = i
    BY <1>1
  <2>2. q[i - k] = s[i]
    BY <1>3, <2>1
  <2> QED BY <1>4, <2>1, <2>2
<1>6. ASSUME NEW e \in ToSet(q) PROVE \E i \in k + 1 .. n : e = s[i]
  <2>1. PICK i \in 1 .. n - k : e = q[i]
    BY <1>4
  <2>2. k + i \in k + 1 .. n /\ e = s[k + i]
    BY <1>1, <1>3, <2>1
  <2> QED BY <2>2
<1> QED BY <1>1, <1>2, <1>5, <1>6

(* What a step adds to the executed blocks are hashes.                     *)
LEMMA NewlyExecutedAreHashes ==
  ASSUME executed \in Seq(Hash), executed' \in Seq(Hash)
  PROVE  NewlyExecuted \subseteq Hash
<1>1. PICK m, n, q : /\ m = Len(executed) + 1 /\ n = Len(executed')
                     /\ q = SubSeq(executed', m, n)
  OBVIOUS
<1>2. m \in Int /\ n \in Int /\ m >= 1
  BY <1>1, LenProperties
<1>3. \A i \in m .. n : executed'[i] \in Hash
  BY <1>1, <1>2, ElementOfSeq
<1>4. q \in Seq(Hash)
  BY <1>1, <1>2, <1>3, SubSeqProperties
<1>5. NewlyExecuted = {q[i] : i \in 1 .. Len(q)}
  BY <1>1, <1>4, LenProperties DEF NewlyExecuted, ToSet
<1>6. \A i \in 1 .. Len(q) : q[i] \in Hash
  BY <1>4, ElementOfSeq
<1> QED BY <1>5, <1>6

(* A push settles blocks in two ways, by executing or by pruning them, and *)
(* each block in one way only.  What it settles is the block pushed or was *)
(* unsettled; whatever it does not settle stays.                           *)
LEMMA PushSettles ==
  ASSUME NEW r, Root = {r}, IInv, LogIsConfirmed, NEW b, Fresh(b), PushAndFix(b)
  PROVE  /\ blocks' \cup pruned' = blocks \cup pruned \cup {b}
         /\ Unsettled' \subseteq Unsettled \cup {b}
         /\ pruned' \ pruned \subseteq (Unsettled \cup {b}) \ Unsettled'
         /\ \A g \in NewlyExecuted :
              \E c \in (Unsettled \cup {b}) \ Unsettled' : BlockHash(c) = g
         /\ \A c \in Unsettled \cup {b} :
              \/ c \in Unsettled' \/ c \in pruned' \ pruned
              \/ BlockHash(c) \in NewlyExecuted
<1>1. PICK kept, chain, cp, to, ex :
        /\ kept = blocks' /\ chain = longest_chain'
        /\ cp = commited_pointer /\ to = commited_pointer' /\ ex = executed'
  OBVIOUS
<1>2. /\ IInv' /\ chain \in kept
      /\ cp \in Nat /\ to \in Nat /\ cp <= to /\ to <= Len(chain)
      /\ Len(executed) = cp /\ Len(ex) = to /\ ex \in Seq(Hash)
      /\ \A i \in 1 .. to : ex[i] = chain[i]
      /\ \A i \in 1 .. cp :
           /\ ex[i] = executed[i]
           /\ executed[i] = longest_chain[i] /\ i \in 1 .. Len(longest_chain)
  BY <1>1, PushStates
<1>3. /\ kept \cup pruned' = blocks \cup pruned \cup {b}
      /\ kept \subseteq blocks \cup {b} /\ pruned \subseteq pruned'
      /\ pruned' \ pruned \subseteq blocks \cup {b}
  BY <1>1 DEF PushAndFix, Losers
<1>4. /\ \A a, c \in kept \cup pruned' : BlockHash(a) = BlockHash(c) => a = c
      /\ kept \cap pruned' = {}
      /\ kept \in SUBSET Path /\ blocks \in SUBSET Path
      /\ chain \in Path
      /\ Losers(kept, chain, N) = {}
      /\ to = SatSub(Len(chain), N)
      /\ \A x \in kept : Front(x) = <<>> \/ Front(x) \in kept
  BY <1>1, <1>2 DEF IInv, TypeOK, HashesUnique, PrunedStayOut, FixIsIdempotent,
                    AncestorsStored, HasPreviousBlock, N
<1>5. /\ b \in Path /\ b \notin blocks \cup pruned
      /\ \A c \in blocks \cup pruned : BlockHash(c) # BlockHash(b)
      /\ blocks \cap pruned = {}
  BY DEF Fresh, IInv, PrunedStayOut
<1>6. \A c \in blocks \cup {b} : Len(c) \in Nat /\ Len(c) >= 1
  BY <1>4, <1>5, PathFacts
<1>7. /\ \A i \in cp + 1 .. to : ex[i] \in NewlyExecuted
      /\ \A g \in NewlyExecuted : \E i \in cp + 1 .. to : g = ex[i]
  <2>1. NewlyExecuted = ToSet(SubSeq(ex, cp + 1, Len(ex)))
    BY <1>1, <1>2 DEF NewlyExecuted
  <2>2. ex \in Seq(Hash) /\ cp \in Nat /\ cp <= Len(ex) /\ Len(ex) = to
    BY <1>2
  <2>3. /\ \A i \in cp + 1 .. Len(ex) : ex[i] \in ToSet(SubSeq(ex, cp + 1, Len(ex)))
        /\ \A g \in ToSet(SubSeq(ex, cp + 1, Len(ex))) :
             \E i \in cp + 1 .. Len(ex) : g = ex[i]
    BY <2>2, TailElements
  <2>4. Len(ex) = to
    BY <2>2
  <2> QED BY <2>1, <2>3, <2>4
<1>8. Unsettled' = {c \in kept : Len(c) > to}
  BY <1>1 DEF Unsettled
<1>9. Unsettled = {c \in blocks : Len(c) > cp}
  BY <1>1 DEF Unsettled
(* Prefixes of the new chain are stored, under their hashes. *)
<1>10. ASSUME NEW i \in 1 .. to
       PROVE  \E p \in kept : Len(p) = i /\ BlockHash(p) = ex[i]
  <2>1. i \in 1 .. Len(chain) /\ ex[i] = chain[i]
    BY <1>2, <1>4, PathFacts
  <2>2. /\ SubSeq(chain, 1, i) \in kept
        /\ Len(SubSeq(chain, 1, i)) = i
        /\ BlockHash(SubSeq(chain, 1, i)) = chain[i]
    BY <1>2, <1>4, <2>1, StoredPrefix
  <2> QED BY <2>1, <2>2
(* A block stored before that is low enough to be executed stays stored. *)
<1>11. ASSUME NEW c \in blocks, Len(c) <= cp PROVE c \in kept
  <2>1. Len(c) \in 1 .. cp /\ BlockHash(c) = executed[Len(c)]
    <3>1. longest_chain \in Path /\ Losers(blocks, longest_chain, N) = {}
          /\ cp = SatSub(Len(longest_chain), N)
      <4>1. blocks # {}
        OBVIOUS
      <4> QED BY <1>1, <4>1 DEF IInv, TypeOK, ChainIsBest, FixIsIdempotent
    <3>2. Len(c) \in 1 .. cp /\ BlockHash(c) = longest_chain[Len(c)]
      BY <1>4, <1>11, <3>1, LowBlocksAreConfirmed
    <3> QED BY <1>2, <3>2
  <2>2. Len(c) \in 1 .. to /\ BlockHash(c) = ex[Len(c)]
    BY <1>2, <2>1
  <2>3. PICK p \in kept : BlockHash(p) = BlockHash(c)
    BY <1>10, <2>2
  <2> QED BY <1>3, <1>4, <2>3
<1>12. Unsettled' \subseteq Unsettled \cup {b}
  BY <1>2, <1>3, <1>6, <1>8, <1>9
<1>13. pruned' \ pruned \subseteq (Unsettled \cup {b}) \ Unsettled'
  <2> SUFFICES ASSUME NEW c \in pruned' \ pruned
               PROVE  c \in Unsettled \cup {b} /\ c \notin Unsettled'
    OBVIOUS
  <2>1. c \notin kept /\ c \in blocks \cup {b}
    BY <1>3, <1>4
  <2> QED BY <1>2, <1>6, <1>8, <1>9, <1>11, <2>1
<1>14. ASSUME NEW g \in NewlyExecuted
       PROVE  \E c \in (Unsettled \cup {b}) \ Unsettled' : BlockHash(c) = g
  <2>1. PICK i \in cp + 1 .. to : g = ex[i]
    BY <1>7
  <2>2. PICK p \in kept : Len(p) = i /\ BlockHash(p) = g
    BY <1>2, <1>10, <2>1
  <2>3. p \in Unsettled \cup {b} /\ p \notin Unsettled'
    BY <1>2, <1>3, <1>8, <1>9, <2>1, <2>2
  <2> QED BY <2>2, <2>3
<1>15. ASSUME NEW c \in Unsettled \cup {b}, c \notin Unsettled', c \notin pruned' \ pruned
       PROVE  BlockHash(c) \in NewlyExecuted
  <2>1. c \in kept /\ c \in blocks \cup {b}
    BY <1>3, <1>5, <1>9, <1>15
  <2>2. Len(c) <= to
    BY <1>2, <1>6, <1>8, <1>15, <2>1
  <2>3. Len(c) \in 1 .. to /\ BlockHash(c) = ex[Len(c)]
    <3>1. Len(c) \in 1 .. to /\ BlockHash(c) = chain[Len(c)]
      <4>1. /\ kept \in SUBSET Path /\ chain \in Path /\ Losers(kept, chain, N) = {}
            /\ c \in kept /\ Len(c) <= SatSub(Len(chain), N)
            /\ to = SatSub(Len(chain), N)
        BY <1>4, <2>1, <2>2
      <4> QED BY <4>1, LowBlocksAreConfirmed
    <3> QED BY <1>2, <3>1
  <2>4. Len(c) > cp
    <3> SUFFICES ASSUME c = b, Len(b) <= cp PROVE FALSE
      BY <1>2, <1>6, <1>9, <2>1
    <3>1. PICK i \in 1 .. cp : i = Len(b)
      BY <1>2, <2>3
    <3>2. BlockHash(b) = longest_chain[i] /\ i \in 1 .. Len(longest_chain)
      BY <1>2, <2>3, <3>1
    <3>3. longest_chain # <<>>
      BY <3>2, EmptySeq
    <3>4. longest_chain \in blocks /\ \A x \in blocks : Front(x) = <<>> \/ Front(x) \in blocks
      BY <3>3 DEF IInv, ChainIsBest, AncestorsStored, HasPreviousBlock
    <3>5. /\ SubSeq(longest_chain, 1, i) \in blocks
          /\ BlockHash(SubSeq(longest_chain, 1, i)) = longest_chain[i]
      BY <1>4, <3>2, <3>4, StoredPrefix
    <3> QED BY <1>5, <3>2, <3>5
  <2>5. Len(c) \in cp + 1 .. to
    BY <1>2, <2>3, <2>4
  <2> QED BY <1>7, <2>3, <2>5
<1> QED BY <1>1, <1>3, <1>12, <1>13, <1>14, <1>15

=============================================================================
