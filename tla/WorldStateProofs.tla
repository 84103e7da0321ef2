-------------------------- MODULE WorldStateProofs --------------------------
(***************************************************************************)
(* Proofs about WorldState, for every set of users, auction ids, nonces    *)
(* and times, and for blocks of every size.                                *)
(***************************************************************************)
EXTENDS WorldState, SequenceTheorems, NaturalsInduction, WellFoundedInduction, TLAPS

(* What is common to the executed transactions: they use the next nonce of *)
(* their sender, and the sender's account is at the one after it.          *)
LEMMA UseNonceFacts ==
  ASSUME TypeOK, NEW t \in Transaction, Executable(t), UseNonce(t)
  PROVE  /\ t.from \in PublicKey /\ t.nonce \in Nat
         /\ t.nonce = NextNonce(t.from)
         /\ DOMAIN accounts' = DOMAIN accounts \cup {t.from}
         /\ accounts'[t.from] = t.nonce + 1
         /\ \A k \in DOMAIN accounts \ {t.from} : accounts'[k] = accounts[k]
<1>1. t.from \in PublicKey /\ t.nonce \in Nat
  BY NonceAssumption
  DEF Transaction, CreateUserAccountTx, BidTx, CreateAuctionTx, StopAuctionTx
<1>2. t.nonce = NextNonce(t.from)
  BY DEF Executable, NonceMatches, NextNonce, CreateUserAccountTx
<1>3. accounts' = Put(accounts, t.from, t.nonce + 1)
  BY <1>2 DEF UseNonce
<1>4. /\ DOMAIN accounts' = DOMAIN accounts \cup {t.from}
      /\ accounts'[t.from] = t.nonce + 1
      /\ \A k \in DOMAIN accounts \ {t.from} : accounts'[k] = accounts[k]
  BY <1>3 DEF Put
<1> QED BY <1>1, <1>2, <1>4

(* At the start there is nothing that could be out of order. *)
LEMMA InitFacts == Init => TypeOK /\ NonceDiscipline /\ AuctionsBacked
<1>1. ASSUME Init, NEW k \in PublicKey
      PROVE  applied[k] = [i \in 1 .. NextNonce(k) |-> i - 1]
  <2>1. NextNonce(k) = 0 /\ applied[k] = <<>>
    BY <1>1 DEF Init, NextNonce, Known
  <2>2. <<>> = [i \in 1 .. 0 |-> i - 1]
    OBVIOUS
  <2> QED BY <2>1, <2>2
<1>2. Init => TypeOK /\ AuctionsBacked
  BY DEF Init, TypeOK, AuctionsBacked
<1> QED BY <1>1, <1>2 DEF NonceDiscipline

-----------------------------------------------------------------------------
(* Types *)

(* What execute_single_transaction may do with t, in a block of any size.  *)
Executes(t) ==
  CreateUserAccount(t) \/ Bid(t) \/ CreateAuction(t) \/ StopAuction(t) \/ Reject(t)

(* A step executes or rejects one transaction, or goes on to a new block. *)
LEMMA NextExecutes ==
  ASSUME [Next]_vars
  PROVE  (\E t \in Transaction : Executes(t)) \/ NextBlock \/ UNCHANGED vars
  BY DEF Next, Executes

(* A transaction that is executed uses a nonce, one that is not changes    *)
(* nobody's.                                                               *)
LEMMA ExecutionUsesNonce ==
  ASSUME NEW t, Executes(t) \/ NextBlock
  PROVE  \/ t \in Transaction /\ Executable(t) /\ UseNonce(t)
         \/ UNCHANGED <<accounts, applied>>
  BY DEF Executes, Transaction, CreateUserAccount, Bid, CreateAuction, StopAuction,
         Reject, NextBlock

(* What a CreateAuction does to the auctions and to the block. *)
LEMMA CreationFacts ==
  ASSUME TypeOK, NEW t, CreateAuction(t)
  PROVE  /\ t \in CreateAuctionTx /\ t.auction_id \in AuctionId /\ t.stop_time \in Time
         /\ block' \in Seq(CreateAuctionTx) /\ block' # <<>> /\ Last(block') = t
         /\ DOMAIN auctions' = DOMAIN auctions \cup {t.auction_id}
         /\ auctions'[t.auction_id].block = block'
         /\ auctions'[t.auction_id].stop_time = t.stop_time
         /\ \A id \in DOMAIN auctions \ {t.auction_id} : auctions'[id] = auctions[id]
<1>1. /\ t \in CreateAuctionTx /\ block' = Append(block, t)
      /\ auctions' = Put(auctions, t.auction_id,
                         [block |-> block', stop_time |-> t.stop_time])
  BY DEF CreateAuction
<1>2. block' \in Seq(CreateAuctionTx) /\ block' # <<>> /\ Last(block') = t
  BY <1>1, AppendProperties DEF TypeOK, Last
<1>3. t.auction_id \in AuctionId /\ t.stop_time \in Time
  BY <1>1 DEF CreateAuctionTx
<1>4. /\ DOMAIN auctions' = DOMAIN auctions \cup {t.auction_id}
      /\ auctions'[t.auction_id] = [block |-> block', stop_time |-> t.stop_time]
      /\ \A id \in DOMAIN auctions \ {t.auction_id} : auctions'[id] = auctions[id]
  BY <1>1 DEF Put
<1>5. /\ auctions'[t.auction_id].block = block'
      /\ auctions'[t.auction_id].stop_time = t.stop_time
  BY <1>4
<1> QED BY <1>1, <1>2, <1>3, <1>4, <1>5

(* A step opens one auction, closes one, or leaves the auctions alone.     *)
LEMMA ExecutionOfAuctions ==
  ASSUME NEW t, Executes(t) \/ NextBlock
  PROVE  \/ CreateAuction(t)
         \/ /\ StopAuction(t) /\ t \in StopAuctionTx /\ UNCHANGED block
            /\ DOMAIN auctions' = DOMAIN auctions \ {t.auction_id}
            /\ \A id \in DOMAIN auctions' : auctions'[id] = auctions[id]
         \/ UNCHANGED auctions
  BY DEF Executes, CreateUserAccount, Bid, StopAuction, Reject, NextBlock, Restrict

(* Executing any transaction, or going on to the next block, keeps the     *)
(* types.                                                                  *)
LEMMA ExecutionKeepsTypes ==
  ASSUME TypeOK, NEW t, Executes(t) \/ NextBlock
  PROVE  TypeOK'
<1>1. /\ DOMAIN accounts' \subseteq PublicKey
      /\ \A k \in DOMAIN accounts' : accounts'[k] \in Nat
      /\ applied' \in [PublicKey -> Seq(Nat)]
  <2>1. CASE t \in Transaction /\ Executable(t) /\ UseNonce(t)
    <3>1. /\ t.from \in PublicKey /\ t.nonce \in Nat
          /\ DOMAIN accounts' = DOMAIN accounts \cup {t.from}
          /\ accounts'[t.from] = t.nonce + 1
          /\ \A k \in DOMAIN accounts \ {t.from} : accounts'[k] = accounts[k]
      BY <2>1, UseNonceFacts
    <3>2. applied' = [applied EXCEPT ![t.from] = Append(applied[t.from], t.nonce)]
      BY <2>1 DEF UseNonce
    <3>3. Append(applied[t.from], t.nonce) \in Seq(Nat)
      BY <3>1, AppendProperties DEF TypeOK
    <3> QED BY <3>1, <3>2, <3>3 DEF TypeOK
  <2>2. CASE UNCHANGED <<accounts, applied>>
    BY <2>2 DEF TypeOK
  <2> QED BY <2>1, <2>2, ExecutionUsesNonce
<1>2. /\ DOMAIN auctions' \subseteq AuctionId
      /\ \A id \in DOMAIN auctions' :
           auctions'[id].block \in Seq(CreateAuctionTx) /\ auctions'[id].stop_time \in Time
  <2>1. CASE CreateAuction(t)
    <3>1. ASSUME NEW id \in DOMAIN auctions'
          PROVE  auctions'[id].block \in Seq(CreateAuctionTx) /\ auctions'[id].stop_time \in Time
      <4>1. CASE id = t.auction_id
        BY <2>1, <4>1, CreationFacts
      <4>2. CASE id # t.auction_id
        BY <2>1, <3>1, <4>2, CreationFacts DEF TypeOK
      <4> QED BY <4>1, <4>2
    <3>2. DOMAIN auctions' \subseteq AuctionId
      BY <2>1, CreationFacts DEF TypeOK
    <3> QED BY <3>1, <3>2
  <2>2. CASE ~CreateAuction(t)
    BY <2>2, ExecutionOfAuctions DEF TypeOK
  <2> QED BY <2>1, <2>2
<1>3. block' \in Seq(CreateAuctionTx)
  <2>1. CASE CreateAuction(t)
    BY <2>1, CreationFacts
  <2>2. CASE Reject(t)
    BY <2>2, AppendProperties DEF Reject, TypeOK
  <2>3. CASE NextBlock
    BY <2>3 DEF NextBlock
  <2>4. CASE UNCHANGED block
    BY <2>4 DEF TypeOK
  <2> QED BY <2>1, <2>2, <2>3, <2>4 DEF Executes, CreateUserAccount, Bid, StopAuction
<1> QED BY <1>1, <1>2, <1>3 DEF TypeOK

(* Executing a transaction keeps accounts, auctions and blocks well-formed:*)
(* only known users get accounts, and an open auction keeps its block.     *)
THEOREM TypeInvariance == Spec => []TypeOK
<1>1. Init => TypeOK
  BY InitFacts
<1>2. TypeOK /\ [Next]_vars => TypeOK'
  <2>1. TypeOK /\ UNCHANGED vars => TypeOK'
    BY DEF TypeOK, vars
  <2> QED BY <2>1, NextExecutes, ExecutionKeepsTypes
<1> QED BY <1>1, <1>2, PTL DEF Spec

-----------------------------------------------------------------------------
(* Nonces *)

(* Executing any transaction keeps the nonces of every account in order.   *)
LEMMA ExecutionKeepsDiscipline ==
  ASSUME TypeOK, NonceDiscipline, NEW t, Executes(t) \/ NextBlock
  PROVE  NonceDiscipline'
<1> SUFFICES ASSUME NEW k \in PublicKey
             PROVE  applied'[k] = [i \in 1 .. NextNonce(k)' |-> i - 1]
  BY DEF NonceDiscipline
<1>1. applied[k] = [i \in 1 .. NextNonce(k) |-> i - 1]
  BY DEF NonceDiscipline
<1>2. CASE UNCHANGED <<accounts, applied>>
  BY <1>1, <1>2 DEF NextNonce, Known
<1>3. CASE t \in Transaction /\ Executable(t) /\ UseNonce(t)
  <2>1. /\ t.from \in PublicKey /\ t.nonce \in Nat
        /\ t.nonce = NextNonce(t.from)
        /\ DOMAIN accounts' = DOMAIN accounts \cup {t.from}
        /\ accounts'[t.from] = t.nonce + 1
        /\ \A j \in DOMAIN accounts \ {t.from} : accounts'[j] = accounts[j]
    BY <1>3, UseNonceFacts
  <2>2. applied' = [applied EXCEPT ![t.from] = Append(applied[t.from], t.nonce)]
    BY <1>3 DEF UseNonce
  <2>3. CASE k # t.from
    <3>1. applied'[k] = applied[k]
      BY <2>2, <2>3 DEF TypeOK
    <3>2. NextNonce(k)' = NextNonce(k)
      BY <2>1, <2>3 DEF NextNonce, Known
    <3> QED BY <1>1, <3>1, <3>2
  <2>4. CASE k = t.from
    <3> DEFINE old == applied[k]
               new == [i \in 1 .. t.nonce + 1 |-> i - 1]
    <3>1. NextNonce(k)' = t.nonce + 1
      BY <2>1, <2>4 DEF NextNonce, Known
    <3>2. applied'[k] = Append(old, t.nonce)
      BY <2>2, <2>4 DEF TypeOK
    <3>3. /\ old = [i \in 1 .. t.nonce |-> i - 1]
          /\ old \in Seq(Nat)
      BY <1>1, <2>1, <2>4 DEF TypeOK
    <3>4. Len(old) = t.nonce /\ \A i \in 1 .. t.nonce : old[i] = i - 1
      BY <2>1, <3>3, LenProperties
    <3> HIDE DEF old
    <3>5. /\ Append(old, t.nonce) \in Seq(Nat)
          /\ Len(Append(old, t.nonce)) = t.nonce + 1
          /\ \A i \in 1 .. t.nonce : Append(old, t.nonce)[i] = i - 1
          /\ Append(old, t.nonce)[t.nonce + 1] = t.nonce
      BY <2>1, <3>3, <3>4, AppendProperties
    <3>6. \A i \in 1 .. t.nonce + 1 : Append(old, t.nonce)[i] = i - 1
      BY <2>1, <3>5
    <3>7. Append(old, t.nonce) = [i \in 1 .. t.nonce + 1 |-> i - 1]
      <4>1. /\ new \in Seq(Nat) /\ Len(new) = t.nonce + 1
            /\ \A i \in 1 .. t.nonce + 1 : new[i] = i - 1
        BY <2>1
      <4> HIDE DEF new
      <4>2. Append(old, t.nonce) = new
        BY <3>5, <3>6, <4>1, SeqEqual
      <4> QED BY <4>2 DEF new
    <3> QED BY <3>1, <3>2, <3>7
  <2> QED BY <2>3, <2>4
<1> QED BY <1>2, <1>3, ExecutionUsesNonce

(* What an account has executed is exactly its nonces from 0 to the one    *)
(* before its next, in order and each once: execute_single_transaction     *)
(* executes no transaction twice and leaves none out, although blocks may  *)
(* hold any transactions in any order and any number of times.             *)
THEOREM NoncesAreDisciplined == Spec => []NonceDiscipline
<1>1. Init => NonceDiscipline
  BY InitFacts
<1>2. TypeOK /\ NonceDiscipline /\ [Next]_vars => NonceDiscipline'
  <2>1. NonceDiscipline /\ UNCHANGED vars => NonceDiscipline'
    BY DEF NonceDiscipline, NextNonce, Known, vars
  <2> QED BY <2>1, NextExecutes, ExecutionKeepsDiscipline
<1> QED BY <1>1, <1>2, TypeInvariance, PTL DEF Spec

-----------------------------------------------------------------------------
(* Auctions *)

(* What AuctionsBacked says of one auction, and of two. *)
Backed(id) ==
  /\ auctions[id].block # <<>>
  /\ Opening(id).auction_id = id
  /\ Opening(id).nonce \in Range(applied[Opening(id).from])
Distinct(i, j) ==
  /\ Opening(i).from = Opening(j).from
  /\ Opening(i).nonce = Opening(j).nonce
  => i = j

(* The nonce that an account is at has not been executed. *)
LEMMA NextNonceIsNew ==
  ASSUME TypeOK, NonceDiscipline, NEW k \in PublicKey
  PROVE  NextNonce(k) \notin Range(applied[k])
<1>1. NextNonce(k) \in Nat
  BY DEF NextNonce, Known, TypeOK
<1>2. applied[k] = [i \in 1 .. NextNonce(k) |-> i - 1]
  BY DEF NonceDiscipline
<1>3. \A i \in DOMAIN applied[k] : applied[k][i] < NextNonce(k)
  BY <1>1, <1>2
<1> QED BY <1>1, <1>3 DEF Range

(* Executed transactions stay executed, and the new one is among them. *)
LEMMA AppliedGrows ==
  ASSUME TypeOK, NEW t \in Transaction, Executable(t), UseNonce(t)
  PROVE  /\ \A k \in PublicKey : Range(applied[k]) \subseteq Range(applied'[k])
         /\ t.nonce \in Range(applied'[t.from])
<1>1. t.from \in PublicKey /\ t.nonce \in Nat
  BY UseNonceFacts
<1>2. applied' = [applied EXCEPT ![t.from] = Append(applied[t.from], t.nonce)]
  BY DEF UseNonce
<1>3. PICK old : old = applied[t.from]
  OBVIOUS
<1>4. old \in Seq(Nat)
  BY <1>1, <1>3 DEF TypeOK
<1>5. applied'[t.from] = Append(old, t.nonce)
  BY <1>1, <1>2, <1>3 DEF TypeOK
<1>6. /\ DOMAIN Append(old, t.nonce) = 1 .. Len(old) + 1
      /\ DOMAIN old = 1 .. Len(old)
      /\ \A i \in 1 .. Len(old) : Append(old, t.nonce)[i] = old[i]
      /\ Append(old, t.nonce)[Len(old) + 1] = t.nonce
      /\ Len(old) \in Nat
  BY <1>1, <1>4, AppendProperties, LenProperties
<1>7. Range(old) \subseteq Range(Append(old, t.nonce))
  BY <1>6 DEF Range
<1>8. t.nonce \in Range(Append(old, t.nonce))
  BY <1>6 DEF Range
<1>9. ASSUME NEW k \in PublicKey
      PROVE  Range(applied[k]) \subseteq Range(applied'[k])
  <2>1. CASE k = t.from
    BY <1>3, <1>5, <1>7, <2>1
  <2>2. CASE k # t.from
    BY <1>2, <2>2 DEF TypeOK
  <2> QED BY <2>1, <2>2
<1> QED BY <1>5, <1>8, <1>9

(* Auctions that a step leaves as they were stay backed. *)
LEMMA UntouchedStayBacked ==
  ASSUME TypeOK, AuctionsBacked,
         \A k \in PublicKey : Range(applied[k]) \subseteq Range(applied'[k]),
         NEW id \in DOMAIN auctions, id \in DOMAIN auctions',
         auctions'[id] = auctions[id]
  PROVE  Backed(id)' /\ Opening(id)' = Opening(id)
<1>1. Opening(id)' = Opening(id)
  BY DEF Opening
<1>2. Opening(id).from \in PublicKey
  <2>1. auctions[id].block \in Seq(CreateAuctionTx) /\ auctions[id].block # <<>>
    BY DEF TypeOK, AuctionsBacked
  <2>2. Last(auctions[id].block) \in CreateAuctionTx
    BY <2>1 DEF Last
  <2> QED BY <2>2 DEF Opening, CreateAuctionTx
<1> QED BY <1>1, <1>2 DEF Backed, AuctionsBacked

(* Executing any transaction keeps every open auction backed. *)
LEMMA ExecutionKeepsBacked ==
  ASSUME TypeOK, NonceDiscipline, AuctionsBacked, NEW t, Executes(t) \/ NextBlock
  PROVE  AuctionsBacked'
<1> USE DEF Backed, Distinct
<1>1. ASSUME DOMAIN auctions' \subseteq DOMAIN auctions,
             \A id \in DOMAIN auctions' : auctions'[id] = auctions[id],
             \A k \in PublicKey : Range(applied[k]) \subseteq Range(applied'[k])
      PROVE  AuctionsBacked'
  <2>1. \A id \in DOMAIN auctions' : Backed(id)' /\ Opening(id)' = Opening(id)
    BY <1>1, UntouchedStayBacked
  <2>2. \A i, j \in DOMAIN auctions' : Distinct(i, j)'
    BY <1>1, <2>1 DEF AuctionsBacked
  <2> QED BY <2>1, <2>2 DEF AuctionsBacked
<1>2. CASE CreateAuction(t)
  <2>1. t \in Transaction /\ Executable(t) /\ UseNonce(t)
    BY <1>2 DEF CreateAuction, Transaction
  <2>2. /\ DOMAIN auctions' = DOMAIN auctions \cup {t.auction_id}
        /\ auctions'[t.auction_id].block = block'
        /\ \A id \in DOMAIN auctions \ {t.auction_id} : auctions'[id] = auctions[id]
    BY <1>2, CreationFacts
  <2>3. block' # <<>> /\ Last(block') = t
    BY <1>2, CreationFacts
  <2>4. Opening(t.auction_id)' = t
    BY <2>2, <2>3 DEF Opening
  <2>5. /\ \A k \in PublicKey : Range(applied[k]) \subseteq Range(applied'[k])
        /\ t.nonce \in Range(applied'[t.from])
    BY <2>1, AppliedGrows
  <2>6. Backed(t.auction_id)'
    BY <2>2, <2>3, <2>4, <2>5
  <2>7. \A id \in DOMAIN auctions \ {t.auction_id} :
          Backed(id)' /\ Opening(id)' = Opening(id)
    BY <2>2, <2>5, UntouchedStayBacked
  <2>8. t.from \in PublicKey /\ t.nonce \notin Range(applied[t.from])
    BY <2>1, UseNonceFacts, NextNonceIsNew
  <2>9. ASSUME NEW i \in DOMAIN auctions \ {t.auction_id}
        PROVE  ~(Opening(i).from = t.from /\ Opening(i).nonce = t.nonce)
    BY <2>8, <2>9 DEF AuctionsBacked
  <2>10. ASSUME NEW i \in DOMAIN auctions', NEW j \in DOMAIN auctions'
         PROVE  Distinct(i, j)'
    <3>1. CASE i # t.auction_id /\ j # t.auction_id
      BY <2>2, <2>7, <3>1 DEF AuctionsBacked
    <3>2. CASE i = t.auction_id /\ j # t.auction_id
      BY <2>2, <2>4, <2>7, <2>9, <3>2
    <3>3. CASE i # t.auction_id /\ j = t.auction_id
      BY <2>2, <2>4, <2>7, <2>9, <3>3
    <3> QED BY <3>1, <3>2, <3>3
  <2> QED BY <2>2, <2>6, <2>7, <2>10 DEF AuctionsBacked
<1>3. CASE ~CreateAuction(t)
  <2>1. /\ DOMAIN auctions' \subseteq DOMAIN auctions
        /\ \A id \in DOMAIN auctions' : auctions'[id] = auctions[id]
    BY <1>3, ExecutionOfAuctions
  <2>2. \A k \in PublicKey : Range(applied[k]) \subseteq Range(applied'[k])
    BY ExecutionUsesNonce, AppliedGrows
  <2> QED BY <1>1, <2>1, <2>2
<1> QED BY <1>2, <1>3

(* An open auction goes back to a transaction that its sender executed,    *)
(* and two open auctions to two transactions: a CreateAuction replaces the *)
(* auction of its id, and its nonce is one nobody has used.                *)
THEOREM AuctionsAreBacked == Spec => []AuctionsBacked
<1>1. Init => AuctionsBacked
  BY InitFacts
<1>2. TypeOK /\ NonceDiscipline /\ AuctionsBacked /\ [Next]_vars => AuctionsBacked'
  <2>1. AuctionsBacked /\ UNCHANGED vars => AuctionsBacked'
    BY DEF AuctionsBacked, Opening, vars
  <2> QED BY <2>1, NextExecutes, ExecutionKeepsBacked
<1> QED BY <1>1, <1>2, TypeInvariance, NoncesAreDisciplined, PTL DEF Spec

-----------------------------------------------------------------------------
(* Stop times *)

(* A set of natural numbers that is not empty has a least element. *)
LEMMA LeastElement ==
  ASSUME NEW D, D \subseteq Nat, D # {}
  PROVE  \E j \in D : \A i \in D : j <= i
<1> DEFINE R == OpToRel(<, Nat)
<1>1. IsWellFoundedOn(R, Nat)
  BY NatLessThanWellFounded
<1>2. \A i, j \in Nat : i < j => <<i, j>> \in R
  BY Zenon DEF OpToRel
<1> HIDE DEF R
<1>3. PICK j \in D : \A i \in D : <<i, j>> \notin R
  BY <1>1, WFMin, Zenon
<1>4. \A i \in D : ~(i < j)
  BY <1>2, <1>3, Zenon
<1> QED BY <1>4

(* An auction stops when the transaction that opened it says. *)
StopTimesOfOpenings ==
  \A id \in DOMAIN auctions : auctions[id].stop_time = Opening(id).stop_time

(* The block that opened an auction holds one creation of it, so that the  *)
(* look-up in that block, which finds the first, finds the one that did.   *)
CreatedOnce(id) ==
  \A c \in ToSet(auctions[id].block) : c.auction_id = id => c = Opening(id)

(* An auction that is open keeps the stop time it was opened with, until   *)
(* it is closed.                                                           *)
LEMMA ExecutionKeepsStopTimes ==
  ASSUME TypeOK, StopTimesOfOpenings, NEW t, Executes(t) \/ NextBlock
  PROVE  StopTimesOfOpenings'
<1>1. CASE CreateAuction(t)
  BY <1>1, CreationFacts DEF StopTimesOfOpenings, Opening
<1>2. CASE ~CreateAuction(t)
  BY <1>2, ExecutionOfAuctions DEF StopTimesOfOpenings, Opening
<1> QED BY <1>1, <1>2

(* What get_auction() finds is the transaction that opened the auction.    *)
LEMMA OpeningIsFound ==
  ASSUME TypeOK, AuctionsBacked, NEW id, Open(id), CreatedOnce(id)
  PROVE  Opening(id) \in GetAuction(id)
<1>1. PICK b : b = auctions[id].block
  OBVIOUS
<1>2. /\ b \in Seq(CreateAuctionTx) /\ Len(b) \in Nat /\ b # <<>>
      /\ Last(b) = Opening(id) /\ Opening(id).auction_id = id
  BY <1>1 DEF TypeOK, AuctionsBacked, Open, Opening
<1> DEFINE found == {i \in 1 .. Len(b) : b[i].auction_id = id}
<1>3. found \subseteq Nat /\ found # {}
  BY <1>2 DEF Last
<1>4. PICK j \in found : \A k \in found : j <= k
  <2> HIDE DEF found
  <2> QED BY <1>3, LeastElement
<1>5. b[j] = Opening(id)
  <2>1. b[j] \in ToSet(b)
    BY <1>4 DEF ToSet
  <2> QED BY <1>1, <1>4, <2>1 DEF CreatedOnce
<1> QED BY <1>1, <1>4, <1>5 DEF GetAuction, Open

(* Whoever is not the creator stops an auction at its stop time or after.  *)
LEMMA StopsAreDue ==
  ASSUME TypeOK, AuctionsBacked, StopTimesOfOpenings, NEW t, StopAuction(t),
         Open(t.auction_id), CreatedOnce(t.auction_id),
         t.timestamp < auctions[t.auction_id].stop_time
  PROVE  t.from = Opening(t.auction_id).from
<1>1. MayStop(t)
  BY DEF StopAuction, Executable, StopAuctionTx, CreateUserAccountTx, BidTx, CreateAuctionTx
<1>2. Opening(t.auction_id) \in GetAuction(t.auction_id)
  BY OpeningIsFound
<1> QED BY <1>1, <1>2 DEF MayStop, StopTimesOfOpenings, Open

(* "Only the creator can end the auction early", provided that its block   *)
(* creates it once: what is looked up is then what opened the auction.     *)
THEOREM OnlyCreatorEndsEarlyOnce ==
  Spec => [][\A t \in StopAuctionTx :
               /\ Open(t.auction_id) /\ CreatedOnce(t.auction_id)
               /\ StopAuction(t)
               /\ t.timestamp < auctions[t.auction_id].stop_time
               => t.from = Opening(t.auction_id).from]_vars
<1>1. Init => StopTimesOfOpenings
  BY DEF Init, StopTimesOfOpenings
<1>2. TypeOK /\ StopTimesOfOpenings /\ [Next]_vars => StopTimesOfOpenings'
  <2>1. StopTimesOfOpenings /\ UNCHANGED vars => StopTimesOfOpenings'
    BY DEF StopTimesOfOpenings, Opening, vars
  <2> QED BY <2>1, NextExecutes, ExecutionKeepsStopTimes
<1>3. TypeOK /\ AuctionsBacked /\ StopTimesOfOpenings
      => \A t \in StopAuctionTx :
           /\ Open(t.auction_id) /\ CreatedOnce(t.auction_id)
           /\ StopAuction(t)
           /\ t.timestamp < auctions[t.auction_id].stop_time
           => t.from = Opening(t.auction_id).from
  BY StopsAreDue
<1> QED BY <1>1, <1>2, <1>3, TypeInvariance, AuctionsAreBacked, PTL DEF Spec
=============================================================================
