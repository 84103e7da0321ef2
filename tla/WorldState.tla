----------------------------- MODULE WorldState -----------------------------
(***************************************************************************)
(* The state that executed transactions build: accounts with their nonces  *)
(* and open auctions (execute_single_transaction and trait WorldState in   *)
(* blockchain.rs).  Blocks are executed one transaction at a time; a block *)
(* is revealed as it is executed, because a look-up of an auction only     *)
(* depends on the part of the block up to the transaction that opened it.  *)
(*                                                                         *)
(* Abstracted: signatures (whether Transaction::verify accepts one is      *)
(* free), start amounts and bids, which no executed step looks at, and    *)
(* the id of a transaction.  Of a block only the CreateAuction             *)
(* transactions are kept, the only ones ever looked up in it.  The block   *)
(* that opened an auction is taken to be still stored, which BlockTree     *)
(* guarantees when there is one root.                                      *)
(***************************************************************************)
EXTENDS Integers, SequencesExt

CONSTANTS
  PublicKey,  \* the users
  AuctionId,
  Nonce,      \* the nonces transactions carry
  Time,       \* the timestamps and stop times transactions carry
  MaxCreations  \* bound: CreateAuction transactions in one block

ASSUME NonceAssumption == Nonce \subseteq Nat
ASSUME TimeAssumption  == Time \subseteq Nat

CreateUserAccountTx ==
  [kind : {"CreateUserAccount"}, from : PublicKey, nonce : Nonce,
   public_key : PublicKey]
BidTx ==
  [kind : {"Bid"}, from : PublicKey, nonce : Nonce, auction_id : AuctionId]
CreateAuctionTx ==
  [kind : {"CreateAuction"}, from : PublicKey, nonce : Nonce,
   auction_id : AuctionId, stop_time : Time]
StopAuctionTx ==
  [kind : {"StopAuction"}, from : PublicKey, nonce : Nonce,
   auction_id : AuctionId, timestamp : Time]
Transaction ==
  CreateUserAccountTx \cup BidTx \cup CreateAuctionTx \cup StopAuctionTx

VARIABLES
  accounts,  \* public key |-> nonce the account's next transaction must have
  auctions,  \* id of an open auction |-> the block that opened it, stop time
  block,     \* the CreateAuction transactions of the current block so far
  applied    \* history: public key |-> the nonces executed, in order

vars == <<accounts, auctions, block, applied>>

Init ==
  /\ accounts = <<>>
  /\ auctions = <<>>
  /\ block = <<>>
  /\ applied = [k \in PublicKey |-> <<>>]

-----------------------------------------------------------------------------

Known(key) == key \in DOMAIN accounts
Open(id)   == id \in DOMAIN auctions

(* HashMap::insert *)
Put(map, key, value) ==
  [k \in DOMAIN map \cup {key} |-> IF k = key THEN value ELSE map[k]]

(* get_auction(): the first CreateAuction with this id in the block that   *)
(* opened the auction, as a set of at most one transaction.                *)
GetAuction(id) ==
  IF ~Open(id) THEN {}
  ELSE LET b == auctions[id].block
           found == {i \in 1 .. Len(b) : b[i].auction_id = id}
       IN  {b[i] : i \in {j \in found : \A k \in found : j <= k}}

(* Mutant: a nonce from the future is taken. *)
NonceMatches_Future(t) == Known(t.from) /\ t.nonce >= accounts[t.from]

(* The sender's account exists and expects the nonce of the transaction.   *)
NonceMatches(t) == Known(t.from) /\ t.nonce = accounts[t.from]

(* Mutant: anybody may stop an auction at any time. *)
MayStop_Anytime(t) == TRUE

(* Before its stop time, only who created an auction may stop it.  An id   *)
(* that is not open is stopped without effect.                             *)
MayStop(t) ==
  \A c \in GetAuction(t.auction_id) :
    t.timestamp < c.stop_time => t.from = c.from

(* The checks of execute_single_transaction after the signature. *)
Executable(t) ==
  \/ /\ t \in CreateUserAccountTx
     /\ t.from = t.public_key
     /\ t.nonce = 0
     /\ ~Known(t.public_key)
  \/ t \in BidTx /\ NonceMatches(t)
  \/ t \in CreateAuctionTx /\ NonceMatches(t)
  \/ t \in StopAuctionTx /\ MayStop(t) /\ NonceMatches(t)

(* The nonce the next transaction of k must have, 0 without an account. *)
NextNonce(k) == IF Known(k) THEN accounts[k] ELSE 0

(* The sender's nonce goes up by one; a new account starts at one. *)
UseNonce(t) ==
  /\ accounts' = Put(accounts, t.from, NextNonce(t.from) + 1)
  /\ applied' = [applied EXCEPT ![t.from] = Append(@, t.nonce)]

CreateUserAccount(t) ==
  /\ t \in CreateUserAccountTx
  /\ Executable(t)
  /\ UseNonce(t)
  /\ UNCHANGED <<auctions, block>>

Bid(t) ==
  /\ t \in BidTx
  /\ Executable(t)
  /\ UseNonce(t)
  /\ UNCHANGED <<auctions, block>>

(* Mutants: the block is recorded as it was before the transaction; the    *)
(* auction stops one second late.                                          *)
CreateAuction_BlockBefore(t) ==
  /\ t \in CreateAuctionTx
  /\ Executable(t)
  /\ UseNonce(t)
  /\ block' = Append(block, t)
  /\ auctions' = Put(auctions, t.auction_id, [block |-> block,
                                              stop_time |-> t.stop_time])
CreateAuction_StopsLate(t) ==
  /\ t \in CreateAuctionTx
  /\ Executable(t)
  /\ UseNonce(t)
  /\ block' = Append(block, t)
  /\ auctions' = Put(auctions, t.auction_id, [block |-> Append(block, t),
                                              stop_time |-> t.stop_time + 1])

(* An auction that is open under this id is replaced. *)
CreateAuction(t) ==
  /\ t \in CreateAuctionTx
  /\ Executable(t)
  /\ UseNonce(t)
  /\ block' = Append(block, t)
  /\ auctions' = Put(auctions, t.auction_id, [block |-> Append(block, t),
                                              stop_time |-> t.stop_time])

StopAuction(t) ==
  /\ t \in StopAuctionTx
  /\ Executable(t)
  /\ UseNonce(t)
  /\ auctions' = Restrict(auctions, DOMAIN auctions \ {t.auction_id})
  /\ UNCHANGED block

(* A transaction that fails a check stays in the block and has no effect.  *)
(* The first check is Transaction::verify, which may refuse any of them.   *)
Reject(t) ==
  /\ block' = IF t \in CreateAuctionTx THEN Append(block, t) ELSE block
  /\ UNCHANGED <<accounts, auctions, applied>>

(* execute_transactions() goes on to the next block. *)
NextBlock ==
  /\ block' = <<>>
  /\ UNCHANGED <<accounts, auctions, applied>>

(* There is room for t in the block. *)
Fits(t) == t \in CreateAuctionTx => Len(block) < MaxCreations

Next ==
  \/ \E t \in Transaction : CreateUserAccount(t)
  \/ \E t \in Transaction : Bid(t)
  \/ \E t \in Transaction : Fits(t) /\ CreateAuction(t)
  \/ \E t \in Transaction : StopAuction(t)
  \/ \E t \in Transaction : Fits(t) /\ Reject(t)
  \/ NextBlock

Spec == Init /\ [][Next]_vars

-----------------------------------------------------------------------------

(* Accounts, auctions and the block have their types. *)
TypeOK ==
  /\ DOMAIN accounts \subseteq PublicKey
  /\ \A k \in DOMAIN accounts : accounts[k] \in Nat
  /\ DOMAIN auctions \subseteq AuctionId
  /\ \A id \in DOMAIN auctions :
       auctions[id].block \in Seq(CreateAuctionTx) /\ auctions[id].stop_time \in Time
  /\ block \in Seq(CreateAuctionTx)
  /\ applied \in [PublicKey -> Seq(Nat)]

(* What an account has executed is exactly its nonces 0, 1, ... up to the  *)
(* one it is at, each once and in this order, however often and in         *)
(* whichever blocks its transactions appear.                               *)
NonceDiscipline ==
  \A k \in PublicKey :
    applied[k] = [i \in 1 .. NextNonce(k) |-> i - 1]

(* The transaction that opened an auction. *)
Opening(id) == Last(auctions[id].block)

(* An open auction goes back to a CreateAuction for its id that its sender *)
(* has executed, and no two of them to the same one.                       *)
AuctionsBacked ==
  /\ \A id \in DOMAIN auctions :
       /\ auctions[id].block # <<>>
       /\ Opening(id).auction_id = id
       /\ Opening(id).nonce \in Range(applied[Opening(id).from])
  /\ \A i, j \in DOMAIN auctions :
       /\ Opening(i).from = Opening(j).from
       /\ Opening(i).nonce = Opening(j).nonce
       => i = j

(* "Only the creator can end the auction early." (blockchain.rs:827): who  *)
(* stops an open auction before its stop time is who opened it.            *)
OnlyCreatorEndsEarly ==
  [][\A t \in StopAuctionTx :
       /\ Open(t.auction_id)
       /\ StopAuction(t)
       /\ t.timestamp < auctions[t.auction_id].stop_time
       => t.from = Opening(t.auction_id).from]_vars
=============================================================================
