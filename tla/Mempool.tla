------------------------------ MODULE Mempool -------------------------------
(***************************************************************************)
(* The transaction pool of one node between the tasks that use it: request *)
(* handlers that admit transactions (state.rs, Blockchain::add_transaction)*)
(* the mining loop that flushes it into a block, blocks of other nodes, and*)
(* the loop that stops expired auctions (vm.rs).  What a block does when   *)
(* it is executed is WorldState.                                           *)
(*                                                                         *)
(* Of the chain only its last blocks are kept, those not executed yet      *)
(* (`window`); what is before them never changes (BlockTree:               *)
(* ConfirmedStable), and a reorganisation replaces blocks of the window.   *)
(* A block is executed one transaction per step; the lock is held          *)
(* meanwhile, so no other action of the node is enabled.  Time is in       *)
(* seconds.  Abstracted: signatures are valid, two equal requests of one   *)
(* second are one, and has_transaction looks at the chain only.            *)
(***************************************************************************)
EXTENDS Integers, SequencesExt

CONSTANTS
  PublicKey, AuctionId, Nonce, Time,  \* as in WorldState
  Miner,                      \* the key of this node
  Signed,                     \* the transactions anybody signs, not yet stamped
  Id,                         \* their ids, as numbers
  Submitted,                  \* those that clients send to this node
  ForeignBlocks,              \* the blocks other nodes mine
  MAX_TRANSACTION_POOL_SIZE,
  EXECUTE_AFTER_N_BLOCKS,
  MIN_TX_INTERVAL,            \* seconds
  MaxTime,                    \* bound: the clock
  MaxSubmissions,             \* bound: requests received
  MaxForeign                  \* bound: times a foreign block becomes the tip

ASSUME KeysAssumption == Miner \in PublicKey /\ Submitted \subseteq Signed
ASSUME IdAssumption ==
  /\ Id \in [Signed -> Nat]
  /\ \A s, u \in Signed : Id[s] = Id[u] => s = u
ASSUME WorldAssumption == Nonce \subseteq Nat /\ Time \subseteq Nat
ASSUME BoundsAssumption ==
  /\ MAX_TRANSACTION_POOL_SIZE \in Nat \ {0}
  /\ EXECUTE_AFTER_N_BLOCKS \in Nat \ {0}
  /\ MIN_TX_INTERVAL \in Nat /\ MaxTime \in Nat

VARIABLES
  accounts, auctions, block, applied,  \* WorldState
  clock,        \* the time, as now_unix() and Instant::now() tell it
  received,     \* stamped requests whose handler waits for the rate limit
  admitted,     \* requests that passed it
  last_tx,      \* last_tx_per_sender
  pool,         \* the values of transaction_pool
  window,       \* the blocks of the chain that are not executed yet
  recorded,     \* the transactions of the blocks before
  executing,    \* what is left of the block that is being executed
  snapshot,     \* auctions the stopping loop still has to handle
  stopping,     \* the StopAuction it has signed and not added, if any
  started,      \* the account of this node was submitted
  submissions, foreign  \* counters for the bounds

world == <<accounts, auctions, block, applied>>
requests == <<received, admitted, last_tx, submissions>>
chain == <<window, recorded, executing, foreign>>
loop == <<snapshot, stopping, started>>
vars == <<world, clock, requests, pool, chain, loop>>

World == INSTANCE WorldState WITH MaxCreations <- 0

(* What is signed has a sender, and as the creation of an account the      *)
(* fields of one.                                                          *)
ASSUME SignedAssumption ==
  \A s \in Signed :
    /\ s.from \in PublicKey
    /\ s.kind = "CreateUserAccount" => s \in World!CreateUserAccountTx

N == EXECUTE_AFTER_N_BLOCKS

(* A transaction: what was signed and the second it was stamped in.        *)
Stamped == [data : Signed, timestamp : Nat]

ASSUME ForeignAssumption == ForeignBlocks \subseteq Seq(Stamped)

Init ==
  /\ World!Init
  /\ clock = 0
  /\ received = {} /\ admitted = {} /\ submissions = 0
  /\ last_tx = <<>>
  /\ pool = {}
  /\ window = <<>> /\ recorded = {} /\ executing = <<>> /\ foreign = 0
  /\ snapshot = {} /\ stopping = {} /\ started = FALSE

(* The write lock is free: no block is being executed. *)
Unlocked == executing = <<>>

-----------------------------------------------------------------------------
(* The pool *)

(* The order in which transactions are flushed and evicted. *)
Before(t, u) ==
  \/ t.timestamp < u.timestamp
  \/ t.timestamp = u.timestamp /\ Id[t.data] < Id[u.data]

(* to_sorted_queue() *)
ToSortedQueue(p) ==
  CHOOSE q \in SetToSeqs(p) : \A i, j \in DOMAIN q : i < j => Before(q[i], q[j])

Oldest(p) == {t \in p : \A u \in p \ {t} : Before(t, u)}

(* Mutant: one transaction too many. *)
Insert_Overfull(p, t) ==
  LET kept == IF Cardinality(p) > MAX_TRANSACTION_POOL_SIZE
              THEN p \ Oldest(p) ELSE p
  IN  {u \in kept : u.data # t.data} \cup {t}

(* TransactionPool::add_transaction(): a full pool drops its oldest entry, *)
(* even when t only takes the place of an entry with its id.               *)
Insert(p, t) ==
  LET kept == IF Cardinality(p) >= MAX_TRANSACTION_POOL_SIZE
              THEN p \ Oldest(p) ELSE p
  IN  {u \in kept : u.data # t.data} \cup {t}

(* replay(): the sender has a pending transaction with this nonce. *)
Replay(t) ==
  \E u \in pool : u.data.from = t.data.from /\ u.data.nonce = t.data.nonce

(* has_transaction(): this very transaction, timestamp included, is in a   *)
(* block.                                                                  *)
HasTransaction(t) ==
  t \in recorded \/ \E i \in 1 .. Len(window) : t \in ToSet(window[i])

IsAccount(t) == t.data.kind = "CreateUserAccount"

(* Mutant: the pool is not searched for the nonce. *)
Admissible_AnyNonce(t) ==
  /\ ~HasTransaction(t)
  /\ t \notin pool
  /\ IF IsAccount(t)
     THEN t.data.from = t.data.public_key /\ t.data.nonce = 0
          /\ ~World!Known(t.data.public_key)
     ELSE World!Known(t.data.from) /\ t.data.nonce >= accounts[t.data.from]

(* The checks of Blockchain::add_transaction(). *)
Admissible(t) ==
  /\ ~HasTransaction(t)
  /\ t \notin pool
  /\ IF IsAccount(t)
     THEN t.data.from = t.data.public_key /\ t.data.nonce = 0
          /\ ~World!Known(t.data.public_key)
     ELSE World!Known(t.data.from) /\ t.data.nonce >= accounts[t.data.from]
          /\ ~Replay(t)

-----------------------------------------------------------------------------
(* Requests *)

(* The handler stamps the transaction before it asks for the lock. *)
Receive(s) ==
  /\ Unlocked
  /\ submissions < MaxSubmissions
  /\ received' = received \cup {[data |-> s, timestamp |-> clock]}
  /\ submissions' = submissions + 1
  /\ UNCHANGED <<world, clock, admitted, last_tx, pool, chain, loop>>

(* Mutant: what is stored is when the sender may come again. *)
PassRateLimit_StoresNext(t) ==
  /\ Unlocked
  /\ t \in received
  /\ t.data.from \in DOMAIN last_tx => clock - last_tx[t.data.from] >= MIN_TX_INTERVAL
  /\ received' = received \ {t}
  /\ admitted' = admitted \cup {t}
  /\ last_tx' = World!Put(last_tx, t.data.from, clock + MIN_TX_INTERVAL)
  /\ UNCHANGED <<world, clock, submissions, pool, chain, loop>>

(* The sender was not let in within MIN_TX_INTERVAL.  Seconds are whole    *)
(* here, so an interval of exactly that many may have been long enough or  *)
(* not.                                                                    *)
PassRateLimit(t) ==
  /\ Unlocked
  /\ t \in received
  /\ t.data.from \in DOMAIN last_tx => clock - last_tx[t.data.from] >= MIN_TX_INTERVAL
  /\ received' = received \ {t}
  /\ admitted' = admitted \cup {t}
  /\ last_tx' = World!Put(last_tx, t.data.from, clock)
  /\ UNCHANGED <<world, clock, submissions, pool, chain, loop>>

HitRateLimit(t) ==
  /\ Unlocked
  /\ t \in received
  /\ t.data.from \in DOMAIN last_tx
  /\ clock - last_tx[t.data.from] <= MIN_TX_INTERVAL
  /\ received' = received \ {t}
  /\ UNCHANGED <<world, clock, admitted, last_tx, submissions, pool, chain, loop>>

AddTransaction(t) ==
  /\ Unlocked
  /\ t \in admitted
  /\ Admissible(t)
  /\ pool' = Insert(pool, t)
  /\ admitted' = admitted \ {t}
  /\ UNCHANGED <<world, clock, received, last_tx, submissions, chain, loop>>

AddFails(t) ==
  /\ Unlocked
  /\ t \in admitted
  /\ ~Admissible(t)
  /\ admitted' = admitted \ {t}
  /\ UNCHANGED <<world, clock, received, last_tx, submissions, pool, chain, loop>>

-----------------------------------------------------------------------------
(* Blocks *)

(* The window becomes w; its first block is due when it has N after it. *)
Chain(w) ==
  IF Len(w) <= N
  THEN /\ window' = w
       /\ UNCHANGED <<recorded, executing, world>>
  ELSE /\ window' = Tail(w)
       /\ executing' = Head(w)
       /\ recorded' = recorded \cup ToSet(Head(w))
       /\ World!NextBlock

(* propose_block() *)
ProposeBlock ==
  /\ Unlocked
  /\ pool # {}
  /\ Chain(Append(window, ToSortedQueue(pool)))
  /\ pool' = {}
  /\ UNCHANGED <<clock, requests, foreign, loop>>

(* accept_block() of a block that extends the chain, or that makes another *)
(* branch the chain: one longer, or as long and with a smaller tip.        *)
AcceptBlock(k, bs) ==
  /\ Unlocked
  /\ foreign < MaxForeign
  /\ k + Len(bs) \in {Len(window), Len(window) + 1}
  /\ Chain(SubSeq(window, 1, k) \o bs)
  /\ foreign' = foreign + 1
  /\ UNCHANGED <<clock, requests, pool, loop>>

(* What WorldState takes a transaction for. *)
Executed(t) ==
  IF t.data.kind # "StopAuction" THEN t.data
  ELSE [kind |-> "StopAuction", from |-> t.data.from, nonce |-> t.data.nonce,
        auction_id |-> t.data.auction_id, timestamp |-> t.timestamp]

(* One turn of the loop of execute_transactions(). *)
ExecuteTransaction ==
  /\ ~Unlocked
  /\ LET t == Executed(Head(executing))
     IN  \/ World!CreateUserAccount(t)
         \/ World!Bid(t)
         \/ World!CreateAuction(t)
         \/ World!StopAuction(t)
         \/ ~World!Executable(t) /\ World!Reject(t)
  /\ executing' = Tail(executing)
  /\ UNCHANGED <<clock, requests, pool, window, recorded, foreign, loop>>

-----------------------------------------------------------------------------
(* Tasks of the node *)

(* The account of the node goes into the pool once, at the start. *)
AddMinerAccount ==
  /\ Unlocked
  /\ ~started
  /\ \E s \in Signed :
       /\ s.kind = "CreateUserAccount" /\ s.from = Miner
       /\ pool' = Insert(pool, [data |-> s, timestamp |-> clock])
  /\ started' = TRUE
  /\ UNCHANGED <<world, clock, requests, chain, snapshot, stopping>>

(* The stopping loop copies the auctions and goes through the expired ones.*)
CopyAuctions ==
  /\ Unlocked
  /\ snapshot = {} /\ stopping = {}
  /\ snapshot' = {id \in DOMAIN auctions : auctions[id].stop_time <= clock}
  /\ snapshot' # {}
  /\ UNCHANGED <<world, clock, requests, pool, chain, stopping, started>>

(* Mutant: the nonce after the one the account is at. *)
SignStop_NextNonce(id) ==
  /\ Unlocked
  /\ id \in snapshot /\ stopping = {}
  /\ World!Known(Miner)
  /\ LET s == [kind |-> "StopAuction", from |-> Miner,
               nonce |-> accounts[Miner] + 1, auction_id |-> id]
     IN  s \in Signed /\ stopping' = {[data |-> s, timestamp |-> clock]}
  /\ snapshot' = snapshot \ {id}
  /\ UNCHANGED <<world, clock, requests, pool, chain, started>>

(* For each it reads the nonce of its account under one lock... *)
SignStop(id) ==
  /\ Unlocked
  /\ id \in snapshot /\ stopping = {}
  /\ World!Known(Miner)
  /\ LET s == [kind |-> "StopAuction", from |-> Miner,
               nonce |-> accounts[Miner], auction_id |-> id]
     IN  s \in Signed /\ stopping' = {[data |-> s, timestamp |-> clock]}
  /\ snapshot' = snapshot \ {id}
  /\ UNCHANGED <<world, clock, requests, pool, chain, started>>

SkipStop(id) ==
  /\ Unlocked
  /\ id \in snapshot /\ stopping = {}
  /\ ~World!Known(Miner)
  /\ snapshot' = snapshot \ {id}
  /\ UNCHANGED <<world, clock, requests, pool, chain, stopping, started>>

(* ... and adds the transaction to the pool under another, unchecked. *)
AddStop ==
  /\ Unlocked
  /\ \E t \in stopping : pool' = Insert(pool, t)
  /\ stopping' = {}
  /\ UNCHANGED <<world, clock, requests, chain, snapshot, started>>

Tick ==
  /\ Unlocked
  /\ clock < MaxTime
  /\ clock' = clock + 1
  /\ UNCHANGED <<world, requests, pool, chain, loop>>

StoppingLoop ==
  \/ CopyAuctions
  \/ \E id \in AuctionId : SignStop(id)
  \/ \E id \in AuctionId : SkipStop(id)
  \/ AddStop

Next ==
  \/ \E s \in Submitted : Receive(s)
  \/ \E t \in received : PassRateLimit(t)
  \/ \E t \in received : HitRateLimit(t)
  \/ \E t \in admitted : AddTransaction(t)
  \/ \E t \in admitted : AddFails(t)
  \/ ProposeBlock
  \/ \E k \in 0 .. Len(window), bs \in SeqOf(ForeignBlocks, N + 1) :
       bs # <<>> /\ AcceptBlock(k, bs)
  \/ ExecuteTransaction
  \/ AddMinerAccount
  \/ StoppingLoop
  \/ Tick

Spec == Init /\ [][Next]_vars

(* The loops of the node are tokio tasks and time passes. *)
FairSpec ==
  /\ Spec
  /\ WF_vars(StoppingLoop) /\ WF_vars(ProposeBlock)
  /\ WF_vars(ExecuteTransaction) /\ WF_vars(Tick)
-----------------------------------------------------------------------------

(* The variables have their types. *)
TypeOK ==
  /\ World!TypeOK
  /\ clock \in 0 .. MaxTime
  /\ received \cup admitted \cup pool \cup recorded \cup stopping \subseteq Stamped
  /\ DOMAIN last_tx \subseteq PublicKey
  /\ \A k \in DOMAIN last_tx : last_tx[k] \in 0 .. clock
  /\ window \in Seq(Seq(Stamped)) /\ executing \in Seq(Stamped)
  /\ snapshot \subseteq AuctionId
  /\ started \in BOOLEAN /\ submissions \in Nat /\ foreign \in Nat

(* The pool never exceeds its limit and holds one entry per id, whichever  *)
(* task adds to it and however often the same transaction comes.           *)
PoolBounded ==
  /\ Cardinality(pool) <= MAX_TRANSACTION_POOL_SIZE
  /\ \A t, u \in pool : t.data = u.data => t = u

(* Two different pending transactions of a client never compete for one    *)
(* nonce, although blocks that arrive move the nonce its account is at     *)
(* while both are on their way.  (This node's own StopAuctions do, because *)
(* the stopping loop goes past the checks.)                                *)
PendingNoncesDistinct ==
  \A t, u \in pool :
    /\ t.data.from = u.data.from /\ t.data.from # Miner
    /\ t.data.nonce = u.data.nonce
    => t = u

(* The stopping loop works on a copy: an auction may have been closed and  *)
(* opened again with another stop time when its StopAuction is executed.   *)
(* Still this node never closes an auction before its stop time.  (For an  *)
(* auction whose id is created once in its block; see WorldState for the   *)
(* other case.)                                                            *)
NodeStopsExpired ==
  [][\A id \in DOMAIN auctions \ DOMAIN auctions' :
       /\ Head(executing).data.from = Miner
       /\ \A c \in ToSet(auctions[id].block) :
            c.auction_id = id => c = Last(auctions[id].block)
       => auctions[id].stop_time <= clock]_vars

(* An expired auction is closed in the end, once this node has an account, *)
(* although the loop gives several auctions the same nonce, adds the same  *)
(* transaction again while it is on its way, and may see its blocks lost.  *)
Expired(id) == World!Open(id) /\ auctions[id].stop_time <= clock
EventuallyClosed ==
  \A id \in AuctionId : World!Known(Miner) /\ Expired(id) ~> ~Expired(id)

(* The order of arrival of a client's transactions is lost when they were  *)
(* stamped in one second.  "A correct node should queue or reject these    *)
(* until the missing nonces appear" (bot/nonce_skip.rs:11): when a block   *)
(* has been executed, no transaction in it whose nonce has come since is   *)
(* left behind.                                                            *)
FutureNoncesQueued ==
  Unlocked => \A t \in recorded :
    t.data.kind \in {"Bid", "CreateAuction"} =>
      t.data.nonce # World!NextNonce(t.data.from)

(* "a transaction already recorded on-chain cannot be replayed into the    *)
(* transaction pool" (blockchain.rs:1965).                                 *)
RecordedNotReplayed ==
  [][\A t \in admitted :
       AddTransaction(t) =>
         \A u \in recorded \cup UNION {ToSet(window[i]) : i \in 1 .. Len(window)} :
           u.data # t.data]_vars

(* The pool "temporarily holds unexecuted transactions" (blockchain.rs:    *)
(* 470).                                                                   *)
PoolHoldsUnexecuted ==
  \A t \in pool :
    t.data.nonce \in Range(applied[t.data.from]) =>
      \A u \in recorded : u.data # t.data

(* "accept_block() rejects a block whose transactions are not in the       *)
(* treansaction pool" (blockchain.rs:1546).                                *)
AcceptedWerePending ==
  [][foreign' # foreign =>
       \A i \in 1 .. Len(window') : \A t \in ToSet(window'[i]) :
         \/ t \in pool
         \/ \E j \in 1 .. Len(window) : t \in ToSet(window[j])]_vars

(* expected_reject(.., "past auction creation") (bot/past_auction.rs:53):  *)
(* an auction whose stop time is over when it is submitted is not opened.  *)
PastAuctionsRejected ==
  [][\A id \in DOMAIN auctions' \ DOMAIN auctions :
       Head(executing).timestamp <= auctions'[id].stop_time]_vars
=============================================================================
