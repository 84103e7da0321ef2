--------------------------- MODULE TransactionRpc ---------------------------
(***************************************************************************)
(* How a node answers a transaction request (`transaction` in state.rs):   *)
(* the handler registers a notifier under the id of the transaction, adds  *)
(* the transaction to the pool and sleeps; a block that executes or loses  *)
(* the transaction wakes it.  Handlers, the mining thread and the network  *)
(* loop share the state behind one RwLock; every action below is what one  *)
(* of them does under one write lock, or between two.                      *)
(*                                                                         *)
(* The chain is BlockTree.  Abstracted: what a transaction does.  Whether  *)
(* its execution succeeds is a free choice, except that nothing executes   *)
(* twice (WorldState: NonceDiscipline); and whether add_transaction finds  *)
(* fault with its signature, sender or nonce is a free choice too.  Two    *)
(* submissions of one transaction have one id but seldom one timestamp.    *)
(***************************************************************************)
EXTENDS Branches

CONSTANTS
  Hash, Root, EXECUTE_AFTER_N_BLOCKS,
  Tx,                         \* transactions (their ids)
  AccountTx,                  \* those that create an account
  Request,                    \* the calls of the RPC
  Asks,                       \* the transaction each of them submits
  Elsewhere,                  \* transactions also submitted to other nodes
  MAX_TRANSACTION_POOL_SIZE

ASSUME StoreAssumption ==
  Hash \subseteq Nat /\ Root \subseteq Hash /\ EXECUTE_AFTER_N_BLOCKS \in Nat \ {0}
ASSUME PoolAssumption == MAX_TRANSACTION_POOL_SIZE \in Nat \ {0}
ASSUME AsksAssumption == Asks \in [Request -> Tx]
ASSUME TxAssumption == AccountTx \subseteq Tx /\ Elsewhere \subseteq Tx

VARIABLES
  blocks, longest_chain, commited_pointer, pruned, executed,  \* BlockTree
  content,    \* hash of a block |-> its transactions
  pool,       \* the transactions in transaction_pool
  applied,    \* history: the transactions whose execution succeeded
  notifiers,  \* transaction |-> the request whose notifier is registered
  permit,     \* request |-> its Notify holds a permit
  flag,       \* request |-> its AtomicBool
  pc,         \* request |-> where its handler is
  response    \* request |-> the status it was answered with

tree == <<blocks, longest_chain, commited_pointer, pruned, executed>>
vars == <<tree, content, pool, applied, notifiers, permit, flag, pc, response>>

Tree == INSTANCE BlockTree

Init ==
  /\ Tree!Init
  /\ content = [h \in Hash |-> {}]
  /\ pool = {}
  /\ applied = {}
  /\ notifiers = <<>>
  /\ permit = [r \in Request |-> FALSE]
  /\ flag = [r \in Request |-> FALSE]
  /\ pc = [r \in Request |-> "idle"]
  /\ response = [r \in Request |-> "none"]

-----------------------------------------------------------------------------
(* The blockchain under the write lock *)

Registered(r) == Asks[r] \in DOMAIN notifiers /\ notifiers[Asks[r]] = r

(* Mutants: prune() wakes nobody; a failed execution wakes nobody; the     *)
(* outcome stored is always success.                                       *)
Notify_ExecutedOnly(dropped, ran) ==
  \E ok \in SUBSET (ran \ applied) :
    /\ applied' = applied \cup ok
    /\ permit' = [r \in Request |->
         permit[r] \/ (Registered(r) /\ Asks[r] \in ran)]
    /\ flag' = [r \in Request |->
         IF Registered(r) /\ Asks[r] \in ran THEN Asks[r] \in ok ELSE flag[r]]
Notify_SuccessOnly(dropped, ran) ==
  \E ok \in SUBSET (ran \ applied) :
    /\ applied' = applied \cup ok
    /\ permit' = [r \in Request |->
         permit[r] \/ (Registered(r) /\ Asks[r] \in dropped \cup ok)]
    /\ flag' = [r \in Request |->
         IF Registered(r) /\ Asks[r] \in ran THEN Asks[r] \in ok ELSE flag[r]]
Notify_AlwaysTrue(dropped, ran) ==
  \E ok \in SUBSET (ran \ applied) :
    /\ applied' = applied \cup ok
    /\ permit' = [r \in Request |->
         permit[r] \/ (Registered(r) /\ Asks[r] \in dropped \cup ran)]
    /\ flag' = [r \in Request |->
         flag[r] \/ (Registered(r) /\ Asks[r] \in ran)]

(* What `fix` tells the handlers: first prune() wakes those whose          *)
(* transaction was in a block it drops, then execute_transactions() wakes  *)
(* those whose transaction was executed and stores the outcome.  notify_one*)
(* on a Notify that has a permit changes nothing.                          *)
Notify(dropped, ran) ==
  \E ok \in SUBSET (ran \ applied) :
    /\ applied' = applied \cup ok
    /\ permit' = [r \in Request |->
         permit[r] \/ (Registered(r) /\ Asks[r] \in dropped \cup ran)]
    /\ flag' = [r \in Request |->
         IF Registered(r) /\ Asks[r] \in ran THEN Asks[r] \in ok ELSE flag[r]]

(* Mutant: a transaction is reported as soon as it is in a block. *)
Settle_WakesOnPush(h, txs) ==
  LET fresh == SubSeq(executed', Len(executed) + 1, Len(executed'))
  IN  /\ content' = [content EXCEPT ![h] = txs]
      /\ Notify(txs \cup UNION {content'[BlockHash(b)] : b \in pruned' \ pruned},
                UNION {content'[g] : g \in ToSet(fresh)})

(* Block h with transactions txs was pushed and `fix` has run. *)
Settle(h, txs) ==
  LET fresh == SubSeq(executed', Len(executed) + 1, Len(executed'))
  IN  /\ content' = [content EXCEPT ![h] = txs]
      /\ Notify(UNION {content'[BlockHash(b)] : b \in pruned' \ pruned},
                UNION {content'[g] : g \in ToSet(fresh)})

(* propose_block(): the pool is flushed into a block on the tip. *)
ProposeBlock(h) ==
  /\ pool # {}
  /\ Tree!ProposeBlock(h)
  /\ Settle(h, pool)
  /\ pool' = {}
  /\ UNCHANGED <<notifiers, pc, response>>

(* accept_block(): another node's block.  The pool keeps the transactions  *)
(* that are now in the block.                                              *)
AcceptBlock(b, valid, txs) ==
  /\ Tree!AcceptBlock(b, valid)
  /\ Settle(BlockHash(b), txs)
  /\ UNCHANGED <<pool, notifiers, pc, response>>

RejectBlock(b, valid) ==
  /\ Tree!RejectBlock(b, valid)
  /\ UNCHANGED vars

-----------------------------------------------------------------------------
(* The handler of request r *)

Goto(r, from, to) == pc[r] = from /\ pc' = [pc EXCEPT ![r] = to]

Respond(r, from, status) ==
  /\ Goto(r, from, "answered")
  /\ response' = [response EXCEPT ![r] = status]

(* The request decodes and its sender was not seen for MIN_TX_INTERVAL. *)
Admit(r) ==
  /\ Goto(r, "idle", "admitted")
  /\ UNCHANGED <<tree, content, pool, applied, notifiers, permit, flag, response>>

Refuse(r) ==
  /\ Respond(r, "idle", "FAILED")
  /\ UNCHANGED <<tree, content, pool, applied, notifiers, permit, flag>>

(* The notifier takes the place of one registered for the same id.         *)
Register(r) ==
  /\ Goto(r, "admitted", "registered")
  /\ notifiers' = [t \in DOMAIN notifiers \cup {Asks[r]} |->
                     IF t = Asks[r] THEN r ELSE notifiers[t]]
  /\ UNCHANGED <<tree, content, pool, applied, permit, flag, response>>

(* add_transaction() of the pool: when it is full, the oldest one leaves   *)
(* (which one that is, is not modelled).                                   *)
Insert(t) ==
  IF Cardinality(pool) >= MAX_TRANSACTION_POOL_SIZE
  THEN \E oldest \in pool : pool' = (pool \ {oldest}) \cup {t}
  ELSE pool' = pool \cup {t}

(* add_transaction() of the blockchain may take t: t was not executed, and *)
(* if it is pending it is one whose nonce is not compared with the pool.   *)
Admissible(t) == t \notin applied /\ (t \in pool => t \in AccountTx)

AddTransaction(r) ==
  /\ Goto(r, "registered", "waiting")
  /\ Admissible(Asks[r])
  /\ Insert(Asks[r])
  /\ UNCHANGED <<tree, content, applied, notifiers, permit, flag, response>>

(* The notifier stays registered. *)
AddFails(r) ==
  /\ Respond(r, "registered", "FAILED")
  /\ UNCHANGED <<tree, content, pool, applied, notifiers, permit, flag>>

(* notified().await returns: the permit is used up. *)
Wake(r) ==
  /\ permit[r]
  /\ Goto(r, "waiting", "notified")
  /\ permit' = [permit EXCEPT ![r] = FALSE]
  /\ UNCHANGED <<tree, content, pool, applied, notifiers, flag, response>>

(* Remove what is registered under the id, then read the flag: once it is  *)
(* removed nothing else writes the flag, so the two are one step.          *)
Answer(r) ==
  /\ Respond(r, "notified", IF flag[r] THEN "SUCCESSFUL" ELSE "FAILED")
  /\ notifiers' = [t \in DOMAIN notifiers \ {Asks[r]} |-> notifiers[t]]
  /\ UNCHANGED <<tree, content, pool, applied, permit, flag>>

Handler(r) ==
  \/ Admit(r)
  \/ Refuse(r)
  \/ Register(r)
  \/ AddTransaction(r)
  \/ AddFails(r)
  \/ Wake(r)
  \/ Answer(r)

Next ==
  \/ \E h \in Hash : ProposeBlock(h)
  \/ \E b \in Tree!Offered, valid \in BOOLEAN, txs \in SUBSET Elsewhere :
       AcceptBlock(b, valid, txs)
  \/ \E b \in Tree!Offered, valid \in BOOLEAN : RejectBlock(b, valid)
  \/ \E r \in Request : Handler(r)

Spec == Init /\ [][Next]_vars

(* Every handler is a tokio task, and the RwLock serves waiters in order.  *)
FairSpec == Spec /\ \A r \in Request : WF_vars(Handler(r))

-----------------------------------------------------------------------------

(* Handlers are at one of their steps, and the tables have their types. *)
TypeOK ==
  /\ Tree!TypeOK
  /\ content \in [Hash -> SUBSET Tx]
  /\ pool \subseteq Tx
  /\ applied \subseteq Tx
  /\ DOMAIN notifiers \subseteq Tx
  /\ \A t \in DOMAIN notifiers : notifiers[t] \in Request
  /\ permit \in [Request -> BOOLEAN]
  /\ flag \in [Request -> BOOLEAN]
  /\ pc \in [Request -> {"idle", "admitted", "registered", "waiting",
                         "notified", "answered"}]
  /\ response \in [Request -> {"none", "SUCCESSFUL", "FAILED"}]

(* t is in the pool, or in a stored block that is still to be executed. *)
Undecided(t) ==
  \/ t \in pool
  \/ \E b \in blocks : Len(b) > commited_pointer /\ t \in content[BlockHash(b)]

(* A handler that sleeps will be woken: it has a permit, or its            *)
(* transaction is undecided and its own notifier is the one registered, so *)
(* that the block that decides it, by execution or by being pruned, wakes  *)
(* this handler.  For requests with transactions of their own.             *)
NoLostWakeup ==
  \A r \in Request : pc[r] = "waiting" =>
    permit[r] \/ (Registered(r) /\ Undecided(Asks[r]))

(* An answer tells the truth, and goes on being true: the transaction of a *)
(* request answered SUCCESSFUL was executed, and that of a request that    *)
(* waited and was answered FAILED was not, nor will it ever be, in         *)
(* whichever branch it ended up.  For transactions submitted once.         *)
AnswersAreFinal ==
  \A r \in Request : pc[r] = "answered" =>
    (response[r] = "SUCCESSFUL" <=> Asks[r] \in applied)

(* Whoever else submits the transaction, and wherever: an answer           *)
(* SUCCESSFUL is given only if the transaction was executed.               *)
SuccessMeansExecuted ==
  \A r \in Request : response[r] = "SUCCESSFUL" => Asks[r] \in applied

(* In the end every request is answered, unless its transaction stays      *)
(* undecided because the chain stops growing.                              *)
EventuallyAnswered ==
  \A r \in Request :
    <>[](\/ pc[r] = "answered"
         \/ pc[r] = "waiting" /\ Undecided(Asks[r]))

(* "Function that notifies RPC clients that the transaction was validated" *)
(* (blockchain.rs:849): a request that sleeps while its transaction has    *)
(* been executed has been notified.                                        *)
WaitersNotified ==
  \A r \in Request :
    pc[r] = "waiting" /\ Asks[r] \in applied => permit[r]

(* "returning the discarded branch's transactions to the transaction pool" *)
(* (blockchain.rs:1659-1660): a transaction of a pruned block that was not *)
(* executed and is in no block of the chain is in the pool afterwards.     *)
DiscardedReturnToPool ==
  [][\A b \in pruned' \ pruned : \A t \in content[BlockHash(b)] :
       \/ t \in applied'
       \/ \E i \in 1 .. Len(longest_chain') : t \in content'[longest_chain'[i]]
       \/ t \in pool']_vars
=============================================================================
