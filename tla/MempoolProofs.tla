---------------------------- MODULE MempoolProofs -----------------------------
(***************************************************************************)
(* Proofs about Mempool: for any transactions, blocks, limits and order of *)
(* the tasks, the pool keeps within its size, with one entry per id, and   *)
(* no two pending transactions of a client compete for a nonce; the world  *)
(* under it stays in order; and the node's stopping loop closes no auction *)
(* too early.                                                              *)
(***************************************************************************)
EXTENDS Mempool, FiniteSetTheorems, SequenceTheorems, TLAPS

-----------------------------------------------------------------------------
(* The pool as a value *)

(* What is proved of the world state, for the world of this node. *)
Lemmas == INSTANCE WorldStateProofs WITH MaxCreations <- 0

(* A set of natural numbers that is not empty has a least element. *)
LEMMA LeastElement ==
  ASSUME NEW D, D \subseteq Nat, D # {}
  PROVE  \E j \in D : \A i \in D : j <= i
  BY Lemmas!LeastElement, WorldAssumption

(* Ids tell transactions apart. *)
LEMMA IdFacts ==
  /\ \A s \in Signed : Id[s] \in Nat
  /\ \A s, u \in Signed : Id[s] = Id[u] => s = u
  BY IdAssumption

(* A pool that is not empty has an oldest entry, which is dropped when it  *)
(* is full: by time stamp, and by id within one second.                    *)
LEMMA OldestExists ==
  ASSUME NEW p, p \subseteq Stamped, p # {}
  PROVE  \E t \in p : t \in Oldest(p)
<1> DEFINE T == {t.timestamp : t \in p}
<1>1. PICK time \in T : \A i \in T : time <= i
  <2>1. T \subseteq Nat /\ T # {}
    BY DEF Stamped
  <2> HIDE DEF T
  <2> QED BY <2>1, LeastElement
<1> DEFINE F == {Id[t.data] : t \in {u \in p : u.timestamp = time}}
<1>2. PICK id \in F : \A i \in F : id <= i
  <2>1. F \subseteq Nat
    BY IdFacts DEF Stamped
  <2>2. F # {}
    OBVIOUS
  <2> HIDE DEF F
  <2> QED BY <2>1, <2>2, LeastElement
<1>3. PICK t \in p : t.timestamp = time /\ Id[t.data] = id
  BY <1>2
<1>4. ASSUME NEW u \in p \ {t} PROVE Before(t, u)
  <2>1. t \in Stamped /\ u \in Stamped /\ t # u
    OBVIOUS
  <2>2. t.timestamp \in Nat /\ u.timestamp \in Nat /\ t.timestamp <= u.timestamp
    BY <1>1, <1>3, <2>1 DEF Stamped
  <2>3. CASE t.timestamp = u.timestamp
    <3>1. Id[t.data] <= Id[u.data]
      BY <1>2, <1>3, <2>3
    <3>2. t.data \in Signed /\ u.data \in Signed /\ t.data # u.data
      BY <2>1, <2>3 DEF Stamped
    <3>3. Id[t.data] \in Nat /\ Id[u.data] \in Nat /\ Id[t.data] # Id[u.data]
      BY <3>2, IdFacts
    <3> QED BY <2>3, <3>1, <3>3 DEF Before
  <2> QED BY <2>2, <2>3 DEF Before
<1> QED BY <1>4 DEF Oldest

(* One entry per id. *)
OnePerId(p) == \A t, u \in p : t.data = u.data => t = u

(* What add_transaction() leaves of a pool is within the limit, has one    *)
(* entry per id, and beside t only what was there.                         *)
LEMMA InsertFacts ==
  ASSUME NEW p, NEW t \in Stamped, p \subseteq Stamped, IsFiniteSet(p),
         Cardinality(p) <= MAX_TRANSACTION_POOL_SIZE, OnePerId(p)
  PROVE  /\ Insert(p, t) \subseteq p \cup {t}
         /\ \A u \in Insert(p, t) : u.data = t.data => u = t
         /\ Insert(p, t) \subseteq Stamped
         /\ IsFiniteSet(Insert(p, t))
         /\ Cardinality(Insert(p, t)) <= MAX_TRANSACTION_POOL_SIZE
         /\ OnePerId(Insert(p, t))
<1> DEFINE full == Cardinality(p) >= MAX_TRANSACTION_POOL_SIZE
           kept == IF full THEN p \ Oldest(p) ELSE p
           rest == {u \in kept : u.data # t.data}
<1>1. Insert(p, t) = rest \cup {t}
  BY DEF Insert
<1>2. kept \subseteq p /\ rest \subseteq kept
  OBVIOUS
<1>3. Cardinality(p) \in Nat /\ MAX_TRANSACTION_POOL_SIZE \in Nat \ {0}
  BY FS_CardinalityType, BoundsAssumption
<1>4. /\ IsFiniteSet(kept) /\ Cardinality(kept) \in Nat
      /\ Cardinality(kept) < MAX_TRANSACTION_POOL_SIZE
  <2>1. IsFiniteSet(kept) /\ Cardinality(kept) \in Nat
    BY <1>2, FS_Subset, FS_CardinalityType
  <2>2. CASE ~full
    BY <1>3, <2>1, <2>2
  <2>3. CASE full
    <3>1. p # {}
      BY <1>3, <2>3, FS_EmptySet
    <3>2. PICK o \in p : o \in Oldest(p)
      BY <3>1, OldestExists
    <3>3. IsFiniteSet(p \ {o}) /\ Cardinality(p \ {o}) = Cardinality(p) - 1
      BY <3>2, FS_RemoveElement
    <3>4. kept \subseteq p \ {o}
      BY <2>3, <3>2
    <3>5. Cardinality(kept) <= Cardinality(p \ {o})
      BY <3>3, <3>4, FS_Subset
    <3> QED BY <1>3, <2>1, <3>3, <3>5
  <2> QED BY <2>2, <2>3
<1> HIDE DEF kept
<1>5. /\ IsFiniteSet(rest) /\ Cardinality(rest) \in Nat
      /\ Cardinality(rest) <= Cardinality(kept)
  BY <1>2, <1>4, FS_Subset, FS_CardinalityType
<1>6. t \notin rest
  OBVIOUS
<1> HIDE DEF rest
<1>7. IsFiniteSet(rest \cup {t}) /\ Cardinality(rest \cup {t}) = Cardinality(rest) + 1
  BY <1>5, <1>6, FS_AddElement
<1>8. Cardinality(rest \cup {t}) <= MAX_TRANSACTION_POOL_SIZE
  BY <1>3, <1>4, <1>5, <1>7
<1>9. \A u \in rest : u \in p /\ u.data # t.data
  BY <1>2 DEF rest
<1> QED BY <1>1, <1>7, <1>8, <1>9 DEF OnePerId

-----------------------------------------------------------------------------
(* Flushing the pool *)

Sorted(q) == \A i, j \in DOMAIN q : i < j => Before(q[i], q[j])

(* Every pool can be sorted: its oldest entry goes before the others, and  *)
(* a smallest pool that could not be sorted would leave a smaller one.     *)
LEMMA SortedExists ==
  ASSUME NEW p, p \subseteq Stamped, IsFiniteSet(p)
  PROVE  \E q \in SetToSeqs(p) : Sorted(q)
<1> DEFINE Unsorted(s) == s \subseteq Stamped /\ IsFiniteSet(s)
                          /\ ~ \E q \in SetToSeqs(s) : Sorted(q)
           Bad == {n \in Nat : \E s : Unsorted(s) /\ Cardinality(s) = n}
<1> SUFFICES ASSUME Unsorted(p) PROVE FALSE
  OBVIOUS
<1>1. Bad \subseteq Nat /\ Bad # {}
  BY FS_CardinalityType
<1>2. PICK n \in Bad : \A i \in Bad : n <= i
  <2> HIDE DEF Bad
  <2> QED BY <1>1, LeastElement
<1>3. PICK s : Unsorted(s) /\ Cardinality(s) = n
  BY <1>2
<1>4. n \in Nat
  BY <1>2
<1>5. s # {}
  <2> SUFFICES ASSUME s = {} PROVE FALSE
    OBVIOUS
  <2>1. n = 0
    BY <1>3, FS_EmptySet
  <2>2. <<>> \in SetToSeqs(s) /\ Sorted(<<>>)
    BY <1>3, <2>1 DEF SetToSeqs, Sorted
  <2> QED BY <1>3, <2>2
<1>6. PICK o \in s : \A u \in s \ {o} : Before(o, u)
  BY <1>3, <1>5, OldestExists DEF Oldest
<1> DEFINE rest == s \ {o}
<1>7. IsFiniteSet(rest) /\ Cardinality(rest) = n - 1 /\ n - 1 \in Nat
  <2>1. IsFiniteSet(s) /\ o \in s
    BY <1>3
  <2>2. IsFiniteSet(rest) /\ Cardinality(rest) = Cardinality(s) - 1
    BY <2>1, FS_RemoveElement
  <2>3. Cardinality(rest) \in Nat
    BY <2>2, FS_CardinalityType
  <2> QED BY <1>3, <2>2, <2>3
<1>8. ~Unsorted(rest)
  <2> SUFFICES ASSUME Unsorted(rest) PROVE FALSE
    OBVIOUS
  <2> HIDE DEF Unsorted, rest
  <2>1. n - 1 \in Bad
    BY <1>7
  <2>2. n <= n - 1
    BY <1>2, <2>1
  <2> QED BY <1>4, <2>2
<1>9. PICK r \in SetToSeqs(rest) : Sorted(r)
  BY <1>3, <1>7, <1>8
<1>10. /\ r \in [1 .. n - 1 -> rest]
       /\ \A i, j \in 1 .. n - 1 : i # j => r[i] # r[j]
       /\ \A i, j \in 1 .. n - 1 : i < j => Before(r[i], r[j])
  BY <1>7, <1>9 DEF SetToSeqs, Sorted
<1> DEFINE q == [i \in 1 .. n |-> IF i = 1 THEN o ELSE r[i - 1]]
<1>11. \A i \in 1 .. n : i # 1 => i - 1 \in 1 .. n - 1 /\ q[i] = r[i - 1] /\ q[i] \in rest
  BY <1>4, <1>10
<1>12. q \in [1 .. n -> s] /\ \A i, j \in 1 .. n : i # j => q[i] # q[j]
  <2>1. q \in [1 .. n -> s]
    BY <1>11
  <2>2. ASSUME NEW i \in 1 .. n, NEW j \in 1 .. n, i # j PROVE q[i] # q[j]
    BY <1>4, <1>10, <1>11, <2>2
  <2> QED BY <2>1, <2>2
<1>13. ASSUME NEW i \in 1 .. n, NEW j \in 1 .. n, i < j PROVE Before(q[i], q[j])
  <2>1. CASE i = 1
    BY <1>4, <1>6, <1>11, <1>13, <2>1
  <2>2. CASE i # 1
    <3>1. i - 1 \in 1 .. n - 1 /\ j - 1 \in 1 .. n - 1 /\ i - 1 < j - 1 /\ j # 1
      BY <1>4, <1>13, <2>2
    <3> QED BY <1>10, <1>11, <2>2, <3>1
  <2> QED BY <2>1, <2>2
<1>14. q \in SetToSeqs(s) /\ Sorted(q)
  <2>1. DOMAIN q = 1 .. n
    OBVIOUS
  <2> HIDE DEF q
  <2> QED BY <1>3, <1>12, <1>13, <2>1 DEF SetToSeqs, Sorted
<1> QED BY <1>3, <1>14

(* What is flushed is the pool, every entry once, the oldest first. *)
LEMMA FlushFacts ==
  ASSUME NEW p, p \subseteq Stamped, IsFiniteSet(p)
  PROVE  /\ ToSortedQueue(p) \in Seq(p)
         /\ ToSet(ToSortedQueue(p)) = p
         /\ Sorted(ToSortedQueue(p))
<1>1. PICK q : q = ToSortedQueue(p)
  OBVIOUS
<1>2. q \in SetToSeqs(p) /\ Sorted(q)
  BY <1>1, SortedExists DEF ToSortedQueue, Sorted
<1>3. PICK n \in Nat : n = Cardinality(p)
  BY FS_CardinalityType
<1>4. q \in [1 .. n -> p] /\ \A i, j \in 1 .. n : i # j => q[i] # q[j]
  BY <1>2, <1>3 DEF SetToSeqs
<1>5. q \in Seq(p) /\ Len(q) = n
  BY <1>4
<1>6. q \in Injection(1 .. n, p)
  BY <1>4 DEF Injection, IsInjective
<1>7. Cardinality(1 .. n) = n
  BY FS_Interval
<1>8. q \in Surjection(1 .. n, p)
  BY <1>3, <1>6, <1>7, FS_Injection
<1>9. ToSet(q) = p
  BY <1>4, <1>5, <1>8 DEF ToSet, Surjection
<1> QED BY <1>1, <1>2, <1>5, <1>9

-----------------------------------------------------------------------------
(* The pool as a state *)

(* What is stamped and not executed is among the transactions signed. *)
StampedInv ==
  /\ clock \in Nat
  /\ received \subseteq Stamped /\ admitted \subseteq Stamped /\ stopping \subseteq Stamped
  /\ \A t \in stopping : t.data.from = Miner

PoolInv ==
  /\ pool \subseteq Stamped /\ IsFiniteSet(pool)
  /\ Cardinality(pool) <= MAX_TRANSACTION_POOL_SIZE
  /\ OnePerId(pool)

(* Why add_transaction() needs no look at the pool for the creation of an  *)
(* account: until the account exists, nothing else of its key is pending.  *)
ClientsInv ==
  \A t \in pool : t.data.from # Miner =>
    IF IsAccount(t) THEN t.data.public_key = t.data.from /\ t.data.nonce = 0
    ELSE World!Known(t.data.from)

(* The strengthening. *)
IInv == StampedInv /\ PoolInv /\ ClientsInv /\ PendingNoncesDistinct

(* The pool starts empty.                                                  *)
LEMMA InitEstablishes == Init => IInv
  BY FS_EmptySet, BoundsAssumption
  DEF Init, IInv, StampedInv, PoolInv, OnePerId, ClientsInv, PendingNoncesDistinct

(* What the actions do to the pool: it is emptied, or one entry is added,  *)
(* checked or not.                                                         *)
LEMMA StepOfPool ==
  ASSUME [Next]_vars
  PROVE  \/ pool' \in {pool, {}}
         \/ \E t \in admitted : Admissible(t) /\ pool' = Insert(pool, t) /\ UNCHANGED accounts
         \/ \E t \in stopping : pool' = Insert(pool, t) /\ UNCHANGED accounts
         \/ \E s \in Signed : /\ s.from = Miner
                            /\ pool' = Insert(pool, [data |-> s, timestamp |-> clock])
                            /\ UNCHANGED accounts
<1> USE DEF world, requests, chain, loop
<1>1. ASSUME NEW t \in admitted, AddTransaction(t)
      PROVE  Admissible(t) /\ pool' = Insert(pool, t) /\ UNCHANGED accounts
  BY <1>1 DEF AddTransaction
<1>2. CASE ProposeBlock
  BY <1>2 DEF ProposeBlock
<1>3. CASE AddStop
  BY <1>3 DEF AddStop
<1>4. CASE AddMinerAccount
  BY <1>4 DEF AddMinerAccount
<1>5. ASSUME NEW s \in Submitted, Receive(s) PROVE UNCHANGED pool
  BY <1>5 DEF Receive
<1>6. ASSUME NEW t, PassRateLimit(t) \/ HitRateLimit(t) \/ AddFails(t) PROVE UNCHANGED pool
  BY <1>6 DEF PassRateLimit, HitRateLimit, AddFails
<1>7. ASSUME NEW k, NEW bs, AcceptBlock(k, bs) PROVE UNCHANGED pool
  BY <1>7 DEF AcceptBlock
<1>8. CASE ExecuteTransaction
  BY <1>8 DEF ExecuteTransaction
<1>9. ASSUME NEW id, SignStop(id) \/ SkipStop(id) PROVE UNCHANGED pool
  BY <1>9 DEF SignStop, SkipStop
<1>10. CASE CopyAuctions
  BY <1>10 DEF CopyAuctions
<1>11. CASE Tick
  BY <1>11 DEF Tick
<1>12. CASE UNCHANGED vars
  BY <1>12 DEF vars
<1> QED
  BY <1>1, <1>2, <1>3, <1>4, <1>5, <1>6, <1>7, <1>8, <1>9, <1>10, <1>11, <1>12
  DEF Next, StoppingLoop

(* Accounts are created and never removed. *)
LEMMA AccountsStay ==
  ASSUME [Next]_vars, NEW k, World!Known(k) PROVE World!Known(k)'
<1> USE DEF world, requests, chain, loop, World!Known
<1>1. ASSUME NEW t, World!UseNonce(t) PROVE World!Known(k)'
  BY <1>1 DEF World!UseNonce, World!Put
<1>2. CASE ExecuteTransaction
  BY <1>1, <1>2
  DEF ExecuteTransaction, World!CreateUserAccount, World!Bid, World!CreateAuction,
      World!StopAuction, World!Reject
<1>3. CASE ProposeBlock
  BY <1>3 DEF ProposeBlock, Chain, World!NextBlock
<1>4. ASSUME NEW i, NEW bs, AcceptBlock(i, bs) PROVE World!Known(k)'
  BY <1>4 DEF AcceptBlock, Chain, World!NextBlock
<1>5. CASE UNCHANGED accounts
  BY <1>5
<1> QED
  BY <1>2, <1>3, <1>4, <1>5
  DEF Next, vars, StoppingLoop, Receive, PassRateLimit, HitRateLimit, AddTransaction, AddFails,
      AddMinerAccount, CopyAuctions, SignStop, SkipStop, AddStop, Tick

(* Every step keeps the time stamps and who signs for this node. *)
LEMMA StepKeepsStamped == IInv /\ [Next]_vars => StampedInv'
<1> SUFFICES ASSUME IInv, [Next]_vars PROVE StampedInv'
  OBVIOUS
<1> USE DEF IInv, StampedInv, world, requests, chain, loop
<1>1. ASSUME NEW s \in Submitted, Receive(s) PROVE StampedInv'
  BY <1>1, KeysAssumption DEF Receive, Stamped
<1>2. ASSUME NEW t \in received, PassRateLimit(t) PROVE StampedInv'
  BY <1>2 DEF PassRateLimit
<1>3. ASSUME NEW t \in received, HitRateLimit(t) PROVE StampedInv'
  BY <1>3 DEF HitRateLimit
<1>4. ASSUME NEW t \in admitted, AddTransaction(t) \/ AddFails(t) PROVE StampedInv'
  BY <1>4 DEF AddTransaction, AddFails
<1>5. CASE ProposeBlock
  BY <1>5 DEF ProposeBlock
<1>6. ASSUME NEW k, NEW bs, AcceptBlock(k, bs) PROVE StampedInv'
  BY <1>6 DEF AcceptBlock
<1>7. CASE ExecuteTransaction
  BY <1>7 DEF ExecuteTransaction
<1>8. CASE AddMinerAccount
  BY <1>8 DEF AddMinerAccount
<1>9. CASE CopyAuctions
  BY <1>9 DEF CopyAuctions
<1>10. ASSUME NEW id, SignStop(id) PROVE StampedInv'
  <2>1. PICK s \in Signed : s.from = Miner /\ stopping' = {[data |-> s, timestamp |-> clock]}
    BY <1>10 DEF SignStop
  <2>2. [data |-> s, timestamp |-> clock] \in Stamped
    BY DEF Stamped
  <2> QED BY <1>10, <2>1, <2>2 DEF SignStop
<1>11. ASSUME NEW id, SkipStop(id) PROVE StampedInv'
  BY <1>11 DEF SkipStop
<1>12. CASE AddStop
  BY <1>12 DEF AddStop
<1>13. CASE Tick
  BY <1>13 DEF Tick
<1>14. CASE UNCHANGED vars
  BY <1>14 DEF vars
<1> QED
  BY <1>1, <1>2, <1>3, <1>4, <1>5, <1>6, <1>7, <1>8, <1>9, <1>10, <1>11, <1>12, <1>13, <1>14
  DEF Next, StoppingLoop

(* Whatever is added, the pool keeps within its size, one entry per id.    *)
LEMMA AdditionKeepsPool ==
  ASSUME PoolInv, NEW t \in Stamped, pool' = Insert(pool, t)
  PROVE  /\ PoolInv' /\ pool' \subseteq pool \cup {t}
         /\ \A u \in pool' : u.data = t.data => u = t
  BY InsertFacts DEF PoolInv

(* An addition of this node itself concerns no client. *)
LEMMA MinerAdditionKeeps ==
  ASSUME IInv, [Next]_vars, NEW t \in Stamped, t.data.from = Miner, pool' = Insert(pool, t)
  PROVE  PoolInv' /\ ClientsInv' /\ PendingNoncesDistinct'
<1>1. /\ PoolInv' /\ pool' \subseteq pool \cup {t}
      /\ \A u \in pool' : u.data = t.data => u = t
  BY AdditionKeepsPool DEF IInv
<1>2. ClientsInv'
  BY <1>1, AccountsStay DEF IInv, ClientsInv, IsAccount
<1>3. PendingNoncesDistinct'
  BY <1>1 DEF IInv, PendingNoncesDistinct
<1> QED BY <1>1, <1>2, <1>3

(* A client's addition has been checked. *)
LEMMA CheckedAdditionKeeps ==
  ASSUME IInv, [Next]_vars, NEW t \in Stamped, Admissible(t), pool' = Insert(pool, t)
  PROVE  PoolInv' /\ ClientsInv' /\ PendingNoncesDistinct'
<1>1. /\ PoolInv' /\ pool' \subseteq pool \cup {t}
      /\ \A u \in pool' : u.data = t.data => u = t
  BY AdditionKeepsPool DEF IInv
<1>2. IF IsAccount(t) THEN t.data.public_key = t.data.from /\ t.data.nonce = 0
                           /\ ~World!Known(t.data.from)
      ELSE World!Known(t.data.from) /\ ~Replay(t)
  BY DEF Admissible
<1>3. ClientsInv'
  BY <1>1, <1>2, AccountsStay DEF IInv, ClientsInv, IsAccount
<1>4. ASSUME NEW u \in pool', u.data.from = t.data.from, u.data.from # Miner,
             u.data.nonce = t.data.nonce
      PROVE  u = t
  <2> SUFFICES ASSUME u \in pool PROVE u = t
    BY <1>1
  <2>1. IsAccount(t)
    BY <1>2, <1>4 DEF Replay
  <2>2. IsAccount(u) /\ u.data.public_key = u.data.from /\ u.data.nonce = 0
    BY <1>2, <1>4, <2>1 DEF IInv, ClientsInv
  <2>3. u.data \in World!CreateUserAccountTx /\ t.data \in World!CreateUserAccountTx
    BY <2>1, <2>2, SignedAssumption DEF IInv, PoolInv, Stamped, IsAccount
  <2>4. u.data = t.data
    <3>1. /\ u.data.kind = t.data.kind /\ u.data.from = t.data.from
          /\ u.data.nonce = t.data.nonce /\ u.data.public_key = t.data.public_key
      BY <1>2, <1>4, <2>1, <2>2 DEF IsAccount
    <3>2. \A x, y \in World!CreateUserAccountTx :
            /\ x.kind = y.kind /\ x.from = y.from
            /\ x.nonce = y.nonce /\ x.public_key = y.public_key
            => x = y
      BY DEF World!CreateUserAccountTx
    <3> QED BY <2>3, <3>1, <3>2
  <2> QED BY <1>1, <2>4
<1>5. PendingNoncesDistinct'
  BY <1>1, <1>4 DEF IInv, PendingNoncesDistinct
<1> QED BY <1>1, <1>3, <1>5

(* A pool that stays or is emptied needs no check. *)
LEMMA SmallerPoolKeeps ==
  ASSUME IInv, [Next]_vars, pool' \in {pool, {}}
  PROVE  PoolInv' /\ ClientsInv' /\ PendingNoncesDistinct'
<1>1. PoolInv'
  BY FS_EmptySet, BoundsAssumption DEF IInv, PoolInv, OnePerId
<1>2. ClientsInv'
  BY AccountsStay DEF IInv, ClientsInv, IsAccount
<1>3. PendingNoncesDistinct'
  BY DEF IInv, PendingNoncesDistinct
<1> QED BY <1>1, <1>2, <1>3

(* Every step keeps the invariant. *)
LEMMA StepPreserves == IInv /\ [Next]_vars => IInv'
<1> SUFFICES ASSUME IInv, [Next]_vars PROVE IInv'
  OBVIOUS
<1>1. StampedInv'
  BY StepKeepsStamped
<1>2. PoolInv' /\ ClientsInv' /\ PendingNoncesDistinct'
  <2>1. CASE pool' \in {pool, {}}
    BY <2>1, SmallerPoolKeeps
  <2>2. ASSUME NEW t \in admitted, Admissible(t), pool' = Insert(pool, t)
        PROVE  PoolInv' /\ ClientsInv' /\ PendingNoncesDistinct'
    BY <2>2, CheckedAdditionKeeps DEF IInv, StampedInv
  <2>3. ASSUME NEW t \in stopping, pool' = Insert(pool, t)
        PROVE  PoolInv' /\ ClientsInv' /\ PendingNoncesDistinct'
    BY <2>3, MinerAdditionKeeps DEF IInv, StampedInv
  <2>4. ASSUME NEW s \in Signed, s.from = Miner,
               pool' = Insert(pool, [data |-> s, timestamp |-> clock])
        PROVE  PoolInv' /\ ClientsInv' /\ PendingNoncesDistinct'
    <3>1. [data |-> s, timestamp |-> clock] \in Stamped
      BY DEF Stamped, IInv, StampedInv
    <3> QED BY <2>4, <3>1, MinerAdditionKeeps
  <2> QED BY <2>1, <2>2, <2>3, <2>4, StepOfPool
<1> QED BY <1>1, <1>2 DEF IInv

(* The invariant of the pool holds in all behaviours.                      *)
LEMMA Invariance == Spec => []IInv
  BY InitEstablishes, StepPreserves, PTL DEF Spec

(* The pool never exceeds its limit and holds one entry per id, whichever  *)
(* task adds to it.                                                        *)
THEOREM PoolIsBounded == Spec => []PoolBounded
<1>1. IInv => PoolBounded
  BY DEF IInv, PoolInv, OnePerId, PoolBounded
<1> QED BY <1>1, Invariance, PTL

(* Two different pending transactions of a client never have one nonce.    *)
THEOREM PendingNoncesAreDistinct == Spec => []PendingNoncesDistinct
<1>1. IInv => PendingNoncesDistinct
  BY DEF IInv
<1> QED BY <1>1, Invariance, PTL

-----------------------------------------------------------------------------
(* The world *)

(* What WorldStateProofs states and what Mempool uses are the same. *)
LEMMA SameTransactions ==
  /\ World!CreateUserAccountTx = Lemmas!CreateUserAccountTx
  /\ World!BidTx = Lemmas!BidTx
  /\ World!CreateAuctionTx = Lemmas!CreateAuctionTx
  /\ World!StopAuctionTx = Lemmas!StopAuctionTx
  BY DEF World!CreateUserAccountTx, World!BidTx, World!CreateAuctionTx, World!StopAuctionTx,
         Lemmas!CreateUserAccountTx, Lemmas!BidTx, Lemmas!CreateAuctionTx, Lemmas!StopAuctionTx

(* The world of the node and the one the lemmas are about execute a        *)
(* transaction alike.                                                      *)
LEMMA SameExecution ==
  /\ \A t : World!Executable(t) <=> Lemmas!Executable(t)
  /\ \A t : World!UseNonce(t) <=> Lemmas!UseNonce(t)
  /\ \A t : World!CreateUserAccount(t) <=> Lemmas!CreateUserAccount(t)
  /\ \A t : World!Bid(t) <=> Lemmas!Bid(t)
  /\ \A t : World!CreateAuction(t) <=> Lemmas!CreateAuction(t)
  /\ \A t : World!StopAuction(t) <=> Lemmas!StopAuction(t)
  /\ \A t : World!Reject(t) <=> Lemmas!Reject(t)
  /\ World!NextBlock <=> Lemmas!NextBlock
  /\ World!Init <=> Lemmas!Init
<1>1. \A t : World!NonceMatches(t) <=> Lemmas!NonceMatches(t)
  BY DEF World!NonceMatches, World!Known, Lemmas!NonceMatches, Lemmas!Known
<1>2. \A id : World!GetAuction(id) = Lemmas!GetAuction(id)
  BY DEF World!GetAuction, World!Open, Lemmas!GetAuction, Lemmas!Open
<1>3. \A t : World!MayStop(t) <=> Lemmas!MayStop(t)
  BY <1>2 DEF World!MayStop, Lemmas!MayStop
<1>4. \A t : World!Executable(t) <=> Lemmas!Executable(t)
  BY <1>1, <1>3, SameTransactions DEF World!Executable, World!Known, Lemmas!Executable, Lemmas!Known
<1>5. \A t : World!UseNonce(t) <=> Lemmas!UseNonce(t)
  BY DEF World!UseNonce, World!Put, World!NextNonce, World!Known,
         Lemmas!UseNonce, Lemmas!Put, Lemmas!NextNonce, Lemmas!Known
<1>6. \A t : World!CreateUserAccount(t) <=> Lemmas!CreateUserAccount(t)
  BY <1>4, <1>5, SameTransactions DEF World!CreateUserAccount, Lemmas!CreateUserAccount
<1>7. \A t : World!Bid(t) <=> Lemmas!Bid(t)
  BY <1>4, <1>5, SameTransactions DEF World!Bid, Lemmas!Bid
<1>8. \A t : World!CreateAuction(t) <=> Lemmas!CreateAuction(t)
  BY <1>4, <1>5, SameTransactions
  DEF World!CreateAuction, World!Put, Lemmas!CreateAuction, Lemmas!Put
<1>9. \A t : World!StopAuction(t) <=> Lemmas!StopAuction(t)
  BY <1>4, <1>5, SameTransactions
  DEF World!StopAuction, World!Restrict, Lemmas!StopAuction, Lemmas!Restrict
<1>10. \A t : World!Reject(t) <=> Lemmas!Reject(t)
  BY SameTransactions DEF World!Reject, Lemmas!Reject
<1>11. World!NextBlock <=> Lemmas!NextBlock
  BY DEF World!NextBlock, Lemmas!NextBlock
<1>12. World!Init <=> Lemmas!Init
  BY DEF World!Init, Lemmas!Init
<1> QED BY <1>4, <1>5, <1>6, <1>7, <1>8, <1>9, <1>10, <1>11, <1>12

(* They also have the same invariants.                                     *)
LEMMA SameInvariants ==
  /\ World!TypeOK <=> Lemmas!TypeOK
  /\ World!NonceDiscipline <=> Lemmas!NonceDiscipline
  /\ World!AuctionsBacked <=> Lemmas!AuctionsBacked
<1>1. World!TypeOK <=> Lemmas!TypeOK
  BY SameTransactions DEF World!TypeOK, Lemmas!TypeOK
<1>2. World!NonceDiscipline <=> Lemmas!NonceDiscipline
  BY DEF World!NonceDiscipline, World!NextNonce, World!Known,
         Lemmas!NonceDiscipline, Lemmas!NextNonce, Lemmas!Known
<1>3. \A id : World!Opening(id) = Lemmas!Opening(id)
  BY DEF World!Opening, World!Last, Lemmas!Opening, Lemmas!Last
<1>4. World!AuctionsBacked <=> Lemmas!AuctionsBacked
  BY <1>3 DEF World!AuctionsBacked, World!Range, Lemmas!AuctionsBacked, Lemmas!Range
<1> QED BY <1>1, <1>2, <1>4

(* A step executes the next transaction of the block that is due, makes    *)
(* the next block due, or leaves the world alone.                          *)
LEMMA WorldStep ==
  ASSUME [Next]_vars
  PROVE  \/ ExecuteTransaction /\ Lemmas!Executes(Executed(Head(executing)))
         \/ Lemmas!NextBlock
         \/ UNCHANGED world
<1> USE DEF world, requests, chain, loop
<1>1. CASE ExecuteTransaction
  BY <1>1, SameExecution DEF ExecuteTransaction, Lemmas!Executes
<1>2. CASE ProposeBlock
  BY <1>2, SameExecution DEF ProposeBlock, Chain
<1>3. ASSUME NEW k, NEW bs, AcceptBlock(k, bs) PROVE Lemmas!NextBlock \/ UNCHANGED world
  BY <1>3, SameExecution DEF AcceptBlock, Chain
<1> QED
  BY <1>1, <1>2, <1>3
  DEF Next, vars, StoppingLoop, Receive, PassRateLimit, HitRateLimit, AddTransaction, AddFails,
      AddMinerAccount, CopyAuctions, SignStop, SkipStop, AddStop, Tick

(* The world stays in order whatever is in the blocks, and however the     *)
(* blocks come to be due.                                                  *)
WorldInv ==
  /\ Lemmas!TypeOK /\ Lemmas!NonceDiscipline /\ Lemmas!AuctionsBacked
  /\ Lemmas!StopTimesOfOpenings

(* The world starts empty.                                                 *)
LEMMA InitWorld == Init => WorldInv
<1>1. Lemmas!Init => Lemmas!TypeOK /\ Lemmas!NonceDiscipline /\ Lemmas!AuctionsBacked
  BY Lemmas!InitFacts, WorldAssumption
<1>2. Lemmas!Init => Lemmas!StopTimesOfOpenings
  BY DEF Lemmas!Init, Lemmas!StopTimesOfOpenings
<1> QED BY <1>1, <1>2, SameExecution DEF Init, WorldInv

(* Whatever happens to the pool, the world goes on as WorldState says.     *)
LEMMA StepKeepsWorld == WorldInv /\ [Next]_vars => WorldInv'
<1>1. ASSUME WorldInv, NEW t, Lemmas!Executes(t) \/ Lemmas!NextBlock PROVE WorldInv'
  <2>1. Lemmas!TypeOK'
    BY <1>1, Lemmas!ExecutionKeepsTypes, WorldAssumption DEF WorldInv
  <2>2. Lemmas!NonceDiscipline'
    BY <1>1, Lemmas!ExecutionKeepsDiscipline, WorldAssumption DEF WorldInv
  <2>3. Lemmas!AuctionsBacked'
    BY <1>1, Lemmas!ExecutionKeepsBacked, WorldAssumption DEF WorldInv
  <2>4. Lemmas!StopTimesOfOpenings'
    BY <1>1, Lemmas!ExecutionKeepsStopTimes, WorldAssumption DEF WorldInv
  <2> QED BY <2>1, <2>2, <2>3, <2>4 DEF WorldInv
<1>2. WorldInv /\ UNCHANGED world => WorldInv'
  BY DEF WorldInv, world, Lemmas!TypeOK, Lemmas!NonceDiscipline, Lemmas!NextNonce, Lemmas!Known,
         Lemmas!AuctionsBacked, Lemmas!StopTimesOfOpenings, Lemmas!Opening
<1> SUFFICES ASSUME WorldInv, [Next]_vars PROVE WorldInv'
  OBVIOUS
<1>3. PICK t : t = Executed(Head(executing))
  OBVIOUS
<1> QED BY <1>1, <1>2, <1>3, WorldStep

-----------------------------------------------------------------------------
(* Blocks *)

(* The blocks that are known hold members of S. *)
BlocksOf(S) == window \in Seq(Seq(S)) /\ executing \in Seq(S) /\ recorded \subseteq S

(* What a new chain executes and keeps comes from it. *)
LEMMA ChainKeepsBlocks ==
  ASSUME NEW S, BlocksOf(S), NEW w \in Seq(Seq(S)), Chain(w)
  PROVE  BlocksOf(S)'
<1>1. CASE Len(w) <= N
  BY <1>1 DEF Chain, BlocksOf
<1>2. CASE ~(Len(w) <= N)
  <2>1. Len(w) \in Nat /\ N \in Nat \ {0}
    BY BoundsAssumption DEF N
  <2>2. w # <<>>
    BY <1>2, <2>1
  <2>3. Head(w) \in Seq(S) /\ Tail(w) \in Seq(Seq(S))
    BY <2>2, HeadTailProperties
  <2>4. ToSet(Head(w)) \subseteq S
    BY <2>3 DEF ToSet
  <2> QED BY <1>2, <2>3, <2>4 DEF Chain, BlocksOf
<1> QED BY <1>1, <1>2

(* Whatever the pool and the blocks of others hold is all that blocks can  *)
(* come to hold.                                                           *)
LEMMA StepKeepsBlocks ==
  ASSUME [Next]_vars, NEW S, BlocksOf(S), ForeignBlocks \subseteq Seq(S),
         pool \subseteq S, pool \subseteq Stamped, IsFiniteSet(pool)
  PROVE  BlocksOf(S)'
<1> USE DEF world, requests, chain, loop
<1>1. CASE ProposeBlock
  <2>1. ToSortedQueue(pool) \in Seq(S)
    BY FlushFacts, SeqMonotonic
  <2>2. Append(window, ToSortedQueue(pool)) \in Seq(Seq(S))
    BY <2>1, AppendProperties DEF BlocksOf
  <2> QED BY <1>1, <2>2, ChainKeepsBlocks DEF ProposeBlock
<1>2. ASSUME NEW k \in 0 .. Len(window), NEW bs \in SeqOf(ForeignBlocks, N + 1), AcceptBlock(k, bs)
      PROVE  BlocksOf(S)'
  <2>1. window \in Seq(Seq(S)) /\ Len(window) \in Nat
    BY DEF BlocksOf
  <2>2. SubSeq(window, 1, k) \in Seq(Seq(S))
    BY <2>1, SubSeqProperties
  <2>3. bs \in Seq(Seq(S))
    <3>1. PICK m \in 0 .. N + 1 : bs \in [1 .. m -> ForeignBlocks]
      BY DEF SeqOf
    <3>2. m \in Nat
      BY BoundsAssumption DEF N
    <3>3. bs \in [1 .. m -> Seq(S)]
      BY <3>1
    <3> QED BY <3>2, <3>3, SeqDef
  <2>4. SubSeq(window, 1, k) \o bs \in Seq(Seq(S))
    BY <2>2, <2>3, ConcatProperties
  <2> QED BY <1>2, <2>4, ChainKeepsBlocks DEF AcceptBlock
<1>3. CASE ExecuteTransaction
  <2>1. Tail(executing) \in Seq(S)
    BY <1>3, HeadTailProperties DEF ExecuteTransaction, Unlocked, BlocksOf
  <2> QED BY <1>3, <2>1 DEF ExecuteTransaction, BlocksOf
<1>4. CASE UNCHANGED chain
  BY <1>4 DEF BlocksOf
<1> QED
  BY <1>1, <1>2, <1>3, <1>4
  DEF Next, vars, StoppingLoop, Receive, PassRateLimit, HitRateLimit, AddTransaction, AddFails,
      AddMinerAccount, CopyAuctions, SignStop, SkipStop, AddStop, Tick

-----------------------------------------------------------------------------
(* Types *)

(* The types of what is neither the world, the pool nor the chain. *)
RestTypes ==
  /\ clock \in 0 .. MaxTime
  /\ DOMAIN last_tx \subseteq PublicKey
  /\ \A k \in DOMAIN last_tx : last_tx[k] \in 0 .. clock
  /\ snapshot \subseteq AuctionId
  /\ started \in BOOLEAN /\ submissions \in Nat /\ foreign \in Nat

(* Everything the node keeps has its type.                                 *)
TypeInv == IInv /\ WorldInv /\ BlocksOf(Stamped) /\ RestTypes

(* The types hold at the start.                                            *)
LEMMA InitTypes == Init => TypeInv
<1> SUFFICES ASSUME Init PROVE TypeInv
  OBVIOUS
<1>1. BlocksOf(Stamped)
  BY DEF Init, BlocksOf
<1>2. RestTypes
  <2>1. clock = 0 /\ DOMAIN last_tx = {} /\ submissions = 0 /\ foreign = 0
    BY DEF Init
  <2>2. clock \in 0 .. MaxTime
    BY <2>1, BoundsAssumption
  <2>3. snapshot \subseteq AuctionId /\ started \in BOOLEAN
    BY DEF Init
  <2> QED BY <2>1, <2>2, <2>3 DEF RestTypes
<1> QED BY <1>1, <1>2, InitEstablishes, InitWorld DEF TypeInv

(* The time of the last request of a sender is never ahead of the clock. *)
LEMMA StepKeepsRest == TypeInv /\ [Next]_vars => RestTypes'
<1> SUFFICES ASSUME TypeInv, [Next]_vars PROVE RestTypes'
  OBVIOUS
<1> USE DEF RestTypes, world, requests, chain, loop
<1>1. RestTypes /\ clock \in Nat /\ MaxTime \in Nat
  BY BoundsAssumption DEF TypeInv
<1>2. ASSUME NEW s \in Submitted, Receive(s) PROVE RestTypes'
  BY <1>1, <1>2 DEF Receive
<1>3. ASSUME NEW t \in received, PassRateLimit(t) PROVE RestTypes'
  <2>1. t.data.from \in PublicKey
    BY SignedAssumption DEF TypeInv, IInv, StampedInv, Stamped
  <2>2. /\ DOMAIN last_tx' = DOMAIN last_tx \cup {t.data.from}
        /\ last_tx'[t.data.from] = clock
        /\ \A k \in DOMAIN last_tx \ {t.data.from} : last_tx'[k] = last_tx[k]
    BY <1>3 DEF PassRateLimit, World!Put
  <2>3. \A k \in DOMAIN last_tx' : last_tx'[k] \in 0 .. clock
    BY <1>1, <2>2
  <2> QED BY <1>1, <1>3, <2>1, <2>2, <2>3 DEF PassRateLimit
<1>4. CASE CopyAuctions
  BY <1>1, <1>4 DEF CopyAuctions, TypeInv, WorldInv, Lemmas!TypeOK
<1>5. CASE AddMinerAccount
  BY <1>1, <1>5 DEF AddMinerAccount
<1>6. CASE Tick
  BY <1>1, <1>6 DEF Tick
<1>7. ASSUME NEW k, NEW bs, AcceptBlock(k, bs) PROVE RestTypes'
  BY <1>1, <1>7 DEF AcceptBlock
<1>8. ASSUME NEW id, SignStop(id) \/ SkipStop(id) PROVE RestTypes'
  BY <1>1, <1>8 DEF SignStop, SkipStop
<1>9. CASE UNCHANGED <<clock, last_tx, submissions, foreign, snapshot, started>>
  BY <1>1, <1>9
<1> QED
  BY <1>2, <1>3, <1>4, <1>5, <1>6, <1>7, <1>8, <1>9
  DEF Next, vars, StoppingLoop, HitRateLimit, AddTransaction, AddFails, AddStop, ProposeBlock,
      ExecuteTransaction

(* Every step keeps them.                                                  *)
LEMMA StepKeepsTypes == TypeInv /\ [Next]_vars => TypeInv'
<1> SUFFICES ASSUME TypeInv, [Next]_vars PROVE TypeInv'
  OBVIOUS
<1>1. BlocksOf(Stamped)'
  BY StepKeepsBlocks, ForeignAssumption DEF TypeInv, IInv, PoolInv
<1> QED BY <1>1, StepKeepsRest, StepPreserves, StepKeepsWorld DEF TypeInv

(* And so they always hold.                                                *)
LEMMA TypeInvariance == Spec => []TypeInv
  BY InitTypes, StepKeepsTypes, PTL DEF Spec

(* The variables have their types: what is sorted into a block is what the *)
(* pool held, the stamps stay stamps on their way through pool and blocks, *)
(* and no sender was let in later than now.                                *)
THEOREM TypeCorrectness == Spec => []TypeOK
<1>1. TypeInv => TypeOK
  BY SameInvariants
  DEF TypeInv, IInv, StampedInv, PoolInv, WorldInv, BlocksOf, RestTypes, TypeOK
<1> QED BY <1>1, TypeInvariance, PTL

(* Nonces are used in order and once, and open auctions go back to         *)
(* executed transactions, also in a node whose blocks hold what its pool   *)
(* did and whose chain is reorganised.                                     *)
THEOREM WorldStaysInOrder == Spec => [](World!NonceDiscipline /\ World!AuctionsBacked)
<1>1. TypeInv => World!NonceDiscipline /\ World!AuctionsBacked
  BY SameInvariants DEF TypeInv, WorldInv
<1> QED BY <1>1, TypeInvariance, PTL

-----------------------------------------------------------------------------
(* Stops of this node *)

(* With the key of a node nobody opens auctions: the node signs with it    *)
(* the creation of its account and StopAuctions only.  And it is this node *)
(* that does: in the blocks others mine nothing is signed with its key.    *)
NodeOpensNone == \A s \in Signed : s.kind = "CreateAuction" => s.from # Miner
OthersDoNotSign == \A b \in ForeignBlocks : \A t \in ToSet(b) : t.data.from # Miner

(* Transactions that are not this node's or not from the future. *)
Timely == {t \in Stamped : t.data.from = Miner => t.timestamp <= clock}

(* Why an expired auction is still expired when its StopAuction, signed    *)
(* for a copy of the auctions that is out of date, is executed: the time   *)
(* stamp it is judged by is the clock of the past.                         *)
OwnInv ==
  /\ received \cup admitted \cup stopping \cup pool \subseteq Timely
  /\ BlocksOf(Timely)
  /\ \A id \in DOMAIN auctions : Lemmas!Opening(id).from # Miner

(* What comes up on its way to a block is stamped with the clock. *)
LEMMA OnlyNewStamps ==
  ASSUME IInv, [Next]_vars
  PROVE  received' \cup admitted' \cup stopping' \cup pool'
           \subseteq received \cup admitted \cup stopping \cup pool
                     \cup {[data |-> s, timestamp |-> clock] : s \in Signed}
<1> USE DEF world, requests, chain, loop
<1>1. \A t : Insert(pool, t) \subseteq pool \cup {t}
  BY DEF Insert
<1>2. ASSUME NEW s \in Submitted, Receive(s)
      PROVE  received' \subseteq received \cup {[data |-> s, timestamp |-> clock]}
             /\ s \in Signed /\ UNCHANGED <<admitted, stopping, pool>>
  BY <1>2, KeysAssumption DEF Receive
<1>3. ASSUME NEW t \in received, PassRateLimit(t) \/ HitRateLimit(t)
      PROVE  received' \subseteq received /\ admitted' \subseteq admitted \cup {t}
             /\ UNCHANGED <<stopping, pool>>
  BY <1>3 DEF PassRateLimit, HitRateLimit
<1>4. ASSUME NEW t \in admitted, AddTransaction(t) \/ AddFails(t)
      PROVE  admitted' \subseteq admitted /\ pool' \subseteq pool \cup {t}
             /\ UNCHANGED <<received, stopping>>
  BY <1>1, <1>4 DEF AddTransaction, AddFails
<1>5. ASSUME ProposeBlock \/ ExecuteTransaction \/ CopyAuctions \/ Tick
      PROVE  pool' \subseteq pool /\ UNCHANGED <<received, admitted, stopping>>
  BY <1>5 DEF ProposeBlock, ExecuteTransaction, CopyAuctions, Tick
<1>6. ASSUME NEW k, NEW bs, AcceptBlock(k, bs)
      PROVE  UNCHANGED <<received, admitted, stopping, pool>>
  BY <1>6 DEF AcceptBlock
<1>7. CASE AddMinerAccount
  <2>1. PICK s \in Signed : pool' = Insert(pool, [data |-> s, timestamp |-> clock])
    BY <1>7 DEF AddMinerAccount
  <2> QED BY <1>1, <1>7, <2>1 DEF AddMinerAccount
<1>8. ASSUME NEW id, SignStop(id)
      PROVE  \E s \in Signed : stopping' = {[data |-> s, timestamp |-> clock]}
             /\ UNCHANGED <<received, admitted, pool>>
  BY <1>8 DEF SignStop
<1>9. ASSUME NEW id, SkipStop(id)
      PROVE  UNCHANGED <<received, admitted, stopping, pool>>
  BY <1>9 DEF SkipStop
<1>10. CASE AddStop
  <2>1. PICK t \in stopping : pool' = Insert(pool, t)
    BY <1>10 DEF AddStop
  <2> QED BY <1>1, <1>10, <2>1 DEF AddStop
<1>11. CASE UNCHANGED vars
  BY <1>11 DEF vars
<1> QED
  BY <1>2, <1>3, <1>4, <1>5, <1>6, <1>7, <1>8, <1>9, <1>10, <1>11 DEF Next, StoppingLoop

(* The clock never goes back.                                              *)
LEMMA ClockGoesOn ==
  ASSUME IInv, [Next]_vars
  PROVE  clock' \in Nat /\ clock <= clock'
<1> USE DEF world, requests, chain, loop
<1>1. clock \in Nat /\ (Tick => clock' = clock + 1)
  BY DEF IInv, StampedInv, Tick
<1>2. ~Tick => clock' = clock
  BY DEF Next, vars, StoppingLoop, Receive, PassRateLimit, HitRateLimit, AddTransaction, AddFails,
      ProposeBlock, AcceptBlock, ExecuteTransaction, AddMinerAccount, CopyAuctions, SignStop,
      SkipStop, AddStop
<1> QED BY <1>1, <1>2

(* What is executed is what was signed, and a StopAuction is judged by its *)
(* time stamp.                                                             *)
LEMMA ExecutedFacts ==
  ASSUME NEW h \in Stamped
  PROVE  /\ Executed(h) \in Lemmas!CreateAuctionTx =>
              Executed(h) \in Signed /\ Executed(h).kind = "CreateAuction"
         /\ Executed(h) \in Lemmas!StopAuctionTx =>
              Executed(h).from = h.data.from /\ Executed(h).timestamp = h.timestamp
<1>1. h.data \in Signed
  BY DEF Stamped
<1>2. CASE h.data.kind = "StopAuction"
  <2>1. /\ Executed(h).kind = "StopAuction" /\ Executed(h).from = h.data.from
        /\ Executed(h).timestamp = h.timestamp
    BY <1>2 DEF Executed
  <2>2. Executed(h) \notin Lemmas!CreateAuctionTx
    BY <2>1 DEF Lemmas!CreateAuctionTx
  <2> QED BY <1>2, <2>1, <2>2
<1>3. CASE h.data.kind # "StopAuction"
  <2>1. Executed(h) = h.data
    BY <1>3 DEF Executed
  <2>2. h.data \notin Lemmas!StopAuctionTx
    BY <1>3 DEF Lemmas!StopAuctionTx
  <2>3. h.data \in Lemmas!CreateAuctionTx => h.data.kind = "CreateAuction"
    BY DEF Lemmas!CreateAuctionTx
  <2> QED BY <1>1, <2>1, <2>2, <2>3
<1> QED BY <1>2, <1>3

(* At the start this node has signed nothing and no auction is open.       *)
LEMMA InitOwn == Init => OwnInv
<1> SUFFICES ASSUME Init PROVE OwnInv
  OBVIOUS
<1>1. DOMAIN auctions = {}
  BY DEF Init, World!Init
<1>2. BlocksOf(Timely)
  BY DEF Init, BlocksOf
<1> QED BY <1>1, <1>2 DEF Init, OwnInv

(* The key of the node opens no auction. *)
LEMMA StepKeepsOpenings ==
  ASSUME NodeOpensNone, TypeInv, OwnInv, [Next]_vars,
         NEW id \in DOMAIN auctions'
  PROVE  Lemmas!Opening(id)'.from # Miner
<1>1. CASE UNCHANGED auctions
  BY <1>1 DEF OwnInv, Lemmas!Opening
<1>2. CASE ExecuteTransaction /\ Lemmas!Executes(Executed(Head(executing)))
  <2>1. PICK h : h = Head(executing)
    OBVIOUS
  <2>2. h \in Stamped
    BY <1>2, <2>1, HeadTailProperties DEF ExecuteTransaction, Unlocked, TypeInv, BlocksOf
  <2>3. PICK t : t = Executed(h) /\ Lemmas!Executes(t)
    BY <1>2, <2>1
  <2>4. Lemmas!TypeOK
    BY DEF TypeInv, WorldInv
  <2>5. CASE Lemmas!CreateAuction(t)
    <3>1. /\ t \in Lemmas!CreateAuctionTx /\ Lemmas!Last(block') = t
          /\ DOMAIN auctions' = DOMAIN auctions \cup {t.auction_id}
          /\ auctions'[t.auction_id].block = block'
          /\ \A i \in DOMAIN auctions \ {t.auction_id} : auctions'[i] = auctions[i]
      BY <2>4, <2>5, Lemmas!CreationFacts, WorldAssumption
    <3>2. t.from # Miner
      BY <2>2, <2>3, <3>1, ExecutedFacts DEF NodeOpensNone
    <3>3. CASE id = t.auction_id
      BY <3>1, <3>2, <3>3 DEF Lemmas!Opening
    <3>4. CASE id # t.auction_id
      BY <3>1, <3>4 DEF OwnInv, Lemmas!Opening
    <3> QED BY <3>3, <3>4
  <2>6. CASE ~Lemmas!CreateAuction(t)
    <3>1. DOMAIN auctions' \subseteq DOMAIN auctions
          /\ \A i \in DOMAIN auctions' : auctions'[i] = auctions[i]
      BY <2>3, <2>6, Lemmas!ExecutionOfAuctions, WorldAssumption
    <3> QED BY <3>1 DEF OwnInv, Lemmas!Opening
  <2> QED BY <2>5, <2>6
<1> QED BY <1>1, <1>2, WorldStep DEF Lemmas!NextBlock, world

(* Every step keeps what is known of the node's own transactions.          *)
LEMMA StepKeepsOwn ==
  ASSUME NodeOpensNone, OthersDoNotSign, TypeInv, OwnInv, [Next]_vars
  PROVE  OwnInv'
<1>1. PICK S : S = Timely
  OBVIOUS
<1>2. clock \in Nat /\ clock' \in Nat /\ clock <= clock'
  BY ClockGoesOn DEF TypeInv, IInv, StampedInv
<1>3. S \subseteq Timely'
  BY <1>1, <1>2 DEF Timely, Stamped
<1>4. {[data |-> s, timestamp |-> clock] : s \in Signed} \subseteq Timely'
  BY <1>2 DEF Timely, Stamped
<1>5. received' \cup admitted' \cup stopping' \cup pool' \subseteq Timely'
  BY <1>1, <1>3, <1>4, OnlyNewStamps DEF OwnInv, TypeInv
<1>6. BlocksOf(S)'
  <2>1. ForeignBlocks \subseteq Seq(S)
    <3> SUFFICES ASSUME NEW b \in ForeignBlocks PROVE b \in Seq(S)
      OBVIOUS
    <3>1. b \in Seq(Stamped)
      BY ForeignAssumption
    <3>2. \A i \in 1 .. Len(b) : b[i] \in S
      BY <1>1, <3>1 DEF OthersDoNotSign, ToSet, Timely
    <3> QED BY <3>1, <3>2, SeqDef
  <2>2. BlocksOf(S) /\ pool \subseteq S /\ pool \subseteq Stamped /\ IsFiniteSet(pool)
    BY <1>1 DEF OwnInv, TypeInv, IInv, PoolInv
  <2> QED BY <2>1, <2>2, StepKeepsBlocks
<1>7. BlocksOf(Timely)'
  <2>1. \A q \in Seq(S) : q \in Seq(Timely')
    BY <1>3, SeqMonotonic
  <2>2. Seq(S) \subseteq Seq(Timely')
    BY <2>1
  <2>3. \A w \in Seq(Seq(S)) : w \in Seq(Seq(Timely'))
    BY <2>2, SeqMonotonic
  <2> QED BY <1>3, <1>6, <2>2, <2>3 DEF BlocksOf
<1> QED BY <1>5, <1>7, StepKeepsOpenings DEF OwnInv

(* Why a stop of this node is due: it is executed with the time stamp of   *)
(* the moment it was signed in, and nobody but the creator may close an    *)
(* auction with a time stamp before its stop time.                         *)
LEMMA OwnStopsAreDue ==
  ASSUME TypeInv, OwnInv, [Next]_vars,
         NEW id \in DOMAIN auctions \ DOMAIN auctions',
         Head(executing).data.from = Miner, Lemmas!CreatedOnce(id)
  PROVE  auctions[id].stop_time <= clock
<1>1. Lemmas!TypeOK /\ Lemmas!AuctionsBacked /\ Lemmas!StopTimesOfOpenings
  BY DEF TypeInv, WorldInv
<1>2. ExecuteTransaction /\ Lemmas!Executes(Executed(Head(executing)))
  BY WorldStep DEF Lemmas!NextBlock, world
<1>3. PICK h : h = Head(executing)
  OBVIOUS
<1>4. h \in Stamped /\ h \in Timely
  BY <1>2, <1>3, HeadTailProperties DEF ExecuteTransaction, Unlocked, TypeInv, OwnInv, BlocksOf
<1>5. PICK t : t = Executed(h) /\ Lemmas!Executes(t)
  BY <1>2, <1>3
<1>6. Lemmas!StopAuction(t) /\ t \in Lemmas!StopAuctionTx /\ t.auction_id = id
  <2>1. ~Lemmas!CreateAuction(t)
    BY <1>1, Lemmas!CreationFacts, WorldAssumption
  <2> QED BY <1>5, <2>1, Lemmas!ExecutionOfAuctions, WorldAssumption
<1>7. t.from = Miner /\ t.timestamp <= clock /\ t.timestamp \in Nat /\ clock \in Nat
  <2>1. t.from = h.data.from /\ t.timestamp = h.timestamp
    BY <1>4, <1>5, <1>6, ExecutedFacts
  <2> QED BY <1>3, <1>4, <2>1 DEF Timely, Stamped, TypeInv, IInv, StampedInv
<1>8. auctions[id].stop_time \in Nat
  BY <1>1, WorldAssumption DEF Lemmas!TypeOK
<1>9. ~(t.timestamp < auctions[id].stop_time)
  <2> SUFFICES ASSUME t.timestamp < auctions[id].stop_time PROVE FALSE
    OBVIOUS
  <2>1. t.from = Lemmas!Opening(id).from
    BY <1>1, <1>6, Lemmas!StopsAreDue, WorldAssumption DEF Lemmas!Open
  <2> QED BY <1>7, <2>1 DEF OwnInv
<1> QED BY <1>7, <1>8, <1>9

(* The stopping loop works on a copy of the auctions, and between the copy *)
(* and the execution of its StopAuction an auction may be closed and opened*)
(* again with a later stop time: still this node closes none before its    *)
(* stop time, provided that it opens none with the key of the node and     *)
(* that nobody else has that key.                                          *)
THEOREM NodeStopsInTime ==
  ASSUME NodeOpensNone, OthersDoNotSign
  PROVE  Spec => NodeStopsExpired
<1>1. TypeInv /\ OwnInv /\ [Next]_vars => OwnInv'
  BY StepKeepsOwn
<1>2. TypeInv /\ OwnInv /\ [Next]_vars =>
        \A id \in DOMAIN auctions \ DOMAIN auctions' :
          /\ Head(executing).data.from = Miner
          /\ \A c \in ToSet(auctions[id].block) :
               c.auction_id = id => c = Last(auctions[id].block)
          => auctions[id].stop_time <= clock
  <2>1. \A id : Lemmas!Opening(id) = Last(auctions[id].block)
    BY DEF Lemmas!Opening, Lemmas!Last, Last
  <2>2. \A q : Lemmas!ToSet(q) = ToSet(q)
    BY DEF Lemmas!ToSet, ToSet
  <2> QED BY <2>1, <2>2, OwnStopsAreDue DEF Lemmas!CreatedOnce
<1> QED BY InitOwn, TypeInvariance, <1>1, <1>2, PTL DEF Spec, NodeStopsExpired
=============================================================================
