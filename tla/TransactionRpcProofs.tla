------------------------ MODULE TransactionRpcProofs ------------------------
(***************************************************************************)
(* Proofs about TransactionRpc, for any number of requests, transactions   *)
(* and blocks: what an answer says is and stays true, and no handler       *)
(* misses its wake-up.                                                     *)
(***************************************************************************)
EXTENDS TransactionRpc, FiniteSetTheorems, TLAPS

(* What the answers rest on: a flag that is set belongs to a transaction   *)
(* that was executed.                                                      *)
FlagsTell == \A r \in Request : flag[r] => Asks[r] \in applied

AnswerInv ==
  /\ flag \in [Request -> BOOLEAN]
  /\ response \in [Request -> {"none", "SUCCESSFUL", "FAILED"}]
  /\ FlagsTell
  /\ SuccessMeansExecuted

(* `fix` only adds to the executed transactions, and sets a flag only for  *)
(* one that it executed.                                                   *)
LEMMA NotifyFacts ==
  ASSUME NEW dropped, NEW ran, Notify(dropped, ran), FlagsTell,
         flag \in [Request -> BOOLEAN]
  PROVE  /\ applied \subseteq applied'
         /\ flag' \in [Request -> BOOLEAN]
         /\ FlagsTell'
<1>1. PICK ok \in SUBSET (ran \ applied) :
        /\ applied' = applied \cup ok
        /\ flag' = [r \in Request |->
             IF Registered(r) /\ Asks[r] \in ran THEN Asks[r] \in ok ELSE flag[r]]
  BY DEF Notify
<1>2. applied \subseteq applied'
  BY <1>1
<1>3. flag' \in [Request -> BOOLEAN]
  <2>1. ASSUME NEW r \in Request
        PROVE  (IF Registered(r) /\ Asks[r] \in ran THEN Asks[r] \in ok ELSE flag[r])
                 \in BOOLEAN
    <3>1. (Asks[r] \in ok) \in BOOLEAN
      OBVIOUS
    <3> QED BY <3>1, Zenon
  <2> QED BY <1>1, <2>1, Zenon
<1>4. ASSUME NEW r \in Request, flag'[r]
      PROVE  Asks[r] \in applied'
  <2>1. CASE Registered(r) /\ Asks[r] \in ran
    <3>1. flag'[r] = (Asks[r] \in ok)
      BY <1>1, <2>1
    <3> QED BY <1>1, <1>4, <3>1
  <2>2. CASE ~(Registered(r) /\ Asks[r] \in ran)
    <3>1. flag'[r] = flag[r]
      BY <1>1, <2>2
    <3> QED BY <1>2, <1>4, <3>1 DEF FlagsTell
  <2> QED BY <2>1, <2>2
<1> QED BY <1>2, <1>3, <1>4 DEF FlagsTell

(* Two kinds of steps: the blockchain notifies and answers nobody, or one  *)
(* handler moves and leaves flags and executed transactions alone.         *)
LEMMA StepKinds ==
  ASSUME Next
  PROVE  \/ \E dropped, ran : Notify(dropped, ran) /\ UNCHANGED response
         \/ UNCHANGED <<applied, flag, response>>
         \/ \E r \in Request : /\ UNCHANGED <<applied, flag>>
                               /\ \/ Refuse(r)
                                  \/ AddFails(r)
                                  \/ Answer(r)
<1>1. ASSUME NEW h \in Hash, ProposeBlock(h)
      PROVE  \E dropped, ran : Notify(dropped, ran) /\ UNCHANGED response
  BY <1>1 DEF ProposeBlock, Settle
<1>2. ASSUME NEW b, NEW valid, NEW txs, AcceptBlock(b, valid, txs)
      PROVE  \E dropped, ran : Notify(dropped, ran) /\ UNCHANGED response
  BY <1>2 DEF AcceptBlock, Settle
<1>3. ASSUME NEW b, NEW valid, RejectBlock(b, valid)
      PROVE  UNCHANGED <<applied, flag, response>>
  BY <1>3 DEF RejectBlock, vars
<1>4. ASSUME NEW r \in Request, Handler(r)
      PROVE  \/ UNCHANGED <<applied, flag, response>>
             \/ /\ UNCHANGED <<applied, flag>>
                /\ Refuse(r) \/ AddFails(r) \/ Answer(r)
  BY <1>4 DEF Handler, Admit, Refuse, Register, AddTransaction, AddFails, Wake,
              Answer
<1> QED BY <1>1, <1>2, <1>3, <1>4 DEF Next

(* An answer keeps the invariant. *)
LEMMA RespondFacts ==
  ASSUME AnswerInv, UNCHANGED <<applied, flag>>,
         NEW r \in Request, NEW from, NEW status \in {"SUCCESSFUL", "FAILED"},
         Respond(r, from, status),
         status = "SUCCESSFUL" => Asks[r] \in applied
  PROVE  AnswerInv'
<1>1. response' = [response EXCEPT ![r] = status]
  BY DEF Respond
<1>2. response' \in [Request -> {"none", "SUCCESSFUL", "FAILED"}]
  BY <1>1 DEF AnswerInv
<1>3. ASSUME NEW s \in Request, response'[s] = "SUCCESSFUL"
      PROVE  Asks[s] \in applied
  <2>1. CASE s = r
    BY <1>1, <1>3, <2>1 DEF AnswerInv
  <2>2. CASE s # r
    BY <1>1, <1>3, <2>2 DEF AnswerInv, SuccessMeansExecuted
  <2> QED BY <2>1, <2>2
<1> QED BY <1>2, <1>3 DEF AnswerInv, SuccessMeansExecuted, FlagsTell

(* No answer was given at the start.                                       *)
LEMMA InitAnswerInv == Init => AnswerInv
  BY DEF Init, AnswerInv, FlagsTell, SuccessMeansExecuted

(* Every step keeps what is known of the answers.                          *)
LEMMA NextAnswerInv == AnswerInv /\ [Next]_vars => AnswerInv'
<1> SUFFICES ASSUME AnswerInv, [Next]_vars PROVE AnswerInv'
  OBVIOUS
<1>1. ASSUME NEW dropped, NEW ran, Notify(dropped, ran), UNCHANGED response
      PROVE  AnswerInv'
  BY <1>1, NotifyFacts DEF AnswerInv, SuccessMeansExecuted
<1>2. CASE UNCHANGED <<applied, flag, response>>
  BY <1>2 DEF AnswerInv, FlagsTell, SuccessMeansExecuted
<1>3. ASSUME NEW r \in Request, UNCHANGED <<applied, flag>>,
             Refuse(r) \/ AddFails(r) \/ Answer(r)
      PROVE  AnswerInv'
  <2>1. CASE Refuse(r)
    BY <1>3, <2>1, RespondFacts DEF Refuse
  <2>2. CASE AddFails(r)
    BY <1>3, <2>2, RespondFacts DEF AddFails
  <2>3. CASE Answer(r)
    <3>1. CASE flag[r]
      <4>1. Respond(r, "notified", "SUCCESSFUL") /\ Asks[r] \in applied
        BY <2>3, <3>1 DEF Answer, AnswerInv, FlagsTell
      <4> QED BY <1>3, <4>1, RespondFacts
    <3>2. CASE ~flag[r]
      <4>1. Respond(r, "notified", "FAILED")
        BY <2>3, <3>2 DEF Answer
      <4> QED BY <1>3, <4>1, RespondFacts
    <3> QED BY <3>1, <3>2
  <2> QED BY <1>3, <2>1, <2>2, <2>3
<1>4. CASE UNCHANGED vars
  BY <1>4, <1>2 DEF vars
<1> QED BY <1>1, <1>2, <1>3, <1>4, StepKinds

(* Whatever else happens to a transaction, and however many requests       *)
(* submit it, an answer SUCCESSFUL means that it was executed.             *)
THEOREM SuccessIsTrue == Spec => []SuccessMeansExecuted
<1>1. AnswerInv => SuccessMeansExecuted
  BY DEF AnswerInv
<1> QED BY InitAnswerInv, NextAnswerInv, <1>1, PTL DEF Spec

-----------------------------------------------------------------------------
(* The block store under the handlers *)

Lemmas == INSTANCE BlockTreeProofs

(* The blocks stored and still to be executed or pruned. *)
Unsettled == {c \in blocks : Len(c) > commited_pointer}

(* The store is in order, and what it executed is the confirmed chain. *)
StoreInv == Lemmas!IInv /\ Lemmas!LogIsConfirmed

(* The instance of BlockTreeProofs has the helpers of this module.         *)
LEMMA SameTerms ==
  /\ \A c : Lemmas!BlockHash(c) = BlockHash(c)
  /\ \A s : Lemmas!ToSet(s) = ToSet(s)
  /\ Lemmas!Unsettled = Unsettled
BY DEF Lemmas!BlockHash, BlockHash, Lemmas!Last, Last, Lemmas!ToSet, ToSet,
   Lemmas!Unsettled, Unsettled

(* The actions of the store, as BlockTreeProofs knows them. *)
LEMMA SameActions ==
  /\ Tree!Init <=> Lemmas!Init
  /\ Tree!Offered = Lemmas!Offered
  /\ \A b, valid : Tree!AcceptBlock(b, valid) <=> Lemmas!AcceptBlock(b, valid)
  /\ \A h : Tree!ProposeBlock(h) <=> Lemmas!ProposeBlock(h)
<1>1. \A c : Tree!BlockHash(c) = Lemmas!BlockHash(c) /\ Tree!RootOf(c) = Lemmas!RootOf(c)
  BY DEF Tree!BlockHash, Tree!RootOf, Tree!Last, Lemmas!BlockHash, Lemmas!RootOf,
         Lemmas!Last
<1>2. Tree!Path = Lemmas!Path /\ Tree!N = Lemmas!N
  BY <1>1 DEF Tree!Path, Lemmas!Path, Tree!N, Lemmas!N
<1>3. \A a, c : Tree!Beats(a, c) <=> Lemmas!Beats(a, c)
  BY <1>1 DEF Tree!Beats, Lemmas!Beats
<1>4. \A bs : Tree!LongestBranch(bs) = Lemmas!LongestBranch(bs)
  BY DEF Tree!LongestBranch, Lemmas!LongestBranch, Tree!Beats, Lemmas!Beats,
     Tree!BlockHash, Lemmas!BlockHash, Tree!Last, Lemmas!Last
<1>5. \A bs, chain, n : Tree!Losers(bs, chain, n) = Lemmas!Losers(bs, chain, n)
  BY DEF Tree!Losers, Lemmas!Losers, Tree!ForksAfter, Lemmas!ForksAfter
<1>6. \A chain : Tree!ExecuteTransactions(chain) <=> Lemmas!ExecuteTransactions(chain)
  BY <1>2 DEF Tree!ExecuteTransactions, Lemmas!ExecuteTransactions,
              Tree!SatSub, Lemmas!SatSub
<1>7. \A b : Tree!PushAndFix(b) <=> Lemmas!PushAndFix(b)
  BY <1>2, <1>4, <1>5, <1>6 DEF Tree!PushAndFix, Lemmas!PushAndFix
<1>8. \A b, valid : Tree!AcceptBlockResult(b, valid) = Lemmas!AcceptBlockResult(b, valid)
  BY DEF Tree!AcceptBlockResult, Lemmas!AcceptBlockResult,
         Tree!HasPreviousBlock, Lemmas!HasPreviousBlock, Tree!Front, Lemmas!Front,
         Tree!ChainVerifies, Lemmas!ChainVerifies
<1>9. \A b, valid : Tree!AcceptBlock(b, valid) <=> Lemmas!AcceptBlock(b, valid)
  BY <1>7, <1>8 DEF Tree!AcceptBlock, Lemmas!AcceptBlock
<1>10. \A h : Tree!ProposeBlock(h) <=> Lemmas!ProposeBlock(h)
  BY <1>1, <1>2, <1>7 DEF Tree!ProposeBlock, Lemmas!ProposeBlock
<1>11. Tree!Offered = Lemmas!Offered
  BY <1>1, <1>2 DEF Tree!Offered, Lemmas!Offered
<1>12. Tree!Init <=> Lemmas!Init
  BY DEF Tree!Init, Lemmas!Init
<1> QED BY <1>9, <1>10, <1>11, <1>12

(* Both operations push a fresh block. *)
LEMMA StorePushes ==
  ASSUME Lemmas!IInv
  PROVE  /\ \A b \in Tree!Offered : \A valid :
              Tree!AcceptBlock(b, valid) => Lemmas!Fresh(b) /\ Lemmas!PushAndFix(b)
         /\ \A h \in Hash : Tree!ProposeBlock(h) =>
              \E b : Lemmas!Fresh(b) /\ Lemmas!PushAndFix(b) /\ BlockHash(b) = h
<1>1. ASSUME NEW b \in Tree!Offered, NEW valid, Tree!AcceptBlock(b, valid)
      PROVE  Lemmas!Fresh(b) /\ Lemmas!PushAndFix(b)
  <2>1. b \in Lemmas!Offered /\ Lemmas!AcceptBlock(b, valid)
    BY <1>1, SameActions
  <2> QED BY <2>1, Lemmas!AcceptPushesFresh, StoreAssumption
<1>2. ASSUME NEW h \in Hash, Tree!ProposeBlock(h)
      PROVE  \E b : Lemmas!Fresh(b) /\ Lemmas!PushAndFix(b) /\ BlockHash(b) = h
  <2>1. Lemmas!ProposeBlock(h) /\ Lemmas!IInv
    BY <1>2, SameActions
  <2>2. \E b : Lemmas!Fresh(b) /\ Lemmas!PushAndFix(b) /\ Lemmas!BlockHash(b) = h
    BY <2>1, Lemmas!ProposePushesFresh, StoreAssumption
  <2> QED BY <2>2, SameTerms
<1> QED BY <1>1, <1>2

(* The hashes of the blocks that a step executes. *)
NewlyExecuted == ToSet(SubSeq(executed', Len(executed) + 1, Len(executed')))

(* A push keeps the store in order, and settles blocks in two ways, each   *)
(* block in one way only; no hash is used twice.                           *)
LEMMA PushOutcome ==
  ASSUME NEW root, Root = {root}, StoreInv,
         NEW b, Lemmas!Fresh(b), Lemmas!PushAndFix(b)
  PROVE  /\ StoreInv'
         /\ blocks' \cup pruned' = blocks \cup pruned \cup {b}
         /\ Unsettled' \subseteq Unsettled \cup {b}
         /\ pruned' \ pruned \subseteq (Unsettled \cup {b}) \ Unsettled'
         /\ \A g \in NewlyExecuted :
              \E c \in (Unsettled \cup {b}) \ Unsettled' : BlockHash(c) = g
         /\ \A c \in Unsettled \cup {b} :
              \/ c \in Unsettled' \/ c \in pruned' \ pruned
              \/ BlockHash(c) \in NewlyExecuted
         /\ \A c \in blocks \cup pruned \cup {b} : BlockHash(c) \in Hash
         /\ \A a, c \in blocks \cup pruned \cup {b} :
              BlockHash(a) = BlockHash(c) => a = c
         /\ \A c \in blocks \cup pruned : BlockHash(c) # BlockHash(b)
<1>1. Lemmas!IInv /\ Lemmas!LogIsConfirmed
  BY DEF StoreInv
<1>2. Lemmas!IInv'
  BY <1>1, Lemmas!PushPreservesIInv, StoreAssumption
<1>3. Lemmas!LogIsConfirmed'
  BY <1>1, Lemmas!PushKeepsLog, StoreAssumption
<1>4. /\ blocks' \cup pruned' = blocks \cup pruned \cup {b}
      /\ Lemmas!Unsettled' \subseteq Lemmas!Unsettled \cup {b}
      /\ pruned' \ pruned \subseteq (Lemmas!Unsettled \cup {b}) \ Lemmas!Unsettled'
      /\ \A g \in Lemmas!NewlyExecuted :
           \E c \in (Lemmas!Unsettled \cup {b}) \ Lemmas!Unsettled' :
             Lemmas!BlockHash(c) = g
      /\ \A c \in Lemmas!Unsettled \cup {b} :
           \/ c \in Lemmas!Unsettled' \/ c \in pruned' \ pruned
           \/ Lemmas!BlockHash(c) \in Lemmas!NewlyExecuted
  BY <1>1, Lemmas!PushSettles, StoreAssumption
<1>5. /\ Lemmas!Unsettled = Unsettled /\ Lemmas!Unsettled' = Unsettled'
      /\ Lemmas!NewlyExecuted = NewlyExecuted
  BY SameTerms DEF Lemmas!Unsettled, Unsettled, Lemmas!NewlyExecuted, NewlyExecuted
<1>6. ASSUME NEW c \in blocks \cup pruned \cup {b} PROVE BlockHash(c) \in Hash
  <2>1. c \in Lemmas!Path
    BY <1>1 DEF Lemmas!IInv, Lemmas!TypeOK, Lemmas!Fresh
  <2>2. /\ Lemmas!BlockHash(c) = c[Len(c)] /\ Len(c) \in Nat /\ Len(c) >= 1
        /\ \A i \in 1 .. Len(c) : c[i] \in Hash
    BY <2>1, Lemmas!PathFacts, StoreAssumption
  <2> QED BY <2>2, SameTerms
<1>7. /\ \A c \in blocks \cup pruned : BlockHash(c) # BlockHash(b)
      /\ \A a, c \in blocks \cup pruned : BlockHash(a) = BlockHash(c) => a = c
  BY <1>1, SameTerms DEF Lemmas!Fresh, Lemmas!IInv, Lemmas!HashesUnique
<1>8. \A a, c \in blocks \cup pruned \cup {b} : BlockHash(a) = BlockHash(c) => a = c
  BY <1>7
<1>9. StoreInv'
  BY <1>2, <1>3 DEF StoreInv
<1>10. /\ \A g \in NewlyExecuted :
            \E c \in (Unsettled \cup {b}) \ Unsettled' : BlockHash(c) = g
       /\ \A c \in Unsettled \cup {b} :
            \/ c \in Unsettled' \/ c \in pruned' \ pruned
            \/ BlockHash(c) \in NewlyExecuted
  BY <1>4, <1>5, SameTerms
<1>11. /\ Unsettled' \subseteq Unsettled \cup {b}
       /\ pruned' \ pruned \subseteq (Unsettled \cup {b}) \ Unsettled'
  BY <1>4, <1>5
<1> QED BY <1>4, <1>6, <1>7, <1>8, <1>9, <1>10, <1>11

-----------------------------------------------------------------------------
(* What a push tells the handlers *)

(* t is in a block that is still to be executed or pruned. *)
Pending(t) == \E c \in Unsettled : t \in content[BlockHash(c)]

(* Those whose transactions are in a block that the step prunes, or        *)
(* executes.                                                               *)
Dropped == UNION {content'[BlockHash(c)] : c \in pruned' \ pruned}
Ran     == UNION {content'[g] : g \in NewlyExecuted}

(* A transaction is undecided in the pool or in a block that is not        *)
(* settled.                                                                *)
LEMMA UndecidedIsPending ==
  \A t : Undecided(t) <=> t \in pool \/ Pending(t)
BY DEF Undecided, Pending, Unsettled

(* The transactions in the blocks that a push settles are those that were  *)
(* pending and are no more, if no transaction is in two blocks.            *)
LEMMA SettleFacts ==
  ASSUME NEW root, Root = {root}, StoreInv,
         NEW b, Lemmas!Fresh(b), Lemmas!PushAndFix(b), NEW txs,
         content \in [Hash -> SUBSET Tx],
         content' = [content EXCEPT ![BlockHash(b)] = txs],
         NEW t,
         \A g, h \in Hash : t \in content'[g] /\ t \in content'[h] => g = h
  PROVE  /\ t \in Dropped \cup Ran => (Pending(t) \/ t \in txs) /\ ~Pending(t)'
         /\ t \notin Dropped \cup Ran => (Pending(t)' <=> Pending(t) \/ t \in txs)
<1> DEFINE open == Unsettled \cup {b}
<1>1. /\ blocks' \cup pruned' = blocks \cup pruned \cup {b}
      /\ Unsettled' \subseteq open /\ open \subseteq blocks \cup pruned \cup {b}
      /\ pruned' \ pruned \subseteq open \ Unsettled'
      /\ \A g \in NewlyExecuted : \E c \in open \ Unsettled' : BlockHash(c) = g
      /\ \A c \in open : \/ c \in Unsettled' \/ c \in pruned' \ pruned
                         \/ BlockHash(c) \in NewlyExecuted
      /\ \A c \in open : BlockHash(c) \in Hash
      /\ \A a, c \in open : BlockHash(a) = BlockHash(c) => a = c
      /\ \A c \in Unsettled : BlockHash(c) # BlockHash(b)
  BY PushOutcome DEF Unsettled
<1>2. /\ content'[BlockHash(b)] = txs
      /\ \A c \in Unsettled : content'[BlockHash(c)] = content[BlockHash(c)]
  BY <1>1
<1>3. Pending(t) \/ t \in txs <=> \E c \in open : t \in content'[BlockHash(c)]
  BY <1>2 DEF Pending
<1>4. Pending(t)' <=> \E c \in Unsettled' : t \in content'[BlockHash(c)]
  BY DEF Pending
<1> HIDE DEF open
<1>5. ASSUME t \in Dropped \cup Ran
      PROVE  \E c \in open \ Unsettled' : t \in content'[BlockHash(c)]
  <2>1. CASE t \in Dropped
    BY <1>1, <2>1 DEF Dropped
  <2>2. CASE t \in Ran
    <3>1. PICK g \in NewlyExecuted : t \in content'[g]
      BY <2>2 DEF Ran
    <3> QED BY <1>1, <3>1
  <2> QED BY <1>5, <2>1, <2>2
<1>6. ASSUME NEW c \in open \ Unsettled', t \in content'[BlockHash(c)], Pending(t)'
      PROVE  FALSE
  <2>1. PICK d \in Unsettled' : t \in content'[BlockHash(d)]
    BY <1>4, <1>6
  <2>2. BlockHash(c) = BlockHash(d)
    BY <1>1, <1>6, <2>1
  <2> QED BY <1>1, <1>6, <2>1, <2>2
<1>7. ASSUME NEW c \in open, t \in content'[BlockHash(c)], t \notin Dropped \cup Ran
      PROVE  Pending(t)'
  <2>1. c \notin pruned' \ pruned
    BY <1>7 DEF Dropped
  <2>2. BlockHash(c) \notin NewlyExecuted
    BY <1>7 DEF Ran
  <2> QED BY <1>1, <1>4, <1>7, <2>1, <2>2
<1>8. Pending(t)' => Pending(t) \/ t \in txs
  BY <1>1, <1>3, <1>4
<1> QED BY <1>3, <1>5, <1>6, <1>7, <1>8

-----------------------------------------------------------------------------
(* Requests with transactions of their own *)

(* No two requests submit one transaction, and nobody submits theirs to    *)
(* another node.                                                           *)
SubmittedOnce ==
  /\ \A r, s \in Request : Asks[r] = Asks[s] => r = s
  /\ \A r \in Request : Asks[r] \notin Elsewhere

(* A transaction that is nowhere, before it is sent or once the full pool  *)
(* has let go of it.                                                       *)
Unsent(t) == t \notin pool /\ \A h \in Hash : t \notin content[h]

(* A transaction is in one place at most: the pool or one block.           *)
Placed(t) ==
  /\ \A g, h \in Hash : t \in content[g] /\ t \in content[h] => g = h
  /\ t \in pool => \A h \in Hash : t \notin content[h]

(* A hash that no block has used has no transactions. *)
ContentKnown ==
  \A h \in Hash : content[h] # {} => \E c \in blocks \cup pruned : BlockHash(c) = h

(* Where the handler of r is, against what became of its transaction: the  *)
(* permit says that it is decided, the flag how, and until the answer both *)
(* are written for this request only.                                      *)
RequestInv(r) ==
  /\ pc[r] \in {"idle", "admitted", "registered"} => Unsent(Asks[r]) /\ ~permit[r]
  /\ pc[r] \in {"registered", "waiting", "notified"} => Registered(r)
  /\ permit[r] \/ pc[r] \in {"notified", "answered"} => ~Undecided(Asks[r])
  /\ Unsent(Asks[r]) \/ Undecided(Asks[r]) => Asks[r] \notin applied
  /\ pc[r] # "answered" => (flag[r] <=> Asks[r] \in applied)
  /\ pc[r] = "answered" => (response[r] = "SUCCESSFUL" <=> Asks[r] \in applied)

(* The handler of r does not sleep for nothing. *)
Awake(r) == pc[r] = "waiting" => permit[r] \/ Undecided(Asks[r])

RpcInv ==
  /\ TypeOK /\ StoreInv /\ ContentKnown
  /\ \A r \in Request : Placed(Asks[r]) /\ RequestInv(r)

(* A push, with what `fix` tells the handlers. *)
Pushes(b, txs) ==
  /\ Lemmas!Fresh(b) /\ Lemmas!PushAndFix(b)
  /\ content' = [content EXCEPT ![BlockHash(b)] = txs]
  /\ Notify(Dropped, Ran)
  /\ UNCHANGED <<notifiers, pc, response>>
  /\ \/ txs = pool /\ pool' = {}
     \/ txs \in SUBSET Elsewhere /\ pool' = pool

(* The steps, by what they do to the chain.                                *)
LEMMA NextCases ==
  ASSUME Lemmas!IInv, Next
  PROVE  \/ \E b, txs : Pushes(b, txs)
         \/ UNCHANGED vars
         \/ \E r \in Request : Handler(r)
<1>1. ASSUME NEW h \in Hash, ProposeBlock(h) PROVE \E b, txs : Pushes(b, txs)
  <2>1. PICK b : Lemmas!Fresh(b) /\ Lemmas!PushAndFix(b) /\ BlockHash(b) = h
    BY <1>1, StorePushes DEF ProposeBlock
  <2>2. /\ content' = [content EXCEPT ![BlockHash(b)] = pool]
        /\ Notify(Dropped, Ran)
    BY <1>1, <2>1 DEF ProposeBlock, Settle, Dropped, Ran, NewlyExecuted
  <2>3. Pushes(b, pool)
    BY <1>1, <2>1, <2>2 DEF ProposeBlock, Pushes
  <2> QED BY <2>3
<1>2. ASSUME NEW b \in Tree!Offered, NEW valid \in BOOLEAN, NEW txs \in SUBSET Elsewhere,
             AcceptBlock(b, valid, txs)
      PROVE  Pushes(b, txs)
  <2>1. Lemmas!Fresh(b) /\ Lemmas!PushAndFix(b)
    BY <1>2, StorePushes DEF AcceptBlock
  <2>2. /\ content' = [content EXCEPT ![BlockHash(b)] = txs]
        /\ Notify(Dropped, Ran)
    BY <1>2 DEF AcceptBlock, Settle, Dropped, Ran, NewlyExecuted
  <2> QED BY <1>2, <2>1, <2>2 DEF AcceptBlock, Pushes
<1>3. ASSUME NEW b, NEW valid, RejectBlock(b, valid) PROVE UNCHANGED vars
  BY <1>3 DEF RejectBlock
<1> QED BY <1>1, <1>2, <1>3 DEF Next

(* What is undecided has been sent. *)
LEMMA UndecidedIsSent ==
  ASSUME StoreInv, NEW t, Unsent(t)
  PROVE  ~Undecided(t)
<1>1. \A c \in blocks : BlockHash(c) \in Hash
  <2> SUFFICES ASSUME NEW c \in blocks PROVE BlockHash(c) \in Hash
    OBVIOUS
  <2>1. c \in Lemmas!Path
    BY DEF StoreInv, Lemmas!IInv, Lemmas!TypeOK
  <2>2. /\ Lemmas!BlockHash(c) = c[Len(c)] /\ Len(c) \in Nat /\ Len(c) >= 1
        /\ \A i \in 1 .. Len(c) : c[i] \in Hash
    BY <2>1, Lemmas!PathFacts, StoreAssumption
  <2> QED BY <2>2, SameTerms
<1> QED BY <1>1 DEF Unsent, Undecided

(* A push moves the transaction of a request from the pool into a block,   *)
(* or leaves it where it is; it is decided just when the handler is told.  *)
LEMMA PushMoves ==
  ASSUME NEW root, Root = {root}, SubmittedOnce, TypeOK, StoreInv, ContentKnown,
         NEW b, NEW txs, Pushes(b, txs),
         NEW r \in Request, Placed(Asks[r])
  PROVE  /\ Placed(Asks[r])'
         /\ Unsent(Asks[r])' <=> Unsent(Asks[r])
         /\ Asks[r] \in Dropped \cup Ran =>
              Undecided(Asks[r]) /\ ~Undecided(Asks[r])'
         /\ Asks[r] \notin Dropped \cup Ran =>
              (Undecided(Asks[r])' <=> Undecided(Asks[r]))
<1>1. PICK t : t = Asks[r]
  OBVIOUS
<1>2. PICK k : k = BlockHash(b)
  OBVIOUS
<1>3. /\ content \in [Hash -> SUBSET Tx] /\ k \in Hash
      /\ content' = [content EXCEPT ![k] = txs]
      /\ \A c \in blocks \cup pruned : BlockHash(c) # k
  BY <1>2, PushOutcome DEF TypeOK, Pushes
<1>4. content[k] = {}
  BY <1>3 DEF ContentKnown
<1>5. \/ txs = pool /\ pool' = {}
      \/ t \notin txs /\ pool' = pool
  BY <1>1 DEF Pushes, SubmittedOnce
<1>6. /\ \A h \in Hash : t \in content'[h] <=> t \in content[h] \/ (h = k /\ t \in txs)
  BY <1>3, <1>4
<1>7. /\ \A g, h \in Hash : t \in content[g] /\ t \in content[h] => g = h
      /\ t \in pool => \A h \in Hash : t \notin content[h]
  BY <1>1 DEF Placed
<1>8. /\ \A g, h \in Hash : t \in content'[g] /\ t \in content'[h] => g = h
      /\ t \in pool' => \A h \in Hash : t \notin content'[h]
  BY <1>5, <1>6, <1>7
<1>9. Placed(t)'
  BY <1>8 DEF Placed
<1>10. Unsent(t)' <=> Unsent(t)
  BY <1>3, <1>5, <1>6 DEF Unsent
<1>11. /\ t \in Dropped \cup Ran => (Pending(t) \/ t \in txs) /\ ~Pending(t)'
       /\ t \notin Dropped \cup Ran => (Pending(t)' <=> Pending(t) \/ t \in txs)
  BY <1>2, <1>3, <1>8, SettleFacts DEF Pushes
<1>12. Pending(t) => \E h \in Hash : t \in content[h]
  <2>1. \A c \in blocks : BlockHash(c) \in Hash
    BY PushOutcome DEF Pushes
  <2> QED BY <2>1 DEF Pending, Unsettled
<1>13. /\ Undecided(t) <=> t \in pool \/ Pending(t)
       /\ Undecided(t)' <=> t \in pool' \/ Pending(t)'
  <2>1. Undecided(t)' <=> t \in pool' \/ Pending(t)'
    BY DEF Undecided, Pending, Unsettled
  <2> QED BY <2>1, UndecidedIsPending
<1>14. t \in Dropped \cup Ran => Undecided(t) /\ ~Undecided(t)'
  BY <1>5, <1>7, <1>11, <1>12, <1>13
<1>15. t \notin Dropped \cup Ran => (Undecided(t)' <=> Undecided(t))
  BY <1>5, <1>11, <1>13
<1> QED BY <1>1, <1>9, <1>10, <1>14, <1>15

(* `fix` keeps the handlers in step with their transactions.               *)
LEMMA PushKeepsRequest ==
  ASSUME NEW root, Root = {root}, SubmittedOnce, RpcInv,
         NEW b, NEW txs, Pushes(b, txs), NEW r \in Request
  PROVE  Placed(Asks[r])' /\ RequestInv(r)' /\ (Awake(r) => Awake(r)')
<1>1. PICK t : t = Asks[r]
  OBVIOUS
<1>2. TypeOK /\ StoreInv /\ ContentKnown /\ Placed(t) /\ RequestInv(r)
  BY <1>1 DEF RpcInv
<1>3. /\ Placed(t)'
      /\ Unsent(t)' <=> Unsent(t)
      /\ t \in Dropped \cup Ran => Undecided(t) /\ ~Undecided(t)'
      /\ t \notin Dropped \cup Ran => (Undecided(t)' <=> Undecided(t))
      /\ Unsent(t) => ~Undecided(t)
  BY <1>1, <1>2, PushMoves, UndecidedIsSent
<1>4. pc' = pc /\ response' = response /\ (Registered(r)' <=> Registered(r))
  BY DEF Pushes, Registered
<1>5. PICK ok \in SUBSET (Ran \ applied) :
        /\ applied' = applied \cup ok
        /\ permit' = [s \in Request |->
             permit[s] \/ (Registered(s) /\ Asks[s] \in Dropped \cup Ran)]
        /\ flag' = [s \in Request |->
             IF Registered(s) /\ Asks[s] \in Ran THEN Asks[s] \in ok ELSE flag[s]]
  BY DEF Pushes, Notify
<1>6. permit'[r] <=> permit[r] \/ (Registered(r) /\ t \in Dropped \cup Ran)
  BY <1>1, <1>5, Zenon
<1>7. /\ Registered(r) /\ t \in Ran => (flag'[r] <=> t \in ok)
      /\ ~(Registered(r) /\ t \in Ran) => (flag'[r] <=> flag[r])
  BY <1>1, <1>5
<1>8. t \in applied' <=> t \in applied \/ t \in ok
  BY <1>5
<1>9. CASE t \in Dropped \cup Ran
  <2>1. Undecided(t) /\ ~Undecided(t)' /\ ~Unsent(t) /\ ~Unsent(t)'
    BY <1>3, <1>9
  <2>2. /\ pc[r] = "waiting" /\ Registered(r) /\ t \notin applied
        /\ ~flag[r]
    <3>1. pc[r] \in {"idle", "admitted", "registered", "waiting", "notified", "answered"}
      BY <1>2 DEF TypeOK
    <3>2. /\ pc[r] \in {"idle", "admitted", "registered"} => Unsent(t)
          /\ pc[r] \in {"registered", "waiting", "notified"} => Registered(r)
          /\ pc[r] \in {"notified", "answered"} => ~Undecided(t)
          /\ Unsent(t) \/ Undecided(t) => t \notin applied
          /\ pc[r] # "answered" => (flag[r] <=> t \in applied)
      BY <1>1, <1>2 DEF RequestInv
    <3> QED BY <2>1, <3>1, <3>2
  <2>3. permit'[r] /\ pc'[r] = "waiting" /\ Registered(r)'
    BY <1>4, <1>6, <1>9, <2>2
  <2>4. flag'[r] <=> t \in applied'
    <3>1. CASE t \in Ran
      BY <1>7, <1>8, <2>2, <3>1
    <3>2. CASE t \notin Ran
      <4>1. t \notin ok
        BY <3>2
      <4> QED BY <1>7, <1>8, <2>2, <3>2, <4>1
    <3> QED BY <3>1, <3>2
  <2>5. RequestInv(r)'
    BY <1>1, <2>1, <2>3, <2>4 DEF RequestInv
  <2> QED BY <1>1, <1>3, <2>3, <2>5 DEF Awake
<1>10. CASE t \notin Dropped \cup Ran
  <2>1. /\ permit'[r] <=> permit[r]
        /\ flag'[r] <=> flag[r]
        /\ t \in applied' <=> t \in applied
        /\ Undecided(t)' <=> Undecided(t)
    BY <1>3, <1>6, <1>7, <1>8, <1>10
  <2>2. RequestInv(r)'
    BY <1>1, <1>2, <1>3, <1>4, <2>1 DEF RequestInv
  <2>3. Awake(r) => Awake(r)'
    BY <1>1, <1>4, <2>1 DEF Awake
  <2> QED BY <1>1, <1>3, <2>2, <2>3
<1> QED BY <1>9, <1>10

(* A block that is pushed is known from then on. *)
LEMMA PushKeepsContent ==
  ASSUME NEW root, Root = {root}, TypeOK, StoreInv, ContentKnown,
         NEW b, NEW txs, Pushes(b, txs)
  PROVE  ContentKnown'
<1>1. /\ blocks' \cup pruned' = blocks \cup pruned \cup {b}
      /\ content \in [Hash -> SUBSET Tx] /\ BlockHash(b) \in Hash
      /\ content' = [content EXCEPT ![BlockHash(b)] = txs]
  BY PushOutcome DEF TypeOK, Pushes
<1> QED BY <1>1 DEF ContentKnown

-----------------------------------------------------------------------------
(* The steps of a handler *)

(* A step that leaves the handler of s alone, and adds nothing to where    *)
(* its transaction is: the pool may let go of it.                          *)
LEMMA OtherRequests ==
  ASSUME NEW s \in Request, NEW t, t = Asks[s], RequestInv(s),
         pc'[s] = pc[s], permit'[s] = permit[s], flag'[s] = flag[s],
         response'[s] = response[s], applied' = applied,
         Registered(s)' <=> Registered(s),
         Undecided(t)' => Undecided(t),
         Unsent(t) => Unsent(t)',
         Unsent(t)' => Unsent(t) \/ Undecided(t)
  PROVE  RequestInv(s)'
BY DEF RequestInv

(* Where the transactions are does not change. *)
LEMMA QuietStore ==
  ASSUME UNCHANGED <<tree, content, pool>>
  PROVE  /\ StoreInv => StoreInv'
         /\ ContentKnown => ContentKnown'
         /\ \A t : /\ Undecided(t)' <=> Undecided(t)
                   /\ Unsent(t)' <=> Unsent(t)
                   /\ Placed(t)' <=> Placed(t)
<1>1. StoreInv => StoreInv'
  BY DEF tree, StoreInv, Lemmas!IInv, Lemmas!TypeOK, Lemmas!AncestorsStored,
         Lemmas!HasPreviousBlock, Lemmas!PrunedStayOut, Lemmas!ChainIsBest,
         Lemmas!HashesUnique, Lemmas!FixIsIdempotent, Lemmas!LogIsConfirmed
<1>2. ContentKnown => ContentKnown'
  BY DEF tree, ContentKnown
<1>3. \A t : /\ Undecided(t)' <=> Undecided(t)
             /\ Unsent(t)' <=> Unsent(t)
             /\ Placed(t)' <=> Placed(t)
  BY DEF tree, Undecided, Unsent, Placed
<1> QED BY <1>1, <1>2, <1>3

(* The handler of r goes on, while the blockchain and the pool rest.       *)
LEMMA QuietHandler ==
  ASSUME SubmittedOnce, RpcInv, NEW r \in Request,
         \/ Admit(r) \/ Refuse(r) \/ Register(r) \/ AddFails(r) \/ Wake(r) \/ Answer(r)
  PROVE  /\ StoreInv' /\ ContentKnown'
         /\ \A s \in Request : /\ Placed(Asks[s])' /\ RequestInv(s)'
                               /\ Awake(s) => Awake(s)'
<1>1. UNCHANGED <<tree, content, pool, applied, flag>>
  BY DEF Admit, Refuse, Register, AddFails, Wake, Answer
<1>2. /\ StoreInv' /\ ContentKnown'
      /\ \A t : /\ Undecided(t)' <=> Undecided(t)
                /\ Unsent(t)' <=> Unsent(t)
                /\ Placed(t)' <=> Placed(t)
  BY <1>1, QuietStore DEF RpcInv
<1>3. \A s \in Request : Placed(Asks[s])' /\ RequestInv(s)
  BY <1>2 DEF RpcInv
<1>4. /\ pc \in [Request -> {"idle", "admitted", "registered", "waiting",
                             "notified", "answered"}]
      /\ permit \in [Request -> BOOLEAN]
      /\ response \in [Request -> {"none", "SUCCESSFUL", "FAILED"}]
  BY DEF RpcInv, TypeOK
<1>5. ASSUME NEW s \in Request, s # r
      PROVE  RequestInv(s)' /\ (Awake(s) => Awake(s)')
  <2>1. Asks[s] # Asks[r]
    BY <1>5 DEF SubmittedOnce
  <2>2. Registered(s)' <=> Registered(s)
    BY <2>1 DEF Admit, Refuse, Register, AddFails, Wake, Answer, Registered
  <2>3. /\ pc'[s] = pc[s] /\ permit'[s] = permit[s] /\ response'[s] = response[s]
    BY <1>4, <1>5 DEF Admit, Refuse, Register, AddFails, Wake, Answer, Goto, Respond
  <2>4. RequestInv(s)'
    BY <1>1, <1>2, <1>3, <2>2, <2>3, OtherRequests
  <2>5. Awake(s) => Awake(s)'
    BY <1>2, <2>3 DEF Awake
  <2> QED BY <2>4, <2>5
<1>6. RequestInv(r)' /\ Awake(r)'
  <2>1. RequestInv(r)
    BY <1>3
  <2>2. PICK t : t = Asks[r]
    OBVIOUS
  <2>3. /\ Undecided(t)' <=> Undecided(t)
        /\ Unsent(t)' <=> Unsent(t)
        /\ Unsent(t) => ~Undecided(t)
        /\ flag' = flag /\ applied' = applied
    BY <1>1, <1>2, UndecidedIsSent DEF RpcInv
  <2>4. CASE Admit(r)
    <3>1. pc[r] = "idle" /\ pc'[r] = "admitted" /\ permit' = permit
      BY <1>4, <2>4 DEF Admit, Goto
    <3> QED BY <2>1, <2>2, <2>3, <3>1 DEF RequestInv, Awake
  <2>5. CASE Refuse(r)
    <3>1. /\ pc[r] = "idle" /\ pc'[r] = "answered" /\ permit' = permit
          /\ response'[r] = "FAILED"
      BY <1>4, <2>5 DEF Refuse, Goto, Respond
    <3> QED BY <2>1, <2>2, <2>3, <3>1 DEF RequestInv, Awake
  <2>6. CASE Register(r)
    <3>1. /\ pc[r] = "admitted" /\ pc'[r] = "registered" /\ permit' = permit
          /\ Registered(r)'
      BY <1>4, <2>6 DEF Register, Goto, Registered
    <3> QED BY <2>1, <2>2, <2>3, <3>1 DEF RequestInv, Awake
  <2>7. CASE AddFails(r)
    <3>1. /\ pc[r] = "registered" /\ pc'[r] = "answered" /\ permit' = permit
          /\ response'[r] = "FAILED"
      BY <1>4, <2>7 DEF AddFails, Goto, Respond
    <3> QED BY <2>1, <2>2, <2>3, <3>1 DEF RequestInv, Awake
  <2>8. CASE Wake(r)
    <3>1. /\ pc[r] = "waiting" /\ pc'[r] = "notified" /\ permit[r] /\ ~permit'[r]
          /\ Registered(r)' <=> Registered(r)
      BY <1>4, <2>8 DEF Wake, Goto, Registered
    <3> QED BY <2>1, <2>2, <2>3, <3>1 DEF RequestInv, Awake
  <2>9. CASE Answer(r)
    <3>1. /\ pc[r] = "notified" /\ pc'[r] = "answered" /\ permit' = permit
          /\ response'[r] = IF flag[r] THEN "SUCCESSFUL" ELSE "FAILED"
      BY <1>4, <2>9 DEF Answer, Goto, Respond
    <3>2. response'[r] = "SUCCESSFUL" <=> flag[r]
      BY <3>1
    <3> QED BY <2>1, <2>2, <2>3, <3>1, <3>2 DEF RequestInv, Awake
  <2> QED BY <2>4, <2>5, <2>6, <2>7, <2>8, <2>9
<1> QED BY <1>2, <1>3, <1>5, <1>6

(* add_transaction() puts the transaction of r into the pool; another one  *)
(* may have to leave it.                                                   *)
LEMMA AddKeepsRequests ==
  ASSUME SubmittedOnce, RpcInv, NEW r \in Request, AddTransaction(r)
  PROVE  /\ StoreInv' /\ ContentKnown'
         /\ \A s \in Request : Placed(Asks[s])' /\ RequestInv(s)'
<1>1. PICK t : t = Asks[r]
  OBVIOUS
<1>2. /\ UNCHANGED <<tree, content, applied, notifiers, permit, flag, response>>
      /\ t \in pool' /\ pool' \subseteq pool \cup {t}
      /\ pc[r] = "registered" /\ pc' = [pc EXCEPT ![r] = "waiting"]
  BY <1>1 DEF AddTransaction, Insert, Goto
<1>3. StoreInv' /\ ContentKnown'
  BY <1>2 DEF RpcInv, tree, StoreInv, ContentKnown, Lemmas!IInv, Lemmas!TypeOK,
     Lemmas!AncestorsStored, Lemmas!HasPreviousBlock, Lemmas!PrunedStayOut,
     Lemmas!ChainIsBest, Lemmas!HashesUnique, Lemmas!FixIsIdempotent,
     Lemmas!LogIsConfirmed
<1>4. /\ pc \in [Request -> {"idle", "admitted", "registered", "waiting",
                             "notified", "answered"}]
      /\ \A s \in Request : Placed(Asks[s]) /\ RequestInv(s)
  BY DEF RpcInv, TypeOK
<1>5. \A s \in Request : Registered(s)' <=> Registered(s)
  BY <1>2 DEF Registered
<1>6. ASSUME NEW s \in Request, s # r
      PROVE  Placed(Asks[s])' /\ RequestInv(s)'
  <2>1. PICK u : u = Asks[s]
    OBVIOUS
  <2>2. u \in pool' => u \in pool
    BY <1>1, <1>2, <1>6, <2>1 DEF SubmittedOnce
  <2>3. /\ Undecided(u)' => Undecided(u)
        /\ Unsent(u) => Unsent(u)'
        /\ Unsent(u)' => Unsent(u) \/ Undecided(u)
        /\ Placed(u) => Placed(u)'
    BY <1>2, <2>2 DEF tree, Undecided, Unsent, Placed
  <2>4. /\ pc'[s] = pc[s] /\ permit'[s] = permit[s] /\ flag'[s] = flag[s]
        /\ response'[s] = response[s] /\ applied' = applied
    BY <1>2, <1>4, <1>6
  <2>5. RequestInv(s)'
    BY <1>4, <1>5, <2>1, <2>3, <2>4, OtherRequests
  <2> QED BY <1>4, <2>1, <2>3, <2>5
<1>7. Placed(t)' /\ RequestInv(r)'
  <2>1. Unsent(t) /\ ~permit[r] /\ Registered(r) /\ t \notin applied /\ ~flag[r]
    BY <1>1, <1>2, <1>4 DEF RequestInv
  <2>2. pc'[r] = "waiting" /\ ~permit'[r] /\ Registered(r)' /\ ~flag'[r] /\ t \notin applied'
    BY <1>2, <1>4, <1>5, <2>1
  <2>3. Placed(t)'
    BY <1>2, <2>1 DEF Unsent, Placed
  <2> QED BY <1>1, <2>2, <2>3 DEF RequestInv
<1> QED BY <1>1, <1>3, <1>6, <1>7

(* The pool has room for the transactions of all requests. *)
Submitted == {Asks[r] : r \in Request}
Room ==
  IsFiniteSet(Submitted) /\ Cardinality(Submitted) <= MAX_TRANSACTION_POOL_SIZE

(* Then none of them ever has to leave it. *)
LEMMA NobodyLeaves ==
  ASSUME Room, RpcInv, pool \subseteq Submitted, NEW r \in Request, AddTransaction(r)
  PROVE  pool' = pool \cup {Asks[r]}
<1>1. PICK t : t = Asks[r]
  OBVIOUS
<1>2. t \in Submitted /\ t \notin pool
  <2>1. Unsent(Asks[r])
    BY DEF RpcInv, RequestInv, AddTransaction, Goto
  <2> QED BY <1>1, <2>1 DEF Submitted, Unsent
<1>3. IsFiniteSet(Submitted) /\ Cardinality(Submitted) \in Nat
  BY FS_CardinalityType DEF Room
<1>4. /\ IsFiniteSet(Submitted \ {t})
      /\ Cardinality(Submitted \ {t}) = Cardinality(Submitted) - 1
  BY <1>2, <1>3, FS_RemoveElement
<1>5. pool \in SUBSET (Submitted \ {t})
  BY <1>2
<1>6. IsFiniteSet(pool) /\ Cardinality(pool) <= Cardinality(Submitted \ {t})
  BY <1>4, <1>5, FS_Subset
<1>7. Cardinality(pool) \in Nat
  BY <1>6, FS_CardinalityType
<1>8. MAX_TRANSACTION_POOL_SIZE \in Nat /\ Cardinality(Submitted) <= MAX_TRANSACTION_POOL_SIZE
  BY PoolAssumption DEF Room
<1>9. ~(Cardinality(pool) >= MAX_TRANSACTION_POOL_SIZE)
  BY <1>3, <1>4, <1>6, <1>7, <1>8
<1> QED BY <1>1, <1>9 DEF AddTransaction, Insert

(* So that a handler that sleeps goes on having a reason to. *)
AwakeInv == pool \subseteq Submitted /\ \A r \in Request : Awake(r)

(* With room in the pool, a new handler puts no other to sleep for good.   *)
LEMMA AddKeepsAwake ==
  ASSUME Room, RpcInv, AwakeInv, NEW r \in Request, AddTransaction(r)
  PROVE  AwakeInv'
<1>1. /\ pool' = pool \cup {Asks[r]}
      /\ UNCHANGED <<tree, content, permit>>
      /\ pc' = [pc EXCEPT ![r] = "waiting"]
  BY NobodyLeaves DEF AwakeInv, AddTransaction, Goto
<1>2. \A t : Undecided(t) => Undecided(t)'
  BY <1>1 DEF tree, Undecided
<1>3. Undecided(Asks[r])'
  BY <1>1 DEF Undecided
<1>4. ASSUME NEW s \in Request PROVE Awake(s)'
  <2>1. CASE s = r
    BY <1>3, <2>1 DEF Awake
  <2>2. CASE s # r
    <3>1. pc'[s] = pc[s]
      BY <1>1, <2>2 DEF RpcInv, TypeOK
    <3> QED BY <1>1, <1>2, <3>1 DEF AwakeInv, Awake
  <2> QED BY <2>1, <2>2
<1>5. pool' \subseteq Submitted
  BY <1>1 DEF AwakeInv, Submitted
<1> QED BY <1>4, <1>5 DEF AwakeInv, Submitted

-----------------------------------------------------------------------------
(* Theorems about requests *)

(* The tables keep their types through a push, ... *)
LEMMA PushKeepsTypes ==
  ASSUME TypeOK, Lemmas!IInv, NEW b, NEW txs, Pushes(b, txs)
  PROVE  TypeOK' /\ Lemmas!IInv'
<1>1. Lemmas!IInv'
  BY Lemmas!PushPreservesIInv, StoreAssumption DEF Pushes
<1>2. Tree!TypeOK'
  BY <1>1 DEF Lemmas!IInv, Lemmas!TypeOK, Tree!TypeOK, Lemmas!Path, Tree!Path,
              Lemmas!RootOf, Tree!RootOf
<1>3. NewlyExecuted \subseteq Hash
  <2>1. executed \in Seq(Hash) /\ executed' \in Seq(Hash)
    BY <1>1 DEF Lemmas!IInv, Lemmas!TypeOK
  <2>2. Lemmas!NewlyExecuted \subseteq Hash
    BY <2>1, Lemmas!NewlyExecutedAreHashes, StoreAssumption
  <2> QED BY <2>2, SameTerms DEF Lemmas!NewlyExecuted, NewlyExecuted
<1>4. content' \in [Hash -> SUBSET Tx] /\ pool' \subseteq Tx
  <2>1. txs \subseteq Tx /\ pool' \subseteq Tx
    BY TxAssumption DEF TypeOK, Pushes
  <2> QED BY <2>1 DEF TypeOK, Pushes
<1>5. Ran \subseteq Tx
  BY <1>3, <1>4 DEF Ran
<1>6. PICK ok \in SUBSET (Ran \ applied) :
        /\ applied' = applied \cup ok
        /\ permit' = [s \in Request |->
             permit[s] \/ (Registered(s) /\ Asks[s] \in Dropped \cup Ran)]
        /\ flag' = [s \in Request |->
             IF Registered(s) /\ Asks[s] \in Ran THEN Asks[s] \in ok ELSE flag[s]]
  BY DEF Pushes, Notify
<1>7. applied' \subseteq Tx
  BY <1>5, <1>6 DEF TypeOK
<1>8. permit' \in [Request -> BOOLEAN]
  <2>1. \A s \in Request :
          (permit[s] \/ (Registered(s) /\ Asks[s] \in Dropped \cup Ran)) \in BOOLEAN
    OBVIOUS
  <2> QED BY <1>6, <2>1, Zenon
<1>9. flag' \in [Request -> BOOLEAN]
  <2>1. flag \in [Request -> BOOLEAN]
    BY DEF TypeOK
  <2>2. ASSUME NEW s \in Request
        PROVE  (IF Registered(s) /\ Asks[s] \in Ran THEN Asks[s] \in ok ELSE flag[s])
                 \in BOOLEAN
    <3>1. (Asks[s] \in ok) \in BOOLEAN
      OBVIOUS
    <3> QED BY <2>1, <3>1, Zenon
  <2> QED BY <1>6, <2>2, Zenon
<1> QED BY <1>1, <1>2, <1>4, <1>7, <1>8, <1>9 DEF TypeOK, Pushes

(* ... and through the steps of a handler. *)
LEMMA HandlerKeepsTypes ==
  ASSUME TypeOK, NEW r \in Request, Handler(r)
  PROVE  TypeOK' /\ UNCHANGED tree
<1>1. UNCHANGED tree
  BY DEF Handler, Admit, Refuse, Register, AddTransaction, AddFails, Wake, Answer
<1>2. Tree!TypeOK' /\ Asks[r] \in Tx
  BY <1>1, AsksAssumption DEF tree, TypeOK, Tree!TypeOK
<1>3. /\ content' \in [Hash -> SUBSET Tx] /\ applied' \subseteq Tx
      /\ flag' \in [Request -> BOOLEAN]
  BY DEF TypeOK, Handler, Admit, Refuse, Register, AddTransaction, AddFails, Wake,
         Answer
<1>4. /\ pc' \in [Request -> {"idle", "admitted", "registered", "waiting",
                              "notified", "answered"}]
      /\ response' \in [Request -> {"none", "SUCCESSFUL", "FAILED"}]
  BY DEF TypeOK, Handler, Admit, Refuse, Register, AddTransaction, AddFails, Wake,
         Answer, Goto, Respond
<1>5. permit' \in [Request -> BOOLEAN]
  BY DEF TypeOK, Handler, Admit, Refuse, Register, AddTransaction, AddFails, Wake,
         Answer
<1>6. pool' \subseteq Tx
  BY <1>2 DEF TypeOK, Handler, Admit, Refuse, Register, AddTransaction, Insert,
              AddFails, Wake, Answer
<1>7. DOMAIN notifiers' \subseteq Tx /\ \A t \in DOMAIN notifiers' : notifiers'[t] \in Request
  <2>1. CASE Register(r)
    <3>1. notifiers' = [t \in DOMAIN notifiers \cup {Asks[r]} |->
                          IF t = Asks[r] THEN r ELSE notifiers[t]]
      BY <2>1 DEF Register
    <3> QED BY <1>2, <3>1 DEF TypeOK
  <2>2. CASE Answer(r)
    <3>1. notifiers' = [t \in DOMAIN notifiers \ {Asks[r]} |-> notifiers[t]]
      BY <2>2 DEF Answer
    <3> QED BY <3>1 DEF TypeOK
  <2>3. CASE UNCHANGED notifiers
    BY <2>3 DEF TypeOK
  <2> QED BY <2>1, <2>2, <2>3 DEF Handler, Admit, Refuse, AddTransaction, AddFails, Wake
<1> QED BY <1>1, <1>2, <1>3, <1>4, <1>5, <1>6, <1>7 DEF TypeOK

(* The block store is in order as long as it is left alone.                *)
LEMMA StoreRests ==
  ASSUME UNCHANGED tree
  PROVE  Lemmas!IInv => Lemmas!IInv'
BY DEF tree, Lemmas!IInv, Lemmas!TypeOK, Lemmas!AncestorsStored,
   Lemmas!HasPreviousBlock, Lemmas!PrunedStayOut, Lemmas!ChainIsBest,
   Lemmas!HashesUnique, Lemmas!FixIsIdempotent

(* The types hold at the start.                                            *)
LEMMA InitTypes == Init => TypeOK /\ Lemmas!IInv
<1> SUFFICES ASSUME Init PROVE TypeOK /\ Lemmas!IInv
  OBVIOUS
<1>1. Lemmas!IInv
  BY SameActions, Lemmas!InitIInv, StoreAssumption DEF Init
<1>2. Tree!TypeOK
  BY <1>1 DEF Lemmas!IInv, Lemmas!TypeOK, Tree!TypeOK, Lemmas!Path, Tree!Path,
              Lemmas!RootOf, Tree!RootOf
<1> QED BY <1>1, <1>2 DEF Init, TypeOK

(* Every step keeps them.                                                  *)
LEMMA NextTypes == TypeOK /\ Lemmas!IInv /\ [Next]_vars => TypeOK' /\ Lemmas!IInv'
<1> SUFFICES ASSUME TypeOK, Lemmas!IInv, [Next]_vars PROVE TypeOK' /\ Lemmas!IInv'
  OBVIOUS
<1>1. ASSUME NEW b, NEW txs, Pushes(b, txs) PROVE TypeOK' /\ Lemmas!IInv'
  BY <1>1, PushKeepsTypes
<1>2. ASSUME NEW r \in Request, Handler(r) PROVE TypeOK' /\ Lemmas!IInv'
  BY <1>2, HandlerKeepsTypes, StoreRests
<1>3. CASE UNCHANGED vars
  <2>1. Lemmas!IInv'
    BY <1>3, StoreRests DEF vars
  <2> QED BY <1>3, <2>1 DEF vars, tree, TypeOK, Tree!TypeOK
<1> QED BY <1>1, <1>2, <1>3, NextCases

(* The tables of the service and the chain under it keep their types. *)
THEOREM TypeCorrectness == Spec => []TypeOK
BY InitTypes, NextTypes, PTL DEF Spec

(* Nothing was asked, executed or answered at the start.                   *)
LEMMA InitRpcInv == SubmittedOnce /\ Init => RpcInv /\ AwakeInv
<1> SUFFICES ASSUME SubmittedOnce, Init PROVE RpcInv /\ AwakeInv
  OBVIOUS
<1>1. TypeOK /\ StoreInv
  <2>1. Lemmas!LogIsConfirmed
    BY SameActions, Lemmas!InitLogIsConfirmed, StoreAssumption DEF Init
  <2> QED BY <2>1, InitTypes DEF StoreInv
<1>2. ContentKnown
  BY DEF Init, ContentKnown
<1>3. \A t : Unsent(t) /\ ~Undecided(t) /\ Placed(t)
  BY DEF Init, Tree!Init, Unsent, Undecided, Placed
<1>4. \A r \in Request : RequestInv(r) /\ Awake(r)
  BY <1>3 DEF Init, RequestInv, Awake
<1> QED BY <1>1, <1>2, <1>3, <1>4 DEF Init, RpcInv, AwakeInv

(* A step keeps where the handlers are in line with where their            *)
(* transactions are.                                                       *)
LEMMA NextRpcInv ==
  ASSUME NEW CONSTANT root, Root = {root}, SubmittedOnce
  PROVE  /\ RpcInv /\ [Next]_vars => RpcInv'
         /\ Room /\ RpcInv /\ AwakeInv /\ [Next]_vars => AwakeInv'
<1> SUFFICES ASSUME RpcInv, [Next]_vars
             PROVE  RpcInv' /\ (Room /\ AwakeInv => AwakeInv')
  OBVIOUS
<1>1. TypeOK' /\ Lemmas!IInv
  BY NextTypes DEF RpcInv, StoreInv
<1>2. ASSUME NEW b, NEW txs, Pushes(b, txs)
      PROVE  RpcInv' /\ (Room /\ AwakeInv => AwakeInv')
  <2>1. StoreInv' /\ ContentKnown'
    BY <1>2, PushOutcome, PushKeepsContent DEF RpcInv, Pushes
  <2>2. \A r \in Request :
          Placed(Asks[r])' /\ RequestInv(r)' /\ (Awake(r) => Awake(r)')
    BY <1>2, PushKeepsRequest
  <2>3. pool' \subseteq pool
    BY <1>2 DEF Pushes
  <2> QED BY <1>1, <2>1, <2>2, <2>3 DEF RpcInv, AwakeInv, Submitted
<1>3. ASSUME NEW r \in Request, AddTransaction(r)
      PROVE  RpcInv' /\ (Room /\ AwakeInv => AwakeInv')
  <2>1. RpcInv'
    BY <1>1, <1>3, AddKeepsRequests DEF RpcInv
  <2> QED BY <1>3, <2>1, AddKeepsAwake
<1>4. ASSUME NEW r \in Request,
             \/ Admit(r) \/ Refuse(r) \/ Register(r) \/ AddFails(r) \/ Wake(r) \/ Answer(r)
      PROVE  RpcInv' /\ (Room /\ AwakeInv => AwakeInv')
  <2>1. RpcInv'
    BY <1>1, <1>4, QuietHandler DEF RpcInv
  <2>2. \A s \in Request : Awake(s) => Awake(s)'
    BY <1>4, QuietHandler
  <2>3. pool' = pool
    BY <1>4 DEF Admit, Refuse, Register, AddFails, Wake, Answer
  <2> QED BY <2>1, <2>2, <2>3 DEF AwakeInv, Submitted
<1>5. CASE UNCHANGED vars
  <2>1. StoreInv' /\ ContentKnown'
    BY <1>5, QuietStore DEF vars, RpcInv
  <2>2. \A r \in Request :
          Placed(Asks[r])' /\ RequestInv(r)' /\ (Awake(r) => Awake(r)')
    BY <1>5 DEF vars, tree, RpcInv, Placed, RequestInv, Awake, Unsent, Undecided, Registered
  <2>3. pool' = pool
    BY <1>5 DEF vars
  <2> QED BY <1>1, <2>1, <2>2, <2>3 DEF RpcInv, AwakeInv, Submitted
<1> QED BY <1>1, <1>2, <1>3, <1>4, <1>5, NextCases DEF Handler

(* An answer tells the truth and goes on being true, for any number of     *)
(* requests and reorganisations, where all blocks start at one root and    *)
(* every transaction is submitted once: SUCCESSFUL only if it was executed *)
(* and FAILED only if it was not and never will be.  This holds even when  *)
(* the pool is full and drops transactions.                                *)
THEOREM AnswersStayTrue ==
  ASSUME NEW CONSTANT root, Root = {root}, SubmittedOnce
  PROVE  Spec => []AnswersAreFinal
<1>1. RpcInv => AnswersAreFinal
  BY DEF RpcInv, RequestInv, AnswersAreFinal
<1> QED BY <1>1, InitRpcInv, NextRpcInv, PTL DEF Spec

(* No wakeup is lost, if besides the pool has room for the transactions of *)
(* all the requests: a handler that sleeps was told, or its transaction is *)
(* still to be decided and whoever decides it will tell this handler.      *)
THEOREM SleepersAreWoken ==
  ASSUME NEW CONSTANT root, Root = {root}, SubmittedOnce, Room
  PROVE  Spec => []NoLostWakeup
<1>1. RpcInv /\ AwakeInv => NoLostWakeup
  BY DEF RpcInv, RequestInv, AwakeInv, Awake, NoLostWakeup
<1> QED BY <1>1, InitRpcInv, NextRpcInv, PTL DEF Spec
=============================================================================
