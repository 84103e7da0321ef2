------------------------------ MODULE BotClient ------------------------------
(***************************************************************************)
(* The bots (bot/): programs that send one transaction after another to a  *)
(* node and keep count of the nonce themselves.  The node side is what the *)
(* other modules establish: a nonce is executed once, in order (WorldState:*)
(* NonceDiscipline), one transaction per nonce is pending (Mempool:        *)
(* PendingNoncesDistinct), SUCCESSFUL means executed (TransactionRpc).     *)
(*                                                                         *)
(* Abstracted: what a transaction is about, except whether its signature   *)
(* is that of its sender; of the bots, those whose counting differs.       *)
(* Eclipse and Sybil bots put their own nonce back after every step.       *)
(***************************************************************************)
EXTENDS Integers, Sequences, FiniteSets

CONSTANTS
  Bot,        \* the bots that run, out of BotKinds
  MaxSteps,   \* bound: steps of a bot, as its argument `iterations` does
  MaxLosses,  \* bound: answers lost
  MaxLimited, \* bound: requests refused by the rate limit
  MaxDiscarded \* bound: transactions lost with their block

BotKinds == {"honest", "past-auction", "double-spend", "replay", "byzantine",
             "nonce-skip"}

ASSUME BotAssumption ==
  /\ Bot \subseteq BotKinds
  /\ {MaxSteps, MaxLosses, MaxLimited, MaxDiscarded} \subseteq Nat

VARIABLES
  bot,
  nonce,     \* ctx.nonce
  cached,    \* the nonce the replay bot has signed with, as a set
  submitted_once,
  steps,     \* steps begun
  todo,      \* the calls of this step that are left
  verdict,   \* what expected_accept() or expected_reject() last said
  request,   \* the call the bot waits for, as a set
  account_nonce, \* the node: the next nonce of the account; -1, no account
  pool_nonces,   \* the node: the nonces of transactions not executed yet
  losses,        \* answers lost
  limited,       \* requests refused by the rate limit
  discarded      \* transactions lost with their block

client == <<bot, nonce, cached, submitted_once, steps, todo, verdict>>
faults == <<losses, limited, discarded>>
bot_vars == <<client, request, account_nonce, pool_nonces, faults>>

(* A call: the nonce and whether the signature is right; what the bot      *)
(* expects; how it counts: send() counts on SUCCESSFUL and goes on, the    *)
(* others are counted by the step when the expectation was met.            *)
Call(n, signed, expect, counts) ==
  [nonce |-> n, signed |-> signed, expect |-> expect, counts |-> counts]

CreateAccount == Call("ctx", TRUE, "anything", "send")

BotInit ==
  /\ bot \in Bot
  /\ nonce = 0 /\ cached = {} /\ submitted_once = FALSE
  /\ steps = 0 /\ todo = <<CreateAccount>> /\ verdict = "none"
  /\ request = {}
  /\ account_nonce = -1 /\ pool_nonces = {}
  /\ losses = 0 /\ limited = 0 /\ discarded = 0

-----------------------------------------------------------------------------
(* What a step() calls. *)

Script ==
  CASE bot = "honest" ->
         {<<Call("ctx", TRUE, "accept", "send"), Call("ctx", TRUE, "accept", "send")>>}
    [] bot = "past-auction" ->
         {<<Call("ctx", TRUE, "reject", "send"), Call("ctx", TRUE, "reject", "send")>>}
    [] bot = "double-spend" ->
         {<<Call("ctx", TRUE, "accept", "no"), Call("ctx", TRUE, "reject", "step")>>}
    [] bot = "replay" ->
         {<<Call("cached", TRUE, IF submitted_once THEN "reject" ELSE "accept",
                 IF submitted_once THEN "no" ELSE "step")>>}
    [] bot = "byzantine" ->
         {<<Call("ctx", FALSE, "reject", "no")>>, <<Call("ctx", TRUE, "accept", "step")>>}
    [] bot = "nonce-skip" ->
         {<<Call("skip", TRUE, "reject", "no")>>}

(* The next turn of run_bot().  The replay bot has signed after its        *)
(* account was created.                                                    *)
BeginStep ==
  /\ todo = <<>> /\ request = {}
  /\ steps < MaxSteps
  /\ steps' = steps + 1
  /\ todo' \in Script
  /\ cached' = IF cached = {} THEN {nonce} ELSE cached
  /\ UNCHANGED <<bot, nonce, submitted_once, verdict, request, account_nonce,
                 pool_nonces, faults>>

(* The nonce that a call is signed with.  The nonce-skip bot takes another *)
(* one for each step.                                                      *)
SignedNonce(c) ==
  CASE c.nonce = "ctx" -> nonce
    [] c.nonce = "cached" -> CHOOSE n \in cached : TRUE
    [] c.nonce = "skip" -> 90 + 10 * steps

Send ==
  /\ todo # <<>> /\ request = {}
  /\ request' = {[call |-> Head(todo), nonce |-> SignedNonce(Head(todo)),
                  at |-> "sent"]}
  /\ todo' = Tail(todo)
  /\ UNCHANGED <<bot, nonce, cached, submitted_once, steps, verdict, account_nonce,
                 pool_nonces, faults>>

Met(c, answer) ==
  CASE c.expect = "anything" -> answer # "error"
    [] c.expect = "accept" -> answer = "successful"
    [] c.expect = "reject" -> answer # "successful"

(* Mutants: send() does not look at the status; it never counts.           *)
Counted_AnyStatus(c, answer) ==
  \/ c.counts = "send" /\ answer # "error"
  \/ c.counts = "step" /\ Met(c, answer)
Counted_NeverBySend(c, answer) == c.counts = "step" /\ Met(c, answer)

(* Whether the bot adds one to its nonce. *)
Counted(c, answer) ==
  \/ c.counts = "send" /\ answer = "successful"
  \/ c.counts = "step" /\ Met(c, answer)

(* The bot gets an answer.  A step ends at the first expectation that is   *)
(* not met; a bot whose account is not created ends.                       *)
Answered(c, answer) ==
  LET met == Met(c, answer)
  IN  /\ request' = {}
      /\ nonce' = IF Counted(c, answer) THEN nonce + 1 ELSE nonce
      /\ submitted_once' = (submitted_once \/ (bot = "replay" /\ c.counts = "step" /\ met))
      /\ verdict' = IF met THEN c.expect ELSE "not met"
      /\ todo' = IF met THEN todo ELSE <<>>
      /\ steps' = IF c.expect = "anything" /\ ~met THEN MaxSteps ELSE steps
      /\ UNCHANGED <<bot, cached>>

-----------------------------------------------------------------------------
(* The node *)

(* The pool takes what creates the account while there is none, and then   *)
(* what the account may use.                                               *)
Admissible(r) ==
  IF account_nonce = -1 THEN r.call = CreateAccount
  ELSE r.nonce >= account_nonce /\ r.nonce \notin pool_nonces

Admit(r) ==
  /\ r \in request /\ r.at = "sent"
  /\ r.call.signed /\ Admissible(r)
  /\ pool_nonces' = pool_nonces \cup {r.nonce}
  /\ request' = {[r EXCEPT !.at = "pending"]}
  /\ UNCHANGED <<client, account_nonce, faults>>

Refuse(r) ==
  /\ r \in request /\ r.at = "sent"
  /\ ~(r.call.signed /\ Admissible(r))
  /\ Answered(r.call, "failed")
  /\ UNCHANGED <<account_nonce, pool_nonces, faults>>

(* The rate limit, which is asked before the signature. *)
LimitRate(r) ==
  /\ r \in request /\ r.at = "sent"
  /\ limited < MaxLimited /\ limited' = limited + 1
  /\ Answered(r.call, "failed")
  /\ UNCHANGED <<account_nonce, pool_nonces, losses, discarded>>

(* A pending transaction is executed, and answered if the bot still waits. *)
Execute(n) ==
  /\ n \in pool_nonces
  /\ pool_nonces' = pool_nonces \ {n}
  /\ LET ok == n = account_nonce \/ (account_nonce = -1 /\ n = 0)
     IN  /\ account_nonce' = IF ok THEN n + 1 ELSE account_nonce
         /\ IF \E r \in request : r.at = "pending" /\ r.nonce = n
            THEN \E r \in request : Answered(r.call, IF ok THEN "successful" ELSE "failed")
            ELSE UNCHANGED <<client, request>>
  /\ UNCHANGED faults

(* Its block is pruned; the waiting handler answers FAILED. *)
Discard(n) ==
  /\ n \in pool_nonces
  /\ discarded < MaxDiscarded /\ discarded' = discarded + 1
  /\ pool_nonces' = pool_nonces \ {n}
  /\ IF \E r \in request : r.at = "pending" /\ r.nonce = n
     THEN \E r \in request : Answered(r.call, "failed")
     ELSE UNCHANGED <<client, request>>
  /\ UNCHANGED <<account_nonce, losses, limited>>

(* The connection fails: the bot gets an error, the transaction stays.     *)
LoseAnswer(r) ==
  /\ r \in request
  /\ losses < MaxLosses /\ losses' = losses + 1
  /\ Answered(r.call, "error")
  /\ UNCHANGED <<account_nonce, pool_nonces, limited, discarded>>

BotNext ==
  \/ BeginStep
  \/ Send
  \/ \E r \in request : Admit(r)
  \/ \E r \in request : Refuse(r)
  \/ \E r \in request : LimitRate(r)
  \/ \E r \in request : LoseAnswer(r)
  \/ \E n \in pool_nonces : Execute(n)
  \/ \E n \in pool_nonces : Discard(n)

BotSpec == BotInit /\ [][BotNext]_bot_vars
-----------------------------------------------------------------------------

(* The nonce the node expects. *)
Expected == IF account_nonce = -1 THEN 0 ELSE account_nonce

(* A bot never runs ahead of its account, whatever answers it gets and     *)
(* whether it counts by them or by its expectations: a transaction with a  *)
(* nonce to come would use up its place in the pool and fail.              *)
NeverAhead ==
  /\ nonce <= Expected
  /\ \A r \in request : r.call.nonce = "ctx" => r.nonce <= Expected

(* A bot that lost no answer is in step with its account whenever it waits *)
(* for nothing, also after refusals, rate limits and lost blocks, unless   *)
(* it is in the middle of a step that counts once at its end.              *)
InStep ==
  (losses = 0 /\ request = {} /\ todo = <<>>) => nonce = Expected

(* One lost answer is enough for good: nothing brings a bot that is behind *)
(* back in step, since it never asks the node for its nonce.               *)
Behind == request = {} /\ todo = <<>> /\ nonce < Expected
BehindForGood == [](Behind => [](nonce < Expected))

(* expected_accept(create_result, .., "create auction") (bot/honest.rs:37):*)
(* where neither rate limit nor lost block is in its way, what the honest  *)
(* bot sends is accepted once it reaches the node.                         *)
HonestIsAccepted ==
  [][\A r \in request : bot = "honest" => ~Refuse(r)]_bot_vars
=============================================================================
