------------------------------ MODULE Network -------------------------------
(***************************************************************************)
(* Nodes that mine, gossip blocks and ask each other for what they miss    *)
(* (runtime.rs, the gossip and request-response events of behaviour.rs,    *)
(* the channel and the timer of vm.rs).  The block store of each node is a *)
(* BlockTree.                                                              *)
(*                                                                         *)
(* A node has two tasks here: the miner, and the select loop, which        *)
(* handles one event at a time but lets go of the lock between the blocks  *)
(* of a response and between the two reads of a request for blocks.        *)
(* Messages are a set: they overtake each other, and gossip reaches any    *)
(* part of the peers.  Abstracted: transactions, validity (every block is  *)
(* valid), time (30 seconds without a block pass at any moment) and        *)
(* received_blocks, where orphans are put and which nothing reads.         *)
(***************************************************************************)
EXTENDS Branches

CONSTANTS
  Hash, Root, EXECUTE_AFTER_N_BLOCKS,  \* as in BlockTree
  Node,
  Mined,        \* node |-> the hashes of the blocks it mines
  Mesh,         \* node |-> the peers its gossip can reach
  FirstPeer,    \* the peer a node's timer asks: peers.first()
  Observed,     \* the node whose store is compared with BlockTree: any
  MaxLosses,    \* bound: requests and responses lost
  MaxFailures   \* bound: publications that fail

ASSUME StoreAssumption ==
  Hash \subseteq Nat /\ Root \subseteq Hash /\ EXECUTE_AFTER_N_BLOCKS \in Nat \ {0}

ASSUME PeersAssumption ==
  /\ FirstPeer \in [Node -> Node] /\ Mesh \in [Node -> SUBSET Node]
  /\ \A n \in Node : FirstPeer[n] # n
  /\ Observed \in Node
ASSUME MinedAssumption == Mined \in [Node -> SUBSET Hash]
ASSUME LossesAssumption == MaxLosses \in Nat /\ MaxFailures \in Nat

VARIABLES
  blocks, longest_chain, commited_pointer, pruned, executed,  \* per node
  outbox,    \* node |-> mined blocks in the channel to the select loop
  net,       \* messages on their way
  batch,     \* node |-> the blocks of a response still to be accepted
  serving,   \* node |-> the request for blocks it has read the chain for
  losses, failures

tree == <<blocks, longest_chain, commited_pointer, pruned, executed>>
vars == <<tree, outbox, net, batch, serving, losses, failures>>

N == EXECUTE_AFTER_N_BLOCKS

Path == {b \in Seq(Hash) : b # <<>> /\ RootOf(b) \in Root}

(* Messages.  A chain is sent as its hashes, which is what a path is.  The *)
(* blocks of a response lie on one chain and are sent in its order, which  *)
(* is that of their heights.                                               *)
GossipMsg(n, p, b)   == [type |-> "block", from |-> n, to |-> p, block |-> b]
HashesRequest(n, p)  == [type |-> "hashes?", from |-> n, to |-> p]
HashesReply(n, p, c) == [type |-> "hashes", from |-> n, to |-> p, chain |-> c]
BlocksRequest(n, p, hs) == [type |-> "blocks?", from |-> n, to |-> p, hashes |-> hs]
BlocksReply(n, p, bs)   == [type |-> "blocks", from |-> n, to |-> p, blocks |-> bs]

Init ==
  /\ blocks = [n \in Node |-> {}]
  /\ longest_chain = [n \in Node |-> <<>>]
  /\ commited_pointer = [n \in Node |-> 0]
  /\ pruned = [n \in Node |-> {}]
  /\ executed = [n \in Node |-> <<>>]
  /\ outbox = [n \in Node |-> <<>>]
  /\ net = {}
  /\ batch = [n \in Node |-> {}]
  /\ serving = [n \in Node |-> {}]
  /\ losses = 0 /\ failures = 0

-----------------------------------------------------------------------------

(* Mutants: what was pruned is not remembered; it stays stored.            *)
PushAndFix_Forgets(n, b) ==
  LET stored == blocks[n] \cup {b}
      chain  == LongestBranch(stored)
      losers == Losers(stored, chain, N)
      stop   == SatSub(Len(chain), N)
  IN  /\ longest_chain' = [longest_chain EXCEPT ![n] = chain]
      /\ blocks' = [blocks EXCEPT ![n] = stored \ losers]
      /\ UNCHANGED pruned
      /\ executed' = [executed EXCEPT ![n] =
           @ \o SubSeq(chain, commited_pointer[n] + 1, stop)]
      /\ commited_pointer' = [commited_pointer EXCEPT ![n] =
           @ + SatSub(stop, @)]
PushAndFix_KeepsLosers(n, b) ==
  LET stored == blocks[n] \cup {b}
      chain  == LongestBranch(stored)
      losers == Losers(stored, chain, N)
      stop   == SatSub(Len(chain), N)
  IN  /\ longest_chain' = [longest_chain EXCEPT ![n] = chain]
      /\ blocks' = [blocks EXCEPT ![n] = stored]
      /\ pruned' = [pruned EXCEPT ![n] = @ \cup losers]
      /\ executed' = [executed EXCEPT ![n] =
           @ \o SubSeq(chain, commited_pointer[n] + 1, stop)]
      /\ commited_pointer' = [commited_pointer EXCEPT ![n] =
           @ + SatSub(stop, @)]

(* Mutant: executed one block too early. *)
PushAndFix_TooEarly(n, b) ==
  LET stored == blocks[n] \cup {b}
      chain  == LongestBranch(stored)
      losers == Losers(stored, chain, N)
      stop   == SatSub(Len(chain), N - 1)
  IN  /\ longest_chain' = [longest_chain EXCEPT ![n] = chain]
      /\ blocks' = [blocks EXCEPT ![n] = stored \ losers]
      /\ pruned' = [pruned EXCEPT ![n] = @ \cup losers]
      /\ executed' = [executed EXCEPT ![n] =
           @ \o SubSeq(chain, commited_pointer[n] + 1, stop)]
      /\ commited_pointer' = [commited_pointer EXCEPT ![n] =
           @ + SatSub(stop, @)]

(* BlockTree!PushAndFix at node n. *)
PushAndFix(n, b) ==
  LET stored == blocks[n] \cup {b}
      chain  == LongestBranch(stored)
      losers == Losers(stored, chain, N)
      stop   == SatSub(Len(chain), N)
  IN  /\ longest_chain' = [longest_chain EXCEPT ![n] = chain]
      /\ blocks' = [blocks EXCEPT ![n] = stored \ losers]
      /\ pruned' = [pruned EXCEPT ![n] = @ \cup losers]
      /\ executed' = [executed EXCEPT ![n] =
           @ \o SubSeq(chain, commited_pointer[n] + 1, stop)]
      /\ commited_pointer' = [commited_pointer EXCEPT ![n] =
           @ + SatSub(stop, @)]

(* The checks of accept_block(), as in BlockTree. *)
HasPreviousBlock(n, b) == Front(b) = <<>> \/ Front(b) \in blocks[n]
ChainVerifies(n) ==
  \A i \in 1 .. Len(longest_chain[n]) : SubSeq(longest_chain[n], 1, i) \in blocks[n]
AcceptBlockResult(n, b) ==
  IF b \in blocks[n]              THEN "Duplicate"
  ELSE IF b \in pruned[n]         THEN "Pruned"
  ELSE IF Front(b) \in pruned[n]  THEN "PrunedParent"
  ELSE IF ~HasPreviousBlock(n, b) THEN "Orphan"
  ELSE IF ~ChainVerifies(n)       THEN "Corrupted"
  ELSE "Ok"

(* The blocks that some node knows.  Their hashes do not collide. *)
Known == UNION {blocks[n] \cup pruned[n] : n \in Node}
UsedHashes == {BlockHash(b) : b \in Known}

(* propose_block(), and the block into the channel. *)
Mine(n, h) ==
  LET b == Append(longest_chain[n], h)
  IN  /\ h \in Mined[n] \ UsedHashes
      /\ RootOf(b) \in Root
      /\ PushAndFix(n, b)
      /\ outbox' = [outbox EXCEPT ![n] = Append(@, b)]
      /\ UNCHANGED <<net, batch, serving, losses, failures>>

(* The select loop of n is free to take the next event. *)
Idle(n) == batch[n] = {} /\ serving[n] = {}

Published(n, b, peers) == {GossipMsg(n, p, b) : p \in peers}

(* A block of the channel is published: it reaches some of the peers. *)
Publish(n, peers) ==
  /\ Idle(n)
  /\ outbox[n] # <<>>
  /\ net' = net \cup Published(n, Head(outbox[n]), peers)
  /\ outbox' = [outbox EXCEPT ![n] = Tail(@)]
  /\ UNCHANGED <<tree, batch, serving, losses, failures>>

(* It is not published, and goes to the end of the channel. *)
PublishFails(n) ==
  /\ Idle(n)
  /\ outbox[n] # <<>>
  /\ failures < MaxFailures
  /\ outbox' = [outbox EXCEPT ![n] = Append(Tail(@), Head(@))]
  /\ failures' = failures + 1
  /\ UNCHANGED <<tree, net, batch, serving, losses>>

(* m is an event of the select loop of its addressee. *)
Receives(n, m, type) == Idle(n) /\ m.to = n /\ m.type = type

(* accept_block_from_gossip(): an accepted block is published again, and   *)
(* for an orphan the peer it came from is asked for its chain.  That peer  *)
(* has the block, so it does not matter whether it gets it back.           *)
GossipArrives(n, m, peers) ==
  LET result == AcceptBlockResult(n, m.block)
  IN  /\ Receives(n, m, "block")
      /\ IF result = "Ok"
         THEN /\ PushAndFix(n, m.block)
              /\ net' = (net \ {m}) \cup Published(n, m.block, peers)
         ELSE /\ net' = (net \ {m}) \cup
                   IF result = "Orphan" THEN {HashesRequest(n, m.from)} ELSE {}
              /\ UNCHANGED tree
      /\ UNCHANGED <<outbox, batch, serving, losses, failures>>

(* A request of n is on its way, or the answer is. *)
Waiting(n) ==
  \/ \E m \in net : \/ m.type \in {"hashes?", "blocks?"} /\ m.from = n
                    \/ m.type \in {"hashes", "blocks"} /\ m.to = n
  \/ \E p \in Node : \E s \in serving[p] : s.to = n

(* The timer, after 30 seconds without an accepted block; by then a request*)
(* made before was answered or has failed (libp2p waits for 10 seconds).   *)
Sync(n) ==
  /\ Idle(n)
  /\ ~Waiting(n)
  /\ net' = net \cup {HashesRequest(n, FirstPeer[n])}
  /\ UNCHANGED <<tree, outbox, batch, serving, losses, failures>>

ServeHashes(n, m) ==
  /\ Receives(n, m, "hashes?")
  /\ net' = (net \ {m}) \cup {HashesReply(n, m.from, longest_chain[n])}
  /\ UNCHANGED <<tree, outbox, batch, serving, losses, failures>>

(* Mutant: only the last block is asked for. *)
HashesArrive_TipOnly(n, m) ==
  LET missing == {i \in {Len(m.chain)} \ {0} : SubSeq(m.chain, 1, i) \notin blocks[n]}
  IN  /\ Receives(n, m, "hashes")
      /\ net' = (net \ {m}) \cup
           IF missing = {} THEN {}
           ELSE {BlocksRequest(n, m.from, {m.chain[i] : i \in missing})}
      /\ UNCHANGED <<tree, outbox, batch, serving, losses, failures>>

(* What is not stored is asked for, pruned or not. *)
HashesArrive(n, m) ==
  LET missing == {i \in 1 .. Len(m.chain) : SubSeq(m.chain, 1, i) \notin blocks[n]}
  IN  /\ Receives(n, m, "hashes")
      /\ net' = (net \ {m}) \cup
           IF missing = {} THEN {}
           ELSE {BlocksRequest(n, m.from, {m.chain[i] : i \in missing})}
      /\ UNCHANGED <<tree, outbox, batch, serving, losses, failures>>

(* A request for blocks is served in two reads: the chain, ... *)
ServeBlocks(n, m) ==
  /\ Receives(n, m, "blocks?")
  /\ serving' = [serving EXCEPT ![n] =
       {[to |-> m.from, hashes |-> m.hashes, chain |-> longest_chain[n]]}]
  /\ net' = net \ {m}
  /\ UNCHANGED <<tree, outbox, batch, losses, failures>>

(* ... then the blocks: those of the chain that were asked for and are     *)
(* still stored.                                                           *)
SendBlocks(n) ==
  \E s \in serving[n] :
    LET wanted == {i \in 1 .. Len(s.chain) : s.chain[i] \in s.hashes}
        found  == {SubSeq(s.chain, 1, i) : i \in wanted} \cap blocks[n]
    IN  /\ net' = net \cup {BlocksReply(n, s.to, found)}
        /\ serving' = [serving EXCEPT ![n] = {}]
        /\ UNCHANGED <<tree, outbox, batch, losses, failures>>

BlocksArrive(n, m) ==
  /\ Receives(n, m, "blocks")
  /\ batch' = [batch EXCEPT ![n] = m.blocks]
  /\ net' = net \ {m}
  /\ UNCHANGED <<tree, outbox, serving, losses, failures>>

(* Mutant: the blocks are sent from the tip down. *)
NextBlocks_TipFirst(bs) == {b \in bs : \A c \in bs : Len(c) <= Len(b)}

(* The block of a response that comes next. *)
NextBlocks(bs) == {b \in bs : \A c \in bs : Len(b) <= Len(c)}

(* accept_block_from_r_r(): not published, and an orphan is not followed   *)
(* up.                                                                     *)
AcceptRequested(n) ==
  \E b \in NextBlocks(batch[n]) :
    /\ IF AcceptBlockResult(n, b) = "Ok" THEN PushAndFix(n, b) ELSE UNCHANGED tree
    /\ batch' = [batch EXCEPT ![n] = @ \ {b}]
    /\ UNCHANGED <<outbox, net, serving, losses, failures>>

(* OutboundFailure, InboundFailure: logged only. *)
Lose(m) ==
  /\ m.type # "block"
  /\ losses < MaxLosses
  /\ net' = net \ {m}
  /\ losses' = losses + 1
  /\ UNCHANGED <<tree, outbox, batch, serving, failures>>

(* The select loop of n: the two sides of an exchange, and the rest of an  *)
(* event once it has begun.                                                *)
Ask(n)   == \/ Sync(n)
            \/ \E m \in net : HashesArrive(n, m) \/ BlocksArrive(n, m)
Serve(n) == \E m \in net : ServeHashes(n, m) \/ ServeBlocks(n, m)
GoOn(n)  == SendBlocks(n) \/ AcceptRequested(n)
Send(n)  == \E peers \in SUBSET Mesh[n] : Publish(n, peers)
Hear(n)  == \E m \in net : \E peers \in SUBSET (Mesh[n] \ {m.from}) :
              GossipArrives(n, m, peers)

Next ==
  \/ \E n \in Node, h \in Hash : Mine(n, h)
  \/ \E n \in Node : Ask(n) \/ Serve(n) \/ GoOn(n) \/ Send(n) \/ Hear(n)
  \/ \E n \in Node : PublishFails(n)
  \/ \E m \in net : Lose(m)

Spec == Init /\ [][Next]_vars

(* A node finishes the event it is at, and both sides of an exchange come  *)
(* to their turn; gossip may be late for ever, and nothing is assumed of   *)
(* mining.                                                                 *)
FairSpec ==
  /\ Spec
  /\ \A n \in Node : WF_vars(GoOn(n)) /\ SF_vars(Ask(n)) /\ SF_vars(Serve(n))

(* Besides, what gossip delivers is heard. *)
HeardSpec == FairSpec /\ \A n \in Node : WF_vars(Send(n)) /\ WF_vars(Hear(n))

-----------------------------------------------------------------------------

(* Every store is well-typed, and what is on its way is blocks that some  *)
(* node knows.                                                             *)
TypeOK ==
  /\ blocks \in [Node -> SUBSET Path] /\ pruned \in [Node -> SUBSET Path]
  /\ longest_chain \in [Node -> Seq(Hash)]
  /\ commited_pointer \in [Node -> Nat] /\ executed \in [Node -> Seq(Hash)]
  /\ outbox \in [Node -> Seq(Known)] /\ batch \in [Node -> SUBSET Known]
  /\ serving \in [Node -> SUBSET [to : Node, hashes : SUBSET UsedHashes,
                                 chain : Known \cup {<<>>}]]
  /\ \A n \in Node : Cardinality(serving[n]) <= 1
  /\ losses \in 0 .. MaxLosses /\ failures \in 0 .. MaxFailures

(* Some ancestor of b, or b itself, is pruned at n. *)
Cut(n, b) == \E i \in 1 .. Len(b) : SubSeq(b, 1, i) \in pruned[n]

(* A block of a response never turns up before its parent, although the    *)
(* peer reads its chain and its blocks at different moments and may        *)
(* reorganise and prune in between, and this node mines while it goes      *)
(* through the response: it is an orphan only if this node has pruned its  *)
(* branch.  Nothing else would ask for the parent.                         *)
NoOrphanInReply ==
  \A n \in Node : \A b \in NextBlocks(batch[n]) : HasPreviousBlock(n, b) \/ Cut(n, b)

(* A node that stores the block another's chain ends in has executed all   *)
(* that the other has, in the same order, whichever branches each of them  *)
(* was on before and whichever it shows now: what was executed for one     *)
(* client is not undone for the client of another node.                    *)
SameHistory ==
  \A n, p \in Node :
    longest_chain[n] \in blocks[p] => IsPrefix(executed[n], executed[p])

(* Whatever messages a node gets, and in whichever order, its store goes   *)
(* through the steps of BlockTree.                                         *)
Store == INSTANCE BlockTree WITH
  blocks <- blocks[Observed], longest_chain <- longest_chain[Observed],
  commited_pointer <- commited_pointer[Observed], pruned <- pruned[Observed],
  executed <- executed[Observed]
ImplementsStore == Store!Spec

(* Two nodes never part for good without a reason: once mining and losses  *)
(* are over, they settle on one chain, unless one of them has pruned the   *)
(* other's.                                                                *)
Agree(n, p) == longest_chain[n] = longest_chain[p]
Split(n, p) == Cut(n, longest_chain[p]) \/ Cut(p, longest_chain[n])
EventuallyAgree == \A n, p \in Node : <>[](Agree(n, p) \/ Split(n, p))

(* "protects against hostile gossip environments and avoids stalling and   *)
(* thinking the blockchain is idle" (vm.rs:212-213): the timer does not    *)
(* leave a node behind a longer chain that it could accept.                *)
TimerAvoidsStalling ==
  \A n, p \in Node :
    <>[](Len(longest_chain[p]) <= Len(longest_chain[n]) \/ Split(n, p))
=============================================================================
