----------------------------- MODULE MCMempool ------------------------------
(* Instances of Mempool for TLC: this node and one client.  Transactions    *)
(* are listed in the order of their ids, the client's against the order of  *)
(* its nonces.                                                              *)
EXTENDS Mempool

CONSTANTS alice, miner, a1, a2

Account(k) == [kind |-> "CreateUserAccount", from |-> k, nonce |-> 0,
               public_key |-> k]
BidOn(k, n, id) == [kind |-> "Bid", from |-> k, nonce |-> n, auction_id |-> id]
Create(k, n, id, t) == [kind |-> "CreateAuction", from |-> k, nonce |-> n,
                        auction_id |-> id, stop_time |-> t]
Stop(k, n, id) == [kind |-> "StopAuction", from |-> k, nonce |-> n,
                   auction_id |-> id]
At(s, t) == [data |-> s, timestamp |-> t]

Listed ==
  <<BidOn(alice, 2, a1), Create(alice, 1, a1, 1), BidOn(alice, 1, a1),
    Account(miner), Stop(miner, 1, a1), Stop(miner, 1, a2), Stop(miner, 2, a2),
    Stop(miner, 2, a1), Stop(miner, 3, a1), Stop(miner, 3, a2),
    Stop(miner, 4, a1), Stop(miner, 4, a2),
    Create(alice, 2, a2, 1), Create(alice, 3, a1, 2), BidOn(alice, 3, a1),
    Account(alice)>>
AllSigned == ToSet(Listed)
Ids == [s \in AllSigned |-> CHOOSE i \in 1 .. Len(Listed) : Listed[i] = s]

(* An account and transactions with the nonces 1, 1 and 2. *)
AliceSends == {Account(alice), Create(alice, 1, a1, 1), BidOn(alice, 1, a1),
               BidOn(alice, 2, a1)}
ForeignAccount == {<<At(Account(alice), 0)>>}

(* Foreign blocks that open both auctions, and the first of them again     *)
(* with a later stop time; requests that compete with the latter.          *)
Openings ==
  {<<At(Account(alice), 0), At(Create(alice, 1, a1, 1), 0),
     At(Create(alice, 2, a2, 1), 0)>>,
   <<At(Create(alice, 3, a1, 2), 0)>>}
SameNonce == {Create(alice, 3, a1, 2), BidOn(alice, 3, a1)}

Nonces == 0 .. 4
Times == 0 .. 3
=============================================================================
