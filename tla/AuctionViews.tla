---------------------------- MODULE AuctionViews -----------------------------
(***************************************************************************)
(* What the terminal client (bin/app.rs) makes of the blocks it walks: the *)
(* table of all auctions, the table of the auctions an account has bid on, *)
(* and whether a bid may still be submitted.  Each is a fold over the      *)
(* transactions, executed with success or not, since the client sees no    *)
(* difference.  The folds are compared with definitions that look at the   *)
(* chain as a whole.                                                       *)
(*                                                                         *)
(* The chain is a sequence of blocks that grows one transaction at a time; *)
(* how the client gets it is ChainReader.  Account creations are skipped   *)
(* by every fold and left out.  An Option is a set of at most one element. *)
(***************************************************************************)
EXTENDS Integers, SequencesExt

CONSTANTS
  PublicKey, AuctionId,
  Amount,           \* start amounts and bids
  MaxTransactions   \* bound: transactions on the chain

ASSUME AmountAssumption == Amount \subseteq Nat

Stop   == [kind : {"Stop"}, id : AuctionId]
Create == [kind : {"Create"}, id : AuctionId, from : PublicKey, amount : Amount]
Bid    == [kind : {"Bid"}, id : AuctionId, from : PublicKey, amount : Amount]

VARIABLE blocks  \* the blocks the client walks

ViewsInit == blocks = <<>>

Transactions == FlattenSeq(blocks)

(* Block after block, or one more transaction in the last. *)
Extend(t) ==
  \/ blocks' = Append(blocks, <<t>>)
  \/ /\ blocks # <<>>
     /\ blocks' = [blocks EXCEPT ![Len(blocks)] = Append(@, t)]

ViewsNext ==
  /\ Len(Transactions) < MaxTransactions
  /\ \E t \in Stop \cup Create \cup Bid : Extend(t)

ViewsSpec == ViewsInit /\ [][ViewsNext]_blocks

-----------------------------------------------------------------------------

Put(map, key, value) ==
  [k \in DOMAIN map \cup {key} |-> IF k = key THEN value ELSE map[k]]

(* A bid that a table takes into account: on an auction that it has seen   *)
(* created and not seen stopped.                                           *)
Counts(view, t) ==
  t \in Bid /\ t.id \notin view.ended /\ t.id \in DOMAIN view.auctions

Empty == [auctions |-> <<>>, ended |-> {}]

(* Mutant: the first bid is taken even if it is below the start amount. *)
SeeAvailable_IgnoresStart(view, t) ==
  IF t \in Stop THEN [view EXCEPT !.ended = @ \cup {t.id}]
  ELSE IF t \in Create
  THEN [view EXCEPT !.auctions =
          Put(@, t.id, [from |-> t.from, start |-> t.amount,
                        highest |-> {}, bids |-> 0])]
  ELSE IF Counts(view, t)
  THEN [view EXCEPT !.auctions[t.id].highest = {Max(@ \cup {t.amount})},
                    !.auctions[t.id].bids = @ + 1]
  ELSE view

(* AvailableAuctions::new(), one transaction. *)
SeeAvailable(view, t) ==
  IF t \in Stop THEN [view EXCEPT !.ended = @ \cup {t.id}]
  ELSE IF t \in Create
  THEN [view EXCEPT !.auctions =
          Put(@, t.id, [from |-> t.from, start |-> t.amount,
                        highest |-> {}, bids |-> 0])]
  ELSE IF Counts(view, t)
  THEN LET row == view.auctions[t.id]
           bid == row.highest \cup {t.amount}
       IN  [view EXCEPT
              !.auctions[t.id].highest =
                 {Max(IF row.highest = {} THEN bid \cup {row.start} ELSE bid)},
              !.auctions[t.id].bids = @ + 1]
  ELSE view

Available == FoldLeft(SeeAvailable, Empty, Transactions)

(* Mutant: the bids of the account itself do not raise the winning bid. *)
SeeProfile_OwnBidsApart(key, view, t) ==
  IF t \in Stop THEN [view EXCEPT !.ended = @ \cup {t.id}]
  ELSE IF t \in Create
  THEN [view EXCEPT !.auctions =
          Put(@, t.id, [start |-> t.amount, my |-> {}, max |-> {}, bid |-> FALSE])]
  ELSE IF Counts(view, t)
  THEN LET row == view.auctions[t.id]
       IN  [view EXCEPT !.auctions[t.id] =
              IF t.from = key
              THEN [row EXCEPT !.my  = {Max(@ \cup {t.amount})}, !.bid = TRUE]
              ELSE [row EXCEPT !.max = {Max(@ \cup {t.amount})}]]
  ELSE view

(* ProfileBids::new(), one transaction.  `bid` says that the account has   *)
(* bid on the auction.                                                     *)
SeeProfile(key, view, t) ==
  IF t \in Stop THEN [view EXCEPT !.ended = @ \cup {t.id}]
  ELSE IF t \in Create
  THEN [view EXCEPT !.auctions =
          Put(@, t.id, [start |-> t.amount, my |-> {}, max |-> {}, bid |-> FALSE])]
  ELSE IF Counts(view, t)
  THEN LET row == view.auctions[t.id]
       IN  [view EXCEPT !.auctions[t.id] =
              IF t.from = key
              THEN [row EXCEPT !.my  = {Max(@ \cup {t.amount})},
                               !.max = {Max(@ \cup row.my \cup {t.amount})},
                               !.bid = TRUE]
              ELSE [row EXCEPT !.max = {Max(@ \cup {t.amount})}]]
  ELSE view

Profile(key) ==
  FoldLeft(LAMBDA view, t : SeeProfile(key, view, t), Empty, Transactions)

(* The decimal digits of an amount, as to_string() writes them. *)
Digits[n \in Nat] ==
  IF n < 10 THEN <<n>> ELSE Append(Digits[n \div 10], n % 10)

(* The order of two strings. *)
StringAtLeast(a, b) ==
  \/ IsPrefix(b, a)
  \/ \E i \in 1 .. Min({Len(a), Len(b)}) :
       /\ SubSeq(a, 1, i - 1) = SubSeq(b, 1, i - 1)
       /\ a[i] > b[i]

(* The column "Won?" of a row: the amounts have been turned into text by   *)
(* the time they are compared.                                             *)
Won(key, id) ==
  LET row == Profile(key).auctions[id]
      atLeast == \E m \in row.my, n \in row.max : StringAtLeast(Digits[m], Digits[n])
  IN  IF ~atLeast THEN "No"
      ELSE IF id \in Profile(key).ended THEN "Yes" ELSE "Unfinished"

(* The rows that the account is shown. *)
ProfileRows(key) ==
  {id \in DOMAIN Profile(key).auctions : Profile(key).auctions[id].bid}

-----------------------------------------------------------------------------
(* The form that submits a bid *)

(* The part of the chain from the block that auction_exists names. *)
FromOpening(id) ==
  LET opens == {i \in 1 .. Len(blocks) :
                  \E t \in ToSet(blocks[i]) : t \in Create /\ t.id = id}
  IN  IF opens = {} THEN <<>>
      ELSE FlattenSeq(SubSeq(blocks, Min(opens), Len(blocks)))

(* Mutant: a stop does not end it. *)
SeeBid_IgnoresStop(id, highest, t) ==
  IF (t \in Bid /\ t.id = id) \/ t \in Create
  THEN {Max(highest \cup {t.amount})}
  ELSE highest

(* One transaction of the try_fold: the highest amount so far, none once a *)
(* stop was seen.  A creation counts whatever its auction.                 *)
SeeBid(id, highest, t) ==
  IF highest = {} \/ (t \in Stop /\ t.id = id) THEN {}
  ELSE IF (t \in Bid /\ t.id = id) \/ t \in Create
  THEN {Max(highest \cup {t.amount})}
  ELSE highest

(* What the form does with an amount for an auction. *)
Submit(id, amount) ==
  LET chain   == FromOpening(id)
      highest == FoldLeft(LAMBDA acc, t : SeeBid(id, acc, t), {amount}, chain)
  IN  IF chain = <<>> THEN "NotRecognized"
      ELSE IF highest = {} THEN "Stopped"
      ELSE IF Max(highest) > amount THEN "HigherOrEqualBid"
      ELSE "Submitted"

-----------------------------------------------------------------------------
(* The same, looking at the chain as a whole. *)

At(i) == Transactions[i]
Creations(id) == {i \in DOMAIN Transactions : At(i) \in Create /\ At(i).id = id}
Stops(id)     == {i \in DOMAIN Transactions : At(i) \in Stop /\ At(i).id = id}

(* The bids between the last creation of an auction and its first stop. *)
Valid(id) ==
  {i \in DOMAIN Transactions :
     /\ At(i) \in Bid /\ At(i).id = id
     /\ Creations(id) # {} /\ i > Max(Creations(id))
     /\ \A j \in Stops(id) : i < j}
Amounts(bids) == {At(i).amount : i \in bids}
ValidBy(key, id) == {i \in Valid(id) : At(i).from = key}

(* The table of all auctions says, for every auction ever created, who     *)
(* created it last, how many bids it got between then and its first stop,  *)
(* and the highest of them or the start amount.                            *)
AvailableIsRight ==
  /\ DOMAIN Available.auctions = {id \in AuctionId : Creations(id) # {}}
  /\ \A id \in DOMAIN Available.auctions :
       LET row == Available.auctions[id]
           opening == At(Max(Creations(id)))
       IN  /\ row.from = opening.from /\ row.start = opening.amount
           /\ row.bids = Cardinality(Valid(id))
           /\ row.highest = IF Valid(id) = {} THEN {}
                            ELSE {Max(Amounts(Valid(id)) \cup {row.start})}

(* The table of an account, which has four ways to update a row, shows the *)
(* highest bid of the account and of everybody, and exactly the auctions   *)
(* it has a bid on; and it agrees with the table of all auctions as soon   *)
(* as a bid reaches the start amount.                                      *)
ProfileIsRight ==
  \A key \in PublicKey :
    /\ ProfileRows(key) = {id \in AuctionId : ValidBy(key, id) # {}}
    /\ \A id \in ProfileRows(key) :
         LET row == Profile(key).auctions[id]
         IN  /\ row.my = {Max(Amounts(ValidBy(key, id)))}
             /\ row.max = {Max(Amounts(Valid(id)))}
             /\ Max(row.max) >= row.start => row.max = Available.auctions[id].highest

(* A bid is only submitted for an auction that is not stopped, and it is   *)
(* at least what was bid so far and the start amount.                      *)
SubmittedMayWin ==
  \A id \in AuctionId, amount \in Amount :
    Submit(id, amount) = "Submitted" =>
      /\ Creations(id) # {}
      /\ \A i \in Stops(id) : i < Min(Creations(id))
      /\ \A a \in Amounts(Valid(id)) : amount >= a
      /\ amount >= At(Max(Creations(id))).amount

(* The columns "Winning Bid" and "Won?" (bin/app.rs:2068): an account that *)
(* has won has bid the winning bid.                                        *)
WinnersBidMost ==
  \A key \in PublicKey : \A id \in ProfileRows(key) :
    Won(key, id) = "Yes" =>
      Profile(key).auctions[id].my = Profile(key).auctions[id].max

(* "There is already a higher or equal bid on-chain." (bin/app.rs:1535):   *)
(* this is said when there is one.                                         *)
EqualBidsRefused ==
  \A id \in AuctionId : \A amount \in Amounts(Valid(id)) :
    Submit(id, amount) # "Submitted"

(* "There is already a higher or equal bid on-chain." (bin/app.rs:1535):   *)
(* this is said only when there is one, or a higher start amount.          *)
RefusedForThisAuction ==
  \A id \in AuctionId, amount \in Amount :
    Submit(id, amount) = "HigherOrEqualBid" =>
      \E i \in DOMAIN Transactions :
        \/ At(i) \in Bid /\ At(i).id = id /\ At(i).amount >= amount
        \/ At(i) \in Create /\ At(i).id = id /\ At(i).amount > amount
=============================================================================
