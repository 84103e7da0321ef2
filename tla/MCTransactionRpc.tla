-------------------------- MODULE MCTransactionRpc --------------------------
(* Instances of TransactionRpc for TLC. *)
EXTENDS TransactionRpc, TLC

CONSTANTS r1, r2, t1, t2

Hashes == 1 .. 5
FewHashes == 1 .. 4
OneRoot == {1}

(* Each request has a transaction of its own, or both submit the same. *)
OwnTx  == r1 :> t1 @@ r2 :> t2
SameTx == r1 :> t1 @@ r2 :> t1
=============================================================================
