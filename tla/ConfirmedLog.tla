---------------------------- MODULE ConfirmedLog ----------------------------
(***************************************************************************)
(* What the ledger promises to whoever relies on executed transactions:    *)
(* the chain may change at its end, but what was executed is a log that    *)
(* only grows, and at every moment it is the chain without its last Depth  *)
(* elements.                                                               *)
(***************************************************************************)
EXTENDS Branches

CONSTANTS Elem, Depth

VARIABLES chain, log

Init == chain = <<>> /\ log = <<>>

(* The chain is replaced by one that is not shorter and keeps the log. *)
Adopt ==
  /\ chain' \in Seq(Elem)
  /\ Len(chain') >= Len(chain)
  /\ IsPrefix(log, chain')
  /\ log' = Confirmed(chain', Depth)
  /\ IsPrefix(log, log')

Spec == Init /\ [][Adopt]_<<chain, log>>
=============================================================================
