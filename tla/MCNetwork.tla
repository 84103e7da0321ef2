----------------------------- MODULE MCNetwork ------------------------------
(* Instances of Network for TLC.  n1 mines two blocks and n2 one or two,    *)
(* n1's gossip reaches n2, each asks the other.  Bystanders: n1 mines, n2   *)
(* and n3 ask each other.                                                   *)
EXTENDS Network

CONSTANTS n1, n2, n3

OneRoot == {1}

ThreeHashes == 1 .. 3
TwoOne == (n1 :> {1, 2}) @@ (n2 :> {3})
FourHashes == 1 .. 4
TwoEach == (n1 :> {1, 2}) @@ (n2 :> {3, 4})
OneWay == (n1 :> {n2}) @@ (n2 :> {})
Other == (n1 :> n2) @@ (n2 :> n1)

OneHash == {1}
OneMiner == (n1 :> {1}) @@ (n2 :> {}) @@ (n3 :> {})
Everybody == [n \in Node |-> Node \ {n}]
Bystanders == (n1 :> n2) @@ (n2 :> n3) @@ (n3 :> n2)
=============================================================================
