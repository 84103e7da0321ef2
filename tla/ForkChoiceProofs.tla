-------------------------- MODULE ForkChoiceProofs --------------------------
(***************************************************************************)
(* Proof that ForkChoice implements BlockTree, for every set of hashes,    *)
(* every set of roots and every positive EXECUTE_AFTER_N_BLOCKS.           *)
(***************************************************************************)
EXTENDS ForkChoice, FiniteSetTheorems, SequenceTheorems, TLAPS

(* The lemmas about sets of paths, for the paths of the stored blocks. *)
Store == INSTANCE BlockTreeProofs WITH
           blocks <- StoredPaths, pruned <- PrunedPaths

LEMMA StoreAssumption ==
  /\ Hash \subseteq Nat
  /\ Root \subseteq Hash
  /\ EXECUTE_AFTER_N_BLOCKS \in Nat \ {0}
BY ZeroAssumption, DepthAssumption

(* They speak of the same order and the same ends of sequences. *)
LEMMA SameTerms ==
  /\ Store!N = N
  /\ \A a, b : Store!Beats(a, b) <=> Beats(a, b)
  /\ \A b : Store!BlockHash(b) = Last(b) /\ Store!Last(b) = Last(b)
  /\ \A m, n : Store!SatSub(m, n) = SatSub(m, n)
<1>1. Store!N = N
  BY DEF Store!N, N
<1>2. \A a, b : Store!Beats(a, b) <=> Beats(a, b)
  BY DEF Store!Beats, Beats, Store!BlockHash, BlockHash, Store!Last, Last
<1>3. \A b : Store!BlockHash(b) = Last(b) /\ Store!Last(b) = Last(b)
  BY DEF Store!BlockHash, Store!Last, Last
<1>4. \A m, n : Store!SatSub(m, n) = SatSub(m, n)
  BY DEF Store!SatSub, SatSub
<1> QED BY <1>1, <1>2, <1>3, <1>4

-----------------------------------------------------------------------------
(* Forests: blocks by hash and as paths *)

(* Every block of bs has a path, that of its parent and its own hash. *)
Forest(bs, path) ==
  /\ IsFiniteSet(DOMAIN bs)
  /\ DOMAIN bs \subseteq Hash
  /\ path[Zero] = <<>>
  /\ \A h \in DOMAIN bs :
       /\ bs[h] \in DOMAIN bs \cup {Zero}
       /\ path[h] \in Store!Path
       /\ path[h] = Append(path[bs[h]], h)
  /\ \E m \in Nat : \A h \in DOMAIN bs : Len(path[h]) <= m

Paths(bs, path) == {path[h] : h \in DOMAIN bs}

(* What a path is; "0" has the empty one. *)
LEMMA ForestFacts ==
  ASSUME NEW bs, NEW path, Forest(bs, path), NEW h \in DOMAIN bs
  PROVE  /\ h \in Hash /\ h # Zero
         /\ path[h] \in Store!Path /\ path[h] \in Seq(Hash)
         /\ Len(path[h]) \in Nat /\ Len(path[h]) >= 1
         /\ path[h][Len(path[h])] = h
         /\ Store!BlockHash(path[h]) = h
         /\ path[bs[h]] \in Seq(Hash)
         /\ Len(path[bs[h]]) \in Nat
         /\ Len(path[h]) = Len(path[bs[h]]) + 1
         /\ \A i \in 1 .. Len(path[bs[h]]) : path[h][i] = path[bs[h]][i]
         /\ Store!Front(path[h]) = path[bs[h]]
<1>1. /\ h \in Hash /\ h # Zero /\ bs[h] \in DOMAIN bs \cup {Zero}
      /\ path[h] \in Store!Path /\ path[h] = Append(path[bs[h]], h)
  BY ZeroAssumption DEF Forest
<1>2. /\ path[h] \in Seq(Hash) /\ Len(path[h]) \in Nat /\ Len(path[h]) >= 1
      /\ Store!BlockHash(path[h]) = path[h][Len(path[h])]
  BY <1>1, Store!PathFacts, StoreAssumption
<1>3. path[bs[h]] \in Seq(Hash)
  <2>1. CASE bs[h] = Zero
    BY <2>1, EmptySeq DEF Forest
  <2>2. CASE bs[h] \in DOMAIN bs
    <3>1. path[bs[h]] \in Store!Path
      BY <2>2 DEF Forest
    <3> QED BY <3>1, Store!PathFacts, StoreAssumption
  <2> QED BY <1>1, <2>1, <2>2
<1>4. PICK p \in Seq(Hash) : p = path[bs[h]]
  BY <1>3
<1>5. /\ Len(p) \in Nat /\ Len(Append(p, h)) = Len(p) + 1
      /\ \A i \in 1 .. Len(p) : Append(p, h)[i] = p[i]
      /\ Append(p, h)[Len(p) + 1] = h
  BY <1>1, AppendProperties, LenProperties
<1>6. Store!Front(Append(p, h)) = p
  BY <1>1, Store!FrontOfAppend, StoreAssumption
<1> QED BY <1>1, <1>2, <1>4, <1>5, <1>6

(* A block has one path, and no path is that of two blocks. *)
LEMMA OnePath ==
  ASSUME NEW bs, NEW path, Forest(bs, path),
         NEW g \in DOMAIN bs \cup {Zero}, NEW h \in DOMAIN bs \cup {Zero},
         path[g] = path[h]
  PROVE  g = h
<1>1. \A x \in DOMAIN bs : Len(path[x]) >= 1 /\ path[x][Len(path[x])] = x
  BY ForestFacts
<1>2. path[Zero] = <<>> /\ Len(<<>>) = 0
  BY EmptySeq DEF Forest
<1> QED BY <1>1, <1>2

(* The prefixes of a path are the paths of its elements. *)
LEMMA PrefixIsPath ==
  ASSUME NEW bs, NEW path, Forest(bs, path), NEW h \in DOMAIN bs,
         NEW i \in 1 .. Len(path[h])
  PROVE  /\ path[h][i] \in DOMAIN bs
         /\ path[path[h][i]] = SubSeq(path[h], 1, i)
         /\ Len(path[path[h][i]]) = i
<1> DEFINE P == Paths(bs, path)
           c == path[h]
<1>1. P \subseteq Store!Path /\ c \in P
  BY ForestFacts DEF Paths
<1>2. \A x \in P : Store!Front(x) = <<>> \/ Store!Front(x) \in P
  <2> SUFFICES ASSUME NEW g \in DOMAIN bs
               PROVE  path[bs[g]] = <<>> \/ path[bs[g]] \in P
    BY ForestFacts DEF Paths
  <2> QED BY DEF Forest, Paths
<1>3. c \in Seq(Hash) /\ Len(c) \in Nat /\ i \in 0 .. Len(c) /\ i >= 1
  BY ForestFacts
<1>4. SubSeq(c, 1, i) \in P
  <2>1. i \in 1 .. Len(c)
    OBVIOUS
  <2> HIDE DEF P, c
  <2> QED BY <1>1, <1>2, <2>1, Store!PrefixesStored, StoreAssumption
<1>5. PICK g \in DOMAIN bs : path[g] = SubSeq(c, 1, i)
  BY <1>4 DEF Paths
<1> HIDE DEF P, c
<1>6. Len(path[g]) = i /\ path[g][i] = c[i]
  <2>1. /\ Len(SubSeq(c, 1, i)) = i
        /\ \A j \in 1 .. i : SubSeq(c, 1, i)[j] = c[j]
    BY <1>3, Store!PrefixElements, StoreAssumption
  <2>2. i \in 1 .. i
    BY <1>3
  <2> QED BY <1>5, <2>1, <2>2
<1>7. g = c[i]
  BY <1>6, ForestFacts
<1> QED BY <1>5, <1>6, <1>7 DEF c

-----------------------------------------------------------------------------
(* The longest branch *)

Drop(s, n) == SubSeq(s, n + 1, Len(s))

(* The paths of the blocks below h, and what the best of them adds to its  *)
(* path.                                                                   *)
Below(bs, path, h) ==
  {b \in Paths(bs, path) : /\ Len(b) > Len(path[h])
                           /\ SubSeq(b, 1, Len(path[h])) = path[h]}
Best(bs, path, h) == Store!LongestBranch(Below(bs, path, h))
Rest(bs, path, h) == Drop(Best(bs, path, h), Len(path[h]))
ChildrenOf(bs, h) == {c \in DOMAIN bs : bs[c] = h}

(* Some branch beats all others of a set that is not empty, if its         *)
(* branches have a greatest length.                                        *)
LEMMA BestExists ==
  ASSUME NEW Q, Q \subseteq Store!Path, Q # {},
         NEW m \in Nat, \A c \in Q : Len(c) <= m
  PROVE  /\ Store!LongestBranch(Q) \in Q
         /\ \A c \in Q : Store!Beats(Store!LongestBranch(Q), c)
<1>1. \A c \in Q : /\ Len(c) \in Nat /\ Len(c) >= 1
                   /\ Store!BlockHash(c) \in Nat
  BY Store!PathFacts, StoreAssumption
<1>2. PICK k \in Nat : /\ \A c \in Q : Len(c) <= k
                       /\ \E c \in Q : Len(c) = k
  <2> DEFINE D == {k \in Nat : \A c \in Q : Len(c) <= k}
  <2>1. D \subseteq Nat /\ m \in D
    OBVIOUS
  <2>2. PICK k \in D : \A i \in D : k <= i
    <3> HIDE DEF D
    <3> QED BY <2>1, Store!LeastElement, StoreAssumption
  <2>3. ASSUME \A c \in Q : Len(c) # k PROVE FALSE
    <3>1. k - 1 \in D
      BY <1>1, <2>3
    <3> HIDE DEF D
    <3>2. k <= k - 1 /\ k \in Nat
      BY <2>1, <2>2, <3>1
    <3> QED BY <3>2
  <2> QED BY <2>2, <2>3
<1>3. PICK w \in Q : /\ Len(w) = k
                     /\ \A c \in Q : Len(c) = k =>
                          Store!BlockHash(w) <= Store!BlockHash(c)
  <2> DEFINE D == {Store!BlockHash(c) : c \in {x \in Q : Len(x) = k}}
  <2>1. D \subseteq Nat /\ D # {}
    BY <1>1, <1>2
  <2>2. PICK j \in D : \A i \in D : j <= i
    <3> HIDE DEF D
    <3> QED BY <2>1, Store!LeastElement, StoreAssumption
  <2> QED BY <2>2
<1>4. \A c \in Q : Store!Beats(w, c)
  BY <1>1, <1>2, <1>3 DEF Store!Beats
<1> QED BY <1>4 DEF Store!LongestBranch

LEMMA BestOfBelow ==
  ASSUME NEW bs, NEW path, Forest(bs, path), NEW h \in DOMAIN bs \cup {Zero}
  PROVE  /\ Below(bs, path, h) \subseteq Paths(bs, path)
         /\ Below(bs, path, h) # {} =>
              /\ Best(bs, path, h) \in Below(bs, path, h)
              /\ \A b \in Below(bs, path, h) : Store!Beats(Best(bs, path, h), b)
         /\ Below(bs, path, h) = {} => Best(bs, path, h) = <<>>
<1>1. PICK m \in Nat : \A b \in Paths(bs, path) : Len(b) <= m
  BY DEF Forest, Paths
<1>2. Below(bs, path, h) \subseteq Paths(bs, path)
  BY DEF Below
<1>3. Paths(bs, path) \subseteq Store!Path
  BY DEF Forest, Paths
<1>4. Below(bs, path, h) = {} => Best(bs, path, h) = <<>>
  BY DEF Best, Store!LongestBranch
<1>5. PICK Q : Q = Below(bs, path, h)
  OBVIOUS
<1>6. Q \subseteq Store!Path /\ \A c \in Q : Len(c) <= m
  BY <1>1, <1>2, <1>3, <1>5
<1>7. Q # {} => /\ Store!LongestBranch(Q) \in Q
                /\ \A c \in Q : Store!Beats(Store!LongestBranch(Q), c)
  BY <1>6, BestExists
<1> QED BY <1>2, <1>4, <1>5, <1>7 DEF Best

(* A block below h is a child of h or below one. *)
LEMMA BelowFacts ==
  ASSUME NEW bs, NEW path, Forest(bs, path), NEW h \in DOMAIN bs \cup {Zero},
         NEW b \in Below(bs, path, h)
  PROVE  LET c == b[Len(path[h]) + 1]
         IN  /\ c \in ChildrenOf(bs, h)
             /\ b = path[c] \/ b \in Below(bs, path, c)
<1>1. PICK g \in DOMAIN bs : b = path[g]
  BY DEF Below, Paths
<1>2. PICK n : n = Len(path[h])
  OBVIOUS
<1>3. n \in Nat
  <2>1. CASE h = Zero
    BY <1>2, <2>1, EmptySeq DEF Forest
  <2>2. CASE h \in DOMAIN bs
    BY <1>2, <2>2, ForestFacts
  <2> QED BY <2>1, <2>2
<1>4. Len(b) > n /\ SubSeq(b, 1, n) = path[h]
  BY <1>2 DEF Below
<1>5. Len(b) \in Nat /\ b \in Seq(Hash)
  BY <1>1, ForestFacts
<1>6. n + 1 \in 1 .. Len(b)
  BY <1>3, <1>4, <1>5
<1>7. PICK c : c = b[n + 1]
  OBVIOUS
<1>8. c \in DOMAIN bs /\ path[c] = SubSeq(b, 1, n + 1) /\ Len(path[c]) = n + 1
  BY <1>1, <1>6, <1>7, PrefixIsPath
<1>9. path[bs[c]] = path[h]
  <2>1. Store!Front(path[c]) = SubSeq(path[c], 1, n)
    BY <1>3, <1>8 DEF Store!Front
  <2>2. path[c] \in Seq(Hash) /\ n \in 0 .. Len(path[c])
    BY <1>3, <1>8, ForestFacts
  <2>3. \A i \in 1 .. n + 1 : path[c][i] = b[i]
    BY <1>5, <1>6, <1>8, Store!PrefixElements, StoreAssumption
  <2>4. SubSeq(path[c], 1, n) = SubSeq(b, 1, n)
    <3>1. \A i \in 1 .. n : path[c][i] = b[i]
      BY <1>3, <2>3
    <3>2. n <= Len(path[c]) /\ n <= Len(b)
      BY <1>3, <1>4, <1>5, <1>8
    <3> QED BY <1>3, <1>5, <2>2, <3>1, <3>2, Store!CommonPrefix, StoreAssumption
  <2>5. Store!Front(path[c]) = path[bs[c]]
    <3>1. c \in DOMAIN bs
      BY <1>8
    <3> QED BY <3>1, ForestFacts, SMTT(30)
  <2> QED BY <1>4, <2>1, <2>4, <2>5
<1>10. bs[c] = h
  <2>1. bs[c] \in DOMAIN bs \cup {Zero}
    BY <1>8 DEF Forest
  <2> QED BY <1>9, <2>1, OnePath
<1>11. b = path[c] \/ b \in Below(bs, path, c)
  <2>1. CASE Len(b) = n + 1
    <3>1. SubSeq(b, 1, n + 1) = b
      BY <1>5, <2>1, SubSeqFull
    <3> QED BY <1>8, <3>1
  <2>2. CASE Len(b) > n + 1
    <3>1. b \in Paths(bs, path)
      BY DEF Below
    <3> QED BY <1>8, <2>2, <3>1 DEF Below
  <2> QED BY <1>3, <1>4, <1>5, <2>1, <2>2
<1> QED BY <1>2, <1>7, <1>8, <1>10, <1>11 DEF ChildrenOf

(* A child of h is below h, and what is below it is below h. *)
LEMMA ChildIsBelow ==
  ASSUME NEW bs, NEW path, Forest(bs, path), NEW h \in DOMAIN bs \cup {Zero},
         NEW c \in ChildrenOf(bs, h)
  PROVE  /\ path[c] \in Below(bs, path, h)
         /\ Len(path[h]) \in Nat /\ Len(path[c]) = Len(path[h]) + 1
         /\ \A b \in Below(bs, path, c) :
              /\ b \in Below(bs, path, h)
              /\ b[Len(path[h]) + 1] = c
<1>1. c \in DOMAIN bs /\ bs[c] = h
  BY DEF ChildrenOf
<1>2. PICK n : n = Len(path[h])
  OBVIOUS
<1>3. /\ path[h] \in Seq(Hash) /\ path[c] \in Seq(Hash) /\ n \in Nat
      /\ Len(path[c]) = n + 1 /\ path[c][n + 1] = c
      /\ \A i \in 1 .. n : path[c][i] = path[h][i]
  BY <1>1, <1>2, ForestFacts
<1>4. SubSeq(path[h], 1, n) = path[h]
  BY <1>2, <1>3, SubSeqFull
<1>5. SubSeq(path[c], 1, n) = path[h]
  <2>1. n <= Len(path[h]) /\ n <= Len(path[c])
    BY <1>2, <1>3
  <2> QED BY <1>3, <1>4, <2>1, Store!CommonPrefix, StoreAssumption
<1>6. path[c] \in Below(bs, path, h)
  BY <1>1, <1>2, <1>3, <1>5 DEF Below, Paths
<1>7. ASSUME NEW b \in Below(bs, path, c)
      PROVE  b \in Below(bs, path, h) /\ b[n + 1] = c
  <2>1. /\ b \in Paths(bs, path) /\ Len(b) > n + 1
        /\ SubSeq(b, 1, n + 1) = path[c]
    BY <1>3 DEF Below
  <2>2. b \in Seq(Hash) /\ Len(b) \in Nat
    BY <2>1, ForestFacts DEF Paths
  <2>3. \A i \in 1 .. n + 1 : path[c][i] = b[i]
    <3>1. n + 1 \in 0 .. Len(b)
      BY <1>3, <2>1, <2>2
    <3> QED BY <2>1, <2>2, <3>1, Store!PrefixElements, StoreAssumption
  <2>4. SubSeq(b, 1, n) = path[h]
    <3>1. /\ \A i \in 1 .. n : b[i] = path[h][i]
          /\ n <= Len(b) /\ n <= Len(path[h])
      BY <1>2, <1>3, <2>1, <2>2, <2>3
    <3> QED BY <1>3, <1>4, <2>2, <3>1, Store!CommonPrefix, StoreAssumption
  <2>5. b[n + 1] = c
    BY <1>3, <2>3
  <2>6. Len(b) > n
    BY <1>3, <2>1, <2>2
  <2> QED BY <1>2, <2>1, <2>4, <2>5, <2>6 DEF Below
<1> QED BY <1>2, <1>3, <1>6, <1>7

(* Leaving off the same number of blocks changes nothing in the order. *)
LEMMA DropFacts ==
  ASSUME NEW b \in Seq(Hash), NEW n \in Nat, Len(b) > n
  PROVE  /\ Drop(b, n) \in Seq(Hash)
         /\ Len(Drop(b, n)) = Len(b) - n
         /\ Last(Drop(b, n)) = Last(b)
         /\ Drop(b, n) = <<b[n + 1]>> \o Drop(b, n + 1)
<1>1. Len(b) \in Nat /\ \A i \in 1 .. Len(b) : b[i] \in Hash
  BY LenProperties, ElementOfSeq
<1>2. n + 1 \in Int /\ Len(b) \in Int /\ \A i \in n + 1 .. Len(b) : b[i] \in Hash
  BY <1>1
<1>3. PICK d : d = SubSeq(b, n + 1, Len(b))
  OBVIOUS
<1>4. /\ d \in Seq(Hash)
      /\ Len(d) = IF n + 1 <= Len(b) THEN Len(b) - (n + 1) + 1 ELSE 0
      /\ \A i \in 1 .. Len(b) - (n + 1) + 1 : d[i] = b[n + 1 + i - 1]
  BY <1>2, <1>3, SubSeqProperties
<1>5. Len(d) = Len(b) - n /\ d[Len(b) - n] = b[Len(b)]
  <2>1. Len(b) - n \in 1 .. Len(b) - (n + 1) + 1
    BY <1>1
  <2>2. d[Len(b) - n] = b[n + 1 + (Len(b) - n) - 1]
    BY <1>4, <2>1
  <2>3. n + 1 + (Len(b) - n) - 1 = Len(b)
    BY <1>1
  <2> QED BY <1>1, <1>4, <2>2, <2>3
<1>6. Last(d) = Last(b)
  BY <1>5 DEF Last
<1>7. SubSeq(b, n + 1, Len(b)) = <<b[n + 1]>> \o SubSeq(b, n + 1 + 1, Len(b))
  <2>1. n + 1 \in 1 .. Len(b) /\ Len(b) \in n + 1 .. Len(b)
    BY <1>1
  <2> QED BY <2>1, SubSeqRecursiveFirst
<1> QED BY <1>3, <1>4, <1>5, <1>6, <1>7 DEF Drop

LEMMA DropKeepsOrder ==
  ASSUME NEW a \in Seq(Hash), NEW b \in Seq(Hash), NEW n \in Nat,
         Len(a) > n, Len(b) > n
  PROVE  Beats(Drop(a, n), Drop(b, n)) <=> Store!Beats(a, b)
<1>1. /\ Len(a) \in Nat /\ Len(b) \in Nat
      /\ Len(Drop(a, n)) = Len(a) - n /\ Last(Drop(a, n)) = Last(a)
      /\ Len(Drop(b, n)) = Len(b) - n /\ Last(Drop(b, n)) = Last(b)
  <2>1. Len(Drop(a, n)) = Len(a) - n /\ Last(Drop(a, n)) = Last(a)
    BY DropFacts
  <2>2. Len(Drop(b, n)) = Len(b) - n /\ Last(Drop(b, n)) = Last(b)
    BY DropFacts
  <2> QED BY <2>1, <2>2, LenProperties
<1>2. Store!BlockHash(a) = Last(a) /\ Store!BlockHash(b) = Last(b)
  BY SameTerms
<1> QED BY <1>1, <1>2 DEF Beats, Store!Beats, BlockHash

(* The branch that find_longest_branch() returns for a child c of h is the *)
(* best path through c without that of h.                                  *)
LEMMA BranchOfChild ==
  ASSUME NEW bs, NEW path, Forest(bs, path), NEW h \in DOMAIN bs \cup {Zero},
         NEW c \in ChildrenOf(bs, h)
  PROVE  \E u \in Below(bs, path, h) :
           /\ <<c>> \o Rest(bs, path, c) = Drop(u, Len(path[h]))
           /\ Store!Beats(u, path[c])
           /\ \A b \in Below(bs, path, c) : Store!Beats(u, b)
<1>1. c \in DOMAIN bs
  BY DEF ChildrenOf
<1>2. PICK n \in Nat : n = Len(path[h]) /\ Len(path[c]) = n + 1
  BY ChildIsBelow
<1>3. path[c] \in Below(bs, path, h) /\ path[c][n + 1] = c
  BY <1>1, <1>2, ChildIsBelow, ForestFacts
<1>4. path[c] \in Store!Path /\ path[c] \in Seq(Hash)
  BY <1>1, ForestFacts
<1>5. CASE Below(bs, path, c) = {}
  <2>1. Rest(bs, path, c) = <<>>
    <3>1. Best(bs, path, c) = <<>>
      BY <1>1, <1>5, BestOfBelow
    <3>2. Rest(bs, path, c) = SubSeq(<<>>, n + 1 + 1, Len(<<>>))
      BY <1>2, <3>1 DEF Rest, Drop
    <3>3. Len(<<>>) = 0
      BY EmptySeq
    <3> QED BY <3>2, <3>3, SubSeqEmpty
  <2>2. Drop(path[c], n) = <<c>> \o Drop(path[c], n + 1)
    <3>1. Len(path[c]) > n
      BY <1>2
    <3> QED BY <1>3, <1>4, <3>1, DropFacts
  <2>3. Drop(path[c], n + 1) = <<>>
    <3>1. Drop(path[c], n + 1) = SubSeq(path[c], n + 1 + 1, n + 1)
      BY <1>2 DEF Drop
    <3> QED BY <3>1, SubSeqEmpty
  <2>4. Store!Beats(path[c], path[c])
    BY <1>4, Store!BeatsOrder, StoreAssumption
  <2> QED BY <1>2, <1>3, <1>5, <2>1, <2>2, <2>3, <2>4
<1>6. CASE Below(bs, path, c) # {}
  <2>1. PICK u : u = Best(bs, path, c)
    OBVIOUS
  <2>2. /\ u \in Below(bs, path, c)
        /\ \A b \in Below(bs, path, c) : Store!Beats(u, b)
    BY <1>1, <1>6, <2>1, BestOfBelow
  <2>3. u \in Below(bs, path, h) /\ u[n + 1] = c
    BY <1>2, <2>2, ChildIsBelow
  <2>4. u \in Seq(Hash) /\ Len(u) \in Nat /\ Len(u) > n + 1
    BY <1>2, <2>2, ForestFacts DEF Below, Paths
  <2>5. Drop(u, n) = <<c>> \o Drop(u, n + 1)
    <3>1. Len(u) > n
      BY <1>2, <2>4
    <3> QED BY <2>3, <2>4, <3>1, DropFacts
  <2>6. Rest(bs, path, c) = Drop(u, n + 1)
    BY <1>2, <2>1 DEF Rest
  <2>7. Store!Beats(u, path[c])
    BY <1>2, <2>4 DEF Store!Beats
  <2> QED BY <1>2, <2>2, <2>3, <2>5, <2>6, <2>7
<1> QED BY <1>5, <1>6

(* max_by() over the children of h finds the best path below h. *)
LEMMA WinnerOfChildren ==
  ASSUME NEW bs, NEW path, Forest(bs, path), NEW h \in DOMAIN bs \cup {Zero}
  PROVE  Winner({<<c>> \o Rest(bs, path, c) : c \in ChildrenOf(bs, h)})
           = Rest(bs, path, h)
<1> DEFINE branches == {<<c>> \o Rest(bs, path, c) : c \in ChildrenOf(bs, h)}
<1>1. PICK n : n = Len(path[h])
  OBVIOUS
<1>2. CASE ChildrenOf(bs, h) = {}
  <2>1. Below(bs, path, h) = {}
    BY <1>2, BelowFacts
  <2>2. Best(bs, path, h) = <<>>
    BY <2>1, BestOfBelow
  <2>3. n \in Nat
    <3>1. CASE h = Zero
      BY <1>1, <3>1, EmptySeq DEF Forest
    <3>2. CASE h \in DOMAIN bs
      BY <1>1, <3>2, ForestFacts
    <3> QED BY <3>1, <3>2
  <2>4. Rest(bs, path, h) = <<>>
    <3>1. Rest(bs, path, h) = SubSeq(<<>>, n + 1, Len(<<>>))
      BY <1>1, <2>2 DEF Rest, Drop
    <3>2. Len(<<>>) = 0
      BY EmptySeq
    <3> QED BY <2>3, <3>1, <3>2, SubSeqEmpty
  <2>5. branches = {}
    BY <1>2
  <2> QED BY <2>4, <2>5 DEF Winner
<1>3. CASE ChildrenOf(bs, h) # {}
  <2>1. n \in Nat /\ Below(bs, path, h) # {}
    BY <1>1, <1>3, ChildIsBelow
  <2>2. PICK b : b = Best(bs, path, h)
    OBVIOUS
  <2>3. /\ b \in Below(bs, path, h)
        /\ \A x \in Below(bs, path, h) : Store!Beats(b, x)
    BY <2>1, <2>2, BestOfBelow
  <2>4. \A x \in Below(bs, path, h) :
          /\ x \in Store!Path /\ x \in Seq(Hash) /\ Len(x) > n
          /\ x \in Paths(bs, path)
    BY <1>1, ForestFacts DEF Below, Paths
  <2>5. ASSUME NEW x \in Below(bs, path, h), Store!Beats(x, b) PROVE x = b
    <3>1. Store!BlockHash(x) = Store!BlockHash(b)
      <4>1. Store!Beats(b, x)
        BY <2>3
      <4> QED BY <2>3, <2>4, <2>5, <4>1, Store!BeatsOrder, StoreAssumption
    <3>2. PICK f \in DOMAIN bs : x = path[f]
      BY <2>4 DEF Paths
    <3>3. PICK g \in DOMAIN bs : b = path[g]
      BY <2>3, <2>4 DEF Paths
    <3>4. f = g
      BY <3>1, <3>2, <3>3, ForestFacts
    <3> QED BY <3>2, <3>3, <3>4
  <2>6. Drop(b, n) \in branches
    <3>1. PICK c \in ChildrenOf(bs, h) : b = path[c] \/ b \in Below(bs, path, c)
      BY <2>3, BelowFacts
    <3>2. PICK u \in Below(bs, path, h) :
                 /\ <<c>> \o Rest(bs, path, c) = Drop(u, n)
                 /\ Store!Beats(u, path[c])
                 /\ \A x \in Below(bs, path, c) : Store!Beats(u, x)
      BY <1>1, BranchOfChild
    <3>3. u = b
      BY <2>5, <3>1, <3>2
    <3> QED BY <3>2, <3>3
  <2>7. \A v \in branches : \E u \in Below(bs, path, h) : v = Drop(u, n)
    <3> SUFFICES ASSUME NEW c \in ChildrenOf(bs, h)
                 PROVE  \E u \in Below(bs, path, h) :
                          <<c>> \o Rest(bs, path, c) = Drop(u, n)
      OBVIOUS
    <3> QED BY <1>1, BranchOfChild
  <2> HIDE DEF branches
  <2>8. \A v \in branches : Beats(Drop(b, n), v)
    <3> SUFFICES ASSUME NEW v \in branches PROVE Beats(Drop(b, n), v)
      OBVIOUS
    <3>1. PICK u \in Below(bs, path, h) : v = Drop(u, n)
      BY <2>7
    <3>2. Store!Beats(b, u)
      BY <2>3
    <3> QED BY <2>1, <2>3, <2>4, <3>1, <3>2, DropKeepsOrder
  <2>9. ASSUME NEW w \in branches, \A v \in branches : Beats(w, v)
        PROVE  w = Drop(b, n)
    <3>1. PICK u \in Below(bs, path, h) : w = Drop(u, n)
      BY <2>7
    <3>2. Beats(Drop(u, n), Drop(b, n))
      BY <2>6, <2>9, <3>1
    <3>3. Store!Beats(u, b)
      BY <2>1, <2>3, <2>4, <3>2, DropKeepsOrder
    <3> QED BY <2>5, <3>1, <3>3
  <2>10. Winner(branches) = Drop(b, n)
    <3>1. branches # {}
      BY <2>6
    <3>2. Winner(branches) = CHOOSE w \in branches : \A v \in branches : Beats(w, v)
      BY <3>1 DEF Winner
    <3> QED BY <2>6, <2>8, <2>9, <3>2
  <2> QED BY <1>1, <2>2, <2>10 DEF Rest, branches
<1> QED BY <1>2, <1>3

(* The branch map has the children of every block. *)
LEMMA ChildrenFacts ==
  ASSUME NEW bs, NEW h
  PROVE  Children(BranchMap(bs), h) = ChildrenOf(bs, h)
<1>1. DOMAIN BranchMap(bs) = {bs[c] : c \in DOMAIN bs}
  BY DEF BranchMap, Range
<1>2. CASE h \in DOMAIN BranchMap(bs)
  <2>1. BranchMap(bs)[h] = {c \in DOMAIN bs : bs[c] = h}
    BY <1>2 DEF BranchMap
  <2> QED BY <1>2, <2>1 DEF Children, ChildrenOf
<1>3. CASE h \notin DOMAIN BranchMap(bs)
  <2>1. \A c \in DOMAIN bs : bs[c] # h
    BY <1>1, <1>3
  <2> QED BY <1>3, <2>1 DEF Children, ChildrenOf
<1> QED BY <1>2, <1>3

(* A solution of the recursion of find_longest_branch(). *)
IsBranch(branch, bs) ==
  branch = [h \in Hash \cup {Zero} |->
              <<h>> \o Winner({branch[c] : c \in ChildrenOf(bs, h)})]

(* It has one solution: the best path below each block. *)
BestBranch(bs, path) ==
  [h \in Hash \cup {Zero} |->
     <<h>> \o (IF h \in DOMAIN bs \cup {Zero} THEN Rest(bs, path, h) ELSE <<>>)]

LEMMA ChildrenAreStored ==
  ASSUME NEW bs, NEW path, Forest(bs, path), NEW h
  PROVE  /\ ChildrenOf(bs, h) \subseteq DOMAIN bs
         /\ DOMAIN bs \subseteq Hash
         /\ h \notin DOMAIN bs \cup {Zero} => ChildrenOf(bs, h) = {}
BY DEF ChildrenOf, Forest

LEMMA BranchExists ==
  ASSUME NEW bs, NEW path, Forest(bs, path)
  PROVE  IsBranch(BestBranch(bs, path), bs)
<1>1. PICK f : f = BestBranch(bs, path)
  OBVIOUS
<1>2. ASSUME NEW c \in DOMAIN bs PROVE f[c] = <<c>> \o Rest(bs, path, c)
  BY <1>1, ChildrenAreStored DEF BestBranch
<1>3. ASSUME NEW h \in Hash \cup {Zero}
      PROVE  f[h] = <<h>> \o Winner({f[c] : c \in ChildrenOf(bs, h)})
  <2>1. {f[c] : c \in ChildrenOf(bs, h)}
          = {<<c>> \o Rest(bs, path, c) : c \in ChildrenOf(bs, h)}
    <3>1. ChildrenOf(bs, h) \subseteq DOMAIN bs
      BY ChildrenAreStored
    <3> QED BY <1>2, <3>1
  <2>2. CASE h \in DOMAIN bs \cup {Zero}
    <3>1. f[h] = <<h>> \o Rest(bs, path, h)
      BY <1>1, <2>2 DEF BestBranch
    <3>2. Winner({<<c>> \o Rest(bs, path, c) : c \in ChildrenOf(bs, h)})
            = Rest(bs, path, h)
      BY <2>2, WinnerOfChildren
    <3> QED BY <2>1, <3>1, <3>2
  <2>3. CASE h \notin DOMAIN bs \cup {Zero}
    <3>1. f[h] = <<h>> \o <<>>
      BY <1>1, <2>3 DEF BestBranch
    <3>2. ChildrenOf(bs, h) = {}
      BY <2>3, ChildrenAreStored
    <3>3. {f[c] : c \in ChildrenOf(bs, h)} = {}
      BY <3>2
    <3>4. Winner({}) = <<>>
      BY DEF Winner
    <3> QED BY <3>1, <3>3, <3>4
  <2> QED BY <2>2, <2>3
<1>4. f = [h \in Hash \cup {Zero} |-> f[h]]
  BY <1>1 DEF BestBranch
<1>5. f = [h \in Hash \cup {Zero} |->
             <<h>> \o Winner({f[c] : c \in ChildrenOf(bs, h)})]
  BY <1>3, <1>4
<1> QED BY <1>1, <1>5 DEF IsBranch

LEMMA BranchIsUnique ==
  ASSUME NEW bs, NEW path, Forest(bs, path),
         NEW f, IsBranch(f, bs), NEW g, IsBranch(g, bs)
  PROVE  f = g
<1>1. /\ f = [h \in Hash \cup {Zero} |-> f[h]]
      /\ g = [h \in Hash \cup {Zero} |-> g[h]]
  BY DEF IsBranch
<1>2. ASSUME NEW h \in Hash \cup {Zero},
             \A c \in ChildrenOf(bs, h) : f[c] = g[c]
      PROVE  f[h] = g[h]
  <2>1. {f[c] : c \in ChildrenOf(bs, h)} = {g[c] : c \in ChildrenOf(bs, h)}
    BY <1>2
  <2>2. /\ f[h] = <<h>> \o Winner({f[c] : c \in ChildrenOf(bs, h)})
        /\ g[h] = <<h>> \o Winner({g[c] : c \in ChildrenOf(bs, h)})
    BY DEF IsBranch
  <2> QED BY <2>1, <2>2
<1>3. PICK m \in Nat : \A h \in DOMAIN bs : Len(path[h]) <= m
  BY DEF Forest
<1>4. \A h \in DOMAIN bs \cup {Zero} : Len(path[h]) \in Nat /\ Len(path[h]) <= m
  <2>1. \A h \in DOMAIN bs : Len(path[h]) \in Nat
    BY ForestFacts
  <2>2. Len(path[Zero]) = 0
    BY EmptySeq DEF Forest
  <2> QED BY <1>3, <2>1, <2>2
<1>5. \A h \in DOMAIN bs \cup {Zero} : f[h] = g[h]
  <2> DEFINE Bad == {h \in DOMAIN bs \cup {Zero} : f[h] # g[h]}
             D   == {m - Len(path[h]) : h \in Bad}
  <2> SUFFICES ASSUME Bad # {} PROVE FALSE
    OBVIOUS
  <2>1. D \subseteq Nat /\ D # {}
    BY <1>4
  <2>2. PICK k \in D : \A i \in D : k <= i
    <3> HIDE DEF D
    <3> QED BY <2>1, Store!LeastElement, StoreAssumption
  <2>3. PICK h \in Bad : k = m - Len(path[h])
    BY <2>2
  <2>4. ASSUME NEW c \in ChildrenOf(bs, h) PROVE f[c] = g[c]
    <3> SUFFICES ASSUME f[c] # g[c] PROVE FALSE
      OBVIOUS
    <3>1. c \in Bad
      BY ChildrenAreStored
    <3>2. m - Len(path[c]) \in D
      BY <3>1
    <3>3. Len(path[c]) = Len(path[h]) + 1
      BY <2>3, ChildIsBelow
    <3>4. k <= m - Len(path[c]) /\ Len(path[h]) \in Nat
      BY <1>4, <2>2, <2>3, <3>2
    <3> QED BY <1>4, <2>3, <3>3, <3>4
  <2>5. h \in Hash \cup {Zero} /\ f[h] # g[h]
    BY <2>3, ChildrenAreStored
  <2> QED BY <1>2, <2>4, <2>5
<1>6. ASSUME NEW h \in Hash \cup {Zero} PROVE f[h] = g[h]
  <2>1. \A c \in ChildrenOf(bs, h) : c \in DOMAIN bs
    BY ChildrenAreStored
  <2> QED BY <1>2, <1>5, <2>1
<1> QED BY <1>1, <1>6

(* find_longest_branch() from "0" is the longest chain, "0" before it. *)
LEMMA LongestBranchIsFound ==
  ASSUME NEW bs, NEW path, Forest(bs, path)
  PROVE  Tail(FindLongestBranch(BranchMap(bs), Zero))
           = Store!LongestBranch(Paths(bs, path))
<1> DEFINE bm == BranchMap(bs)
           branch == CHOOSE f : f = [h \in Hash \cup {Zero} |->
                       <<h>> \o Winner({f[c] : c \in Children(bm, h)})]
           w == BestBranch(bs, path)
<1>1. FindLongestBranch(bm, Zero) = branch[Zero]
  BY DEF FindLongestBranch
<1>2. \A f : f = [h \in Hash \cup {Zero} |->
                    <<h>> \o Winner({f[c] : c \in Children(bm, h)})]
               <=> IsBranch(f, bs)
  BY ChildrenFacts DEF IsBranch
<1>3. branch = w
  <2>1. IsBranch(w, bs)
    BY BranchExists
  <2>2. IsBranch(branch, bs)
    BY <1>2, <2>1
  <2> HIDE DEF branch, w
  <2> QED BY <2>1, <2>2, BranchIsUnique
<1> HIDE DEF branch
<1>4. branch[Zero] = <<Zero>> \o Rest(bs, path, Zero)
  BY <1>3 DEF BestBranch
<1>5. PICK b : b = Store!LongestBranch(Paths(bs, path))
  OBVIOUS
<1>6. Rest(bs, path, Zero) = SubSeq(b, 1, Len(b))
  <2>1. path[Zero] = <<>> /\ Len(<<>>) = 0
    BY EmptySeq DEF Forest
  <2>2. \A x : SubSeq(x, 1, 0) = <<>>
    BY SubSeqEmpty
  <2>3. \A x \in Paths(bs, path) : Len(x) > 0
    BY ForestFacts DEF Paths
  <2>4. Below(bs, path, Zero) = Paths(bs, path)
    BY <2>1, <2>2, <2>3 DEF Below
  <2> QED BY <1>5, <2>1, <2>4 DEF Rest, Drop, Best
<1>7. b \in Seq(Hash)
  <2>1. CASE Paths(bs, path) = {}
    BY <1>5, <2>1, EmptySeq DEF Store!LongestBranch
  <2>2. CASE Paths(bs, path) # {}
    <3>1. PICK m \in Nat : \A x \in Paths(bs, path) : Len(x) <= m
      BY DEF Forest, Paths
    <3>2. Paths(bs, path) \subseteq Store!Path
      BY DEF Forest, Paths
    <3>3. b \in Paths(bs, path)
      BY <1>5, <2>2, <3>1, <3>2, BestExists
    <3> QED BY <3>3, ForestFacts DEF Paths
  <2> QED BY <2>1, <2>2
<1>8. SubSeq(b, 1, Len(b)) = b
  BY <1>7, SubSeqFull
<1>9. Tail(<<Zero>> \o b) = b
  <2>1. /\ <<Zero>> \in Seq(Nat) /\ Len(<<Zero>>) = 1 /\ b \in Seq(Nat)
        /\ Len(b) \in Nat
    <3>1. Zero \in Nat
      BY DEF Zero
    <3>2. b \in Seq(Nat)
      BY <1>7, StoreAssumption, SeqMonotonic
    <3> QED BY <1>7, <3>1, <3>2, LenProperties
  <2>2. PICK s : s = <<Zero>> \o b
    OBVIOUS
  <2>3. /\ s \in Seq(Nat) /\ Len(s) = 1 + Len(b)
        /\ \A i \in 1 .. 1 + Len(b) : s[i] = IF i <= 1 THEN <<Zero>>[i] ELSE b[i - 1]
    BY <2>1, <2>2, ConcatProperties
  <2>4. s # <<>>
    BY <2>1, <2>3, EmptySeq
  <2>5. /\ Tail(s) \in Seq(Nat) /\ Len(Tail(s)) = Len(s) - 1
        /\ \A i \in 1 .. Len(Tail(s)) : Tail(s)[i] = s[i + 1]
    BY <2>3, <2>4, HeadTailProperties
  <2>6. Len(Tail(s)) = Len(b) /\ \A i \in 1 .. Len(b) : Tail(s)[i] = b[i]
    BY <2>1, <2>3, <2>5
  <2> QED BY <2>1, <2>2, <2>5, <2>6, SeqEqual
<1> QED BY <1>1, <1>3, <1>4, <1>5, <1>6, <1>8, <1>9

-----------------------------------------------------------------------------
(* Pruning *)

(* The hashes of the blocks that a chain beats for good; the worklist      *)
(* starts from the first of them on each branch.                           *)
Beaten(bs, path, chain) ==
  {h \in DOMAIN bs : path[h] \in Store!Losers(Paths(bs, path), chain, N)}
FirstBeaten(bs, chain) ==
  UNION {ChildrenOf(bs, chain[i]) \ ToSet(chain) : i \in 1 .. Len(chain) - N}
Closed(bs, X) == \A x \in X : ChildrenOf(bs, x) \subseteq X

(* The blocks of a chain, by their positions. *)
LEMMA ChainFacts ==
  ASSUME NEW bs, NEW path, Forest(bs, path), NEW chain \in Paths(bs, path)
  PROVE  /\ chain \in Store!Path /\ chain \in Seq(Hash)
         /\ Len(chain) \in Nat /\ Len(chain) >= 1
         /\ N \in Nat \ {0}
         /\ ToSet(chain) = {chain[i] : i \in 1 .. Len(chain)}
         /\ \A i \in 1 .. Len(chain) :
              /\ chain[i] \in DOMAIN bs
              /\ path[chain[i]] = SubSeq(chain, 1, i)
              /\ Len(path[chain[i]]) = i
<1>1. PICK t \in DOMAIN bs : chain = path[t]
  BY DEF Paths
<1>2. /\ chain \in Store!Path /\ chain \in Seq(Hash)
      /\ Len(chain) \in Nat /\ Len(chain) >= 1
  BY <1>1, ForestFacts
<1>3. DOMAIN chain = 1 .. Len(chain)
  BY <1>2, LenProperties
<1>4. \A i \in 1 .. Len(chain) :
        /\ chain[i] \in DOMAIN bs
        /\ path[chain[i]] = SubSeq(chain, 1, i)
        /\ Len(path[chain[i]]) = i
  BY <1>1, PrefixIsPath
<1> QED BY <1>2, <1>3, <1>4, DepthAssumption DEF ToSet, N

LEMMA FirstAreBeaten ==
  ASSUME NEW bs, NEW path, Forest(bs, path), NEW chain \in Paths(bs, path)
  PROVE  FirstBeaten(bs, chain) \subseteq Beaten(bs, path, chain)
<1> SUFFICES ASSUME NEW i \in 1 .. Len(chain) - N,
                    NEW h \in ChildrenOf(bs, chain[i]) \ ToSet(chain)
             PROVE  h \in Beaten(bs, path, chain)
  BY DEF FirstBeaten
<1>1. /\ chain \in Seq(Hash) /\ Len(chain) \in Nat /\ N \in Nat \ {0}
      /\ ToSet(chain) = {chain[j] : j \in 1 .. Len(chain)}
  BY ChainFacts
<1>2. i \in 1 .. Len(chain) /\ i + 1 \in 1 .. Len(chain) /\ i \in Nat
  BY <1>1
<1>3. /\ chain[i] \in DOMAIN bs
      /\ path[chain[i]] = SubSeq(chain, 1, i)
      /\ Len(path[chain[i]]) = i
  BY <1>2, ChainFacts
<1>4. h \in DOMAIN bs /\ bs[h] = chain[i] /\ h # chain[i + 1]
  BY <1>1, <1>2 DEF ChildrenOf
<1>5. /\ path[h] \in Seq(Hash) /\ Len(path[h]) = i + 1
      /\ path[h][i + 1] = h /\ path[chain[i]] \in Seq(Hash)
      /\ \A j \in 1 .. i : path[h][j] = path[chain[i]][j]
  <2>1. /\ path[h] \in Seq(Hash) /\ path[bs[h]] \in Seq(Hash)
        /\ Len(path[h]) = Len(path[bs[h]]) + 1
        /\ path[h][Len(path[h])] = h
        /\ \A j \in 1 .. Len(path[bs[h]]) : path[h][j] = path[bs[h]][j]
    BY <1>4, ForestFacts
  <2>2. bs[h] = chain[i] /\ Len(path[bs[h]]) = i
    BY <1>3, <1>4
  <2> QED BY <2>1, <2>2
<1>6. SubSeq(path[h], 1, i) = SubSeq(chain, 1, i)
  <2>1. SubSeq(path[chain[i]], 1, i) = path[chain[i]]
    BY <1>3, <1>5, SubSeqFull
  <2>2. SubSeq(path[h], 1, i) = SubSeq(path[chain[i]], 1, i)
    <3>1. i <= Len(path[h]) /\ i <= Len(path[chain[i]])
      BY <1>2, <1>3, <1>5
    <3> QED BY <1>2, <1>5, <3>1, Store!CommonPrefix, StoreAssumption
  <2> QED BY <1>3, <2>1, <2>2
<1>7. Store!ForksAfter(path[h], chain, i)
  BY <1>2, <1>4, <1>5, <1>6 DEF Store!ForksAfter
<1>8. path[h] \in Paths(bs, path)
  BY <1>4 DEF Paths
<1> QED BY <1>4, <1>7, <1>8 DEF Beaten, Store!Losers

LEMMA BeatenAreClosed ==
  ASSUME NEW bs, NEW path, Forest(bs, path), NEW chain \in Paths(bs, path)
  PROVE  Closed(bs, Beaten(bs, path, chain))
<1> SUFFICES ASSUME NEW x \in Beaten(bs, path, chain), NEW h \in ChildrenOf(bs, x)
             PROVE  h \in Beaten(bs, path, chain)
  BY DEF Closed
<1>1. h \in DOMAIN bs /\ bs[h] = x
  BY DEF ChildrenOf
<1>2. PICK P : P = Paths(bs, path)
  OBVIOUS
<1>3. PICK c \in P : c = path[h]
  BY <1>1, <1>2 DEF Paths
<1>4. P \in SUBSET Store!Path /\ chain \in Store!Path
  BY <1>2, ChainFacts DEF Paths, Forest
<1>5. Store!Front(c) = path[x]
  BY <1>1, <1>3, ForestFacts
<1>6. path[x] \in Store!Losers(P, chain, Store!N)
  BY <1>2, SameTerms DEF Beaten
<1>7. c \in Store!Losers(P, chain, Store!N)
  BY <1>4, <1>5, <1>6, Store!LosersTakeDescendants, StoreAssumption
<1> QED BY <1>1, <1>2, <1>3, <1>7, SameTerms DEF Beaten

LEMMA BeatenAreReached ==
  ASSUME NEW bs, NEW path, Forest(bs, path), NEW chain \in Paths(bs, path),
         NEW X, FirstBeaten(bs, chain) \subseteq X, Closed(bs, X)
  PROVE  Beaten(bs, path, chain) \subseteq X
<1> SUFFICES ASSUME NEW h \in Beaten(bs, path, chain)
             PROVE  h \in X
  OBVIOUS
<1>1. PICK k \in 1 .. Len(chain) - N : Store!ForksAfter(path[h], chain, k)
  BY DEF Beaten, Store!Losers
<1>2. /\ chain \in Seq(Hash) /\ Len(chain) \in Nat /\ N \in Nat \ {0}
      /\ ToSet(chain) = {chain[j] : j \in 1 .. Len(chain)}
  BY ChainFacts
<1>3. h \in DOMAIN bs /\ k \in Nat /\ k \in 1 .. Len(chain)
  BY <1>2 DEF Beaten
<1>4. PICK p : p = path[h]
  OBVIOUS
<1>5. p \in Seq(Hash) /\ Len(p) \in Nat /\ Len(p) >= 1 /\ p[Len(p)] = h
  BY <1>3, <1>4, ForestFacts
<1>6. /\ k + 1 \in 1 .. Len(p) /\ k \in 1 .. Len(p)
      /\ SubSeq(p, 1, k) = SubSeq(chain, 1, k)
      /\ p[k + 1] # chain[k + 1]
  BY <1>1, <1>3, <1>4, <1>5 DEF Store!ForksAfter
<1>7. p[k] = chain[k]
  <2>1. k <= Len(p) /\ k <= Len(chain) /\ k \in 1 .. k
    BY <1>2, <1>3, <1>5, <1>6
  <2> QED BY <1>2, <1>3, <1>5, <1>6, <2>1, Store!CommonPrefix, StoreAssumption
<1>8. \A i \in 1 .. Len(p) : /\ p[i] \in DOMAIN bs
                             /\ path[p[i]] = SubSeq(p, 1, i)
                             /\ Len(path[p[i]]) = i
  BY <1>3, <1>4, PrefixIsPath
<1>9. ASSUME NEW i \in 1 .. Len(p) - 1 PROVE p[i + 1] \in ChildrenOf(bs, p[i])
  <2>1. i \in 1 .. Len(p) /\ i + 1 \in 1 .. Len(p) /\ i \in Nat
    BY <1>5
  <2>2. PICK c \in DOMAIN bs : c = p[i + 1]
    BY <1>8, <2>1
  <2>3. path[c] = SubSeq(p, 1, i + 1) /\ Len(path[c]) = i + 1
    BY <1>8, <2>1, <2>2
  <2>4. /\ path[bs[c]] \in Seq(Hash) /\ Len(path[bs[c]]) = i
        /\ \A j \in 1 .. i : path[c][j] = path[bs[c]][j]
    <3>1. /\ path[bs[c]] \in Seq(Hash) /\ Len(path[bs[c]]) \in Nat
          /\ Len(path[c]) = Len(path[bs[c]]) + 1
          /\ \A j \in 1 .. Len(path[bs[c]]) : path[c][j] = path[bs[c]][j]
      BY ForestFacts
    <3>2. Len(path[bs[c]]) = i
      BY <2>1, <2>3, <3>1
    <3> QED BY <3>1, <3>2
  <2>5. \A j \in 1 .. i + 1 : path[c][j] = p[j]
    <3>1. i + 1 \in 0 .. Len(p)
      BY <2>1
    <3> QED BY <1>5, <2>3, <3>1, Store!PrefixElements, StoreAssumption
  <2>6. bs[c] \in DOMAIN bs
    <3>1. bs[c] # Zero
      BY <2>1, <2>4, EmptySeq DEF Forest
    <3> QED BY <3>1 DEF Forest
  <2>7. bs[c] = path[bs[c]][i]
    BY <2>4, <2>6, ForestFacts
  <2>8. path[bs[c]][i] = p[i]
    <3>1. i \in 1 .. i /\ i \in 1 .. i + 1
      BY <2>1
    <3> QED BY <2>4, <2>5, <3>1
  <2> QED BY <2>2, <2>7, <2>8 DEF ChildrenOf
<1>10. p[k + 1] \notin ToSet(chain)
  <2> SUFFICES ASSUME NEW j \in 1 .. Len(chain), p[k + 1] = chain[j]
               PROVE  FALSE
    BY <1>2
  <2>1. Len(path[p[k + 1]]) = k + 1
    BY <1>6, <1>8
  <2>2. Len(path[chain[j]]) = j
    BY ChainFacts
  <2>3. j = k + 1
    BY <2>1, <2>2
  <2> QED BY <1>6, <2>3
<1>11. p[k + 1] \in FirstBeaten(bs, chain)
  <2>1. k \in 1 .. Len(p) - 1
    BY <1>5, <1>6
  <2>2. p[k + 1] \in ChildrenOf(bs, chain[k])
    BY <1>7, <1>9, <2>1
  <2> QED BY <1>10, <2>2 DEF FirstBeaten
<1>12. \A i \in k + 1 .. Len(p) : p[i] \in X
  <2> DEFINE D == {i \in k + 1 .. Len(p) : p[i] \notin X}
  <2> SUFFICES ASSUME D # {} PROVE FALSE
    OBVIOUS
  <2>1. PICK i \in D : \A j \in D : i <= j
    <3>1. D \subseteq Nat
      BY <1>3, <1>5
    <3> HIDE DEF D
    <3> QED BY <3>1, Store!LeastElement, StoreAssumption
  <2>2. p[k + 1] \in X
    BY <1>11
  <2>3. i \in k + 1 .. Len(p) /\ p[i] \notin X /\ i # k + 1
    BY <2>1, <2>2
  <2>4. i - 1 \in k + 1 .. Len(p) /\ i - 1 \in 1 .. Len(p) - 1 /\ i - 1 + 1 = i
    BY <1>3, <1>5, <2>3
  <2>5. p[i - 1] \in X
    <3> SUFFICES ASSUME p[i - 1] \notin X PROVE FALSE
      OBVIOUS
    <3>1. i - 1 \in D
      BY <2>4
    <3> QED BY <1>3, <1>5, <2>1, <2>3, <3>1
  <2>6. p[i] \in ChildrenOf(bs, p[i - 1])
    BY <1>9, <2>4
  <2> QED BY <2>3, <2>5, <2>6 DEF Closed
<1>13. Len(p) \in k + 1 .. Len(p)
  BY <1>3, <1>5, <1>6
<1> QED BY <1>5, <1>12, <1>13

(* A set with 0 that has the successor of each of its numbers below n has  *)
(* every number up to n.                                                   *)
LEMMA UpTo ==
  ASSUME NEW n \in Nat, NEW D, 0 \in D, \A i \in 1 .. n : i - 1 \in D => i \in D
  PROVE  \A i \in 0 .. n : i \in D
<1> DEFINE Out == {i \in 0 .. n : i \notin D}
<1> SUFFICES ASSUME Out # {} PROVE FALSE
  OBVIOUS
<1>1. PICK j \in Out : \A i \in Out : j <= i
  <2>1. Out \subseteq Nat
    OBVIOUS
  <2> HIDE DEF Out
  <2> QED BY <2>1, Store!LeastElement, StoreAssumption
<1>2. j \in 1 .. n /\ j - 1 \in 0 .. n
  OBVIOUS
<1>3. j - 1 \notin Out
  BY <1>1, <1>2
<1> QED BY <1>2, <1>3

(* The turns of the worklist, one after the other. *)
IsWork(work, bm, losers, turns) ==
  work = [k \in 0 .. turns |->
            IF k = 0 THEN [losers |-> losers, bin |-> losers]
                     ELSE Turn(bm, work[k - 1])]

LEMMA WorkExists ==
  ASSUME NEW bm, NEW losers, NEW turns \in Nat
  PROVE  \E work : IsWork(work, bm, losers, turns)
<1> DEFINE D == {n \in 0 .. turns : \E work : IsWork(work, bm, losers, n)}
           start == [losers |-> losers, bin |-> losers]
<1>1. 0 \in D
  <2>1. IsWork([k \in 0 .. 0 |-> start], bm, losers, 0)
    BY DEF IsWork
  <2> QED BY <2>1
<1>2. ASSUME NEW n \in 1 .. turns, n - 1 \in D PROVE n \in D
  <2>1. PICK w : IsWork(w, bm, losers, n - 1)
    BY <1>2
  <2>2. PICK last : last = Turn(bm, w[n - 1])
    OBVIOUS
  <2> DEFINE v == [k \in 0 .. n |-> IF k = n THEN last ELSE w[k]]
  <2>3. ASSUME NEW k \in 0 .. n
        PROVE  v[k] = IF k = 0 THEN start ELSE Turn(bm, v[k - 1])
    <3>1. CASE k = 0
      <4>1. v[0] = w[0] /\ 0 \in 0 .. n - 1
        OBVIOUS
      <4>2. w[0] = start
        BY <2>1, <4>1 DEF IsWork
      <4> QED BY <3>1, <4>1, <4>2
    <3>2. CASE k = n
      <4>1. v[k] = last /\ v[k - 1] = w[n - 1] /\ k # 0
        BY <3>2
      <4> QED BY <2>2, <4>1
    <3>3. CASE k \in 1 .. n - 1
      <4>1. v[k] = w[k] /\ v[k - 1] = w[k - 1] /\ k # 0 /\ k \in 0 .. n - 1
        BY <3>3
      <4> HIDE DEF v, start
      <4>2. w[k] = Turn(bm, w[k - 1])
        BY <2>1, <4>1 DEF IsWork
      <4> QED BY <4>1, <4>2
    <3> QED BY <3>1, <3>2, <3>3
  <2>4. v = [k \in 0 .. n |-> v[k]]
    OBVIOUS
  <2> HIDE DEF v
  <2>5. IsWork(v, bm, losers, n)
    BY <2>3, <2>4 DEF IsWork
  <2> QED BY <2>5
<1> HIDE DEF D
<1>3. turns \in D
  <2>1. \A k \in 0 .. turns : k \in D
    BY <1>1, <1>2, UpTo
  <2> QED BY <2>1
<1> QED BY <1>3 DEF D

(* After k turns: what is in the bin belongs there, every block in it has  *)
(* its children there or is still on the list, and unless the list is      *)
(* empty k blocks have been taken off it.                                  *)
IsSwept(work, bs, first, all, k) ==
  /\ work.losers \subseteq work.bin
  /\ first \subseteq work.bin
  /\ work.bin \subseteq all
  /\ \A x \in work.bin \ work.losers : ChildrenOf(bs, x) \subseteq work.bin
  /\ work.losers = {} \/ Cardinality(work.bin \ work.losers) >= k

LEMMA TurnSweeps ==
  ASSUME NEW bs, IsFiniteSet(DOMAIN bs), NEW first, NEW all,
         all \subseteq DOMAIN bs, Closed(bs, all),
         NEW k \in Nat, NEW work, IsSwept(work, bs, first, all, k)
  PROVE  IsSwept(Turn(BranchMap(bs), work), bs, first, all, k + 1)
<1> DEFINE turned == Turn(BranchMap(bs), work)
<1>1. CASE work.losers = {}
  <2>1. turned = work
    BY <1>1 DEF Turn
  <2> QED BY <1>1, <2>1 DEF IsSwept
<1>2. CASE work.losers # {}
  <2>1. PICK h : h = CHOOSE x \in work.losers : TRUE
    OBVIOUS
  <2>2. PICK losers, bin : losers = work.losers /\ bin = work.bin
    OBVIOUS
  <2>3. PICK new : new = ChildrenOf(bs, h) \ bin
    OBVIOUS
  <2>4. h \in losers
    BY <1>2, <2>1, <2>2
  <2>5. turned = [losers |-> (losers \ {h}) \cup new, bin |-> bin \cup new]
    BY <1>2, <2>1, <2>2, <2>3, ChildrenFacts DEF Turn
  <2>6. turned.losers = (losers \ {h}) \cup new /\ turned.bin = bin \cup new
    BY <2>5
  <2>7. /\ losers \subseteq bin /\ first \subseteq bin /\ bin \subseteq all
        /\ \A x \in bin \ losers : ChildrenOf(bs, x) \subseteq bin
        /\ Cardinality(bin \ losers) >= k
    BY <1>2, <2>2 DEF IsSwept
  <2>8. new \subseteq all
    BY <2>3, <2>4, <2>7 DEF Closed
  <2>9. turned.bin \ turned.losers = (bin \ losers) \cup {h}
    BY <2>3, <2>4, <2>6, <2>7
  <2>10. Cardinality((bin \ losers) \cup {h}) >= k + 1
    <3>1. IsFiniteSet(bin \ losers)
      <4>1. bin \ losers \in SUBSET DOMAIN bs
        BY <2>7
      <4> QED BY <4>1, FS_Subset
    <3>2. PICK S : S = bin \ losers
      OBVIOUS
    <3>3. Cardinality(S \cup {h}) = Cardinality(S) + 1
      <4>1. h \notin S /\ IsFiniteSet(S)
        BY <2>4, <3>1, <3>2
      <4> QED BY <4>1, FS_AddElement
    <3>4. Cardinality(S) \in Nat
      BY <3>1, <3>2, FS_CardinalityType
    <3> QED BY <2>7, <3>2, <3>3, <3>4
  <2>11. ASSUME NEW x \in turned.bin \ turned.losers
         PROVE  ChildrenOf(bs, x) \subseteq turned.bin
    <3>1. CASE x = h
      BY <2>3, <2>6, <3>1
    <3>2. CASE x \in bin \ losers
      BY <2>6, <2>7, <3>2
    <3> QED BY <2>9, <3>1, <3>2
  <2> HIDE DEF turned
  <2>12. turned.losers \subseteq turned.bin
    BY <2>6, <2>7
  <2>13. first \subseteq turned.bin /\ turned.bin \subseteq all
    BY <2>6, <2>7, <2>8
  <2>14. Cardinality(turned.bin \ turned.losers) >= k + 1
    BY <2>9, <2>10
  <2>15. IsSwept(turned, bs, first, all, k + 1)
    BY <2>11, <2>12, <2>13, <2>14 DEF IsSwept
  <2> QED BY <2>15 DEF turned
<1> QED BY <1>1, <1>2

(* Every block of the branch map is the child of one. *)
LEMMA BlocksOfBranchMap ==
  ASSUME NEW bs
  PROVE  UNION Range(BranchMap(bs)) = DOMAIN bs
<1>1. DOMAIN BranchMap(bs) = {bs[c] : c \in DOMAIN bs}
  BY DEF BranchMap, Range
<1>2. \A p \in DOMAIN BranchMap(bs) :
        BranchMap(bs)[p] = {h \in DOMAIN bs : bs[h] = p}
  BY DEF BranchMap
<1>3. Range(BranchMap(bs)) = {BranchMap(bs)[p] : p \in DOMAIN BranchMap(bs)}
  BY DEF Range
<1>4. ASSUME NEW h \in DOMAIN bs PROVE h \in UNION Range(BranchMap(bs))
  <2>1. bs[h] \in DOMAIN BranchMap(bs)
    BY <1>1
  <2>2. h \in BranchMap(bs)[bs[h]]
    BY <1>2, <2>1
  <2> QED BY <1>3, <2>1, <2>2
<1>5. UNION Range(BranchMap(bs)) \subseteq DOMAIN bs
  BY <1>2, <1>3
<1> QED BY <1>4, <1>5

(* The sweep empties its list: it ends with a closed set. *)
LEMMA SweepFacts ==
  ASSUME NEW bs, IsFiniteSet(DOMAIN bs), NEW first, NEW all,
         all \subseteq DOMAIN bs, Closed(bs, all), first \subseteq all
  PROVE  /\ first \subseteq Sweep(BranchMap(bs), first)
         /\ Sweep(BranchMap(bs), first) \subseteq all
         /\ Closed(bs, Sweep(BranchMap(bs), first))
<1>1. PICK turns : turns = Cardinality(UNION Range(BranchMap(bs)))
  OBVIOUS
<1>2. turns = Cardinality(DOMAIN bs) /\ turns \in Nat
  BY <1>1, BlocksOfBranchMap, FS_CardinalityType
<1> DEFINE work == CHOOSE w : w = [k \in 0 .. turns |->
                     IF k = 0 THEN [losers |-> first, bin |-> first]
                              ELSE Turn(BranchMap(bs), w[k - 1])]
<1>3. Sweep(BranchMap(bs), first) = work[turns].bin
  BY <1>1 DEF Sweep
<1>4. IsWork(work, BranchMap(bs), first, turns)
  <2>1. work = CHOOSE w : IsWork(w, BranchMap(bs), first, turns)
    BY DEF IsWork
  <2>2. \E w : IsWork(w, BranchMap(bs), first, turns)
    BY <1>2, WorkExists
  <2> HIDE DEF work
  <2> QED BY <2>1, <2>2
<1> HIDE DEF work
<1>5. /\ work[0] = [losers |-> first, bin |-> first]
      /\ \A k \in 1 .. turns : work[k] = Turn(BranchMap(bs), work[k - 1])
  <2>1. 0 \in 0 .. turns
    BY <1>2
  <2>2. work[0] = [losers |-> first, bin |-> first]
    BY <1>4, <2>1 DEF IsWork
  <2>3. ASSUME NEW k \in 1 .. turns
        PROVE  work[k] = Turn(BranchMap(bs), work[k - 1])
    <3>1. k \in 0 .. turns /\ k # 0
      BY <1>2
    <3> QED BY <1>4, <3>1 DEF IsWork
  <2> QED BY <2>2, <2>3
<1> DEFINE D == {k \in 0 .. turns : IsSwept(work[k], bs, first, all, k)}
<1>6. 0 \in D
  <2>1. work[0].losers = first /\ work[0].bin = first
    BY <1>5
  <2>2. Cardinality(first \ first) >= 0
    <3>1. first \ first = {}
      OBVIOUS
    <3> QED BY <3>1, FS_EmptySet
  <2>3. IsSwept(work[0], bs, first, all, 0)
    BY <2>1, <2>2 DEF IsSwept
  <2> QED BY <1>2, <2>3
<1>7. ASSUME NEW k \in 1 .. turns, k - 1 \in D PROVE k \in D
  <2>1. k - 1 \in Nat /\ k - 1 + 1 = k /\ k \in 0 .. turns
    BY <1>2
  <2>2. IsSwept(work[k - 1], bs, first, all, k - 1)
    BY <1>7
  <2>3. IsSwept(Turn(BranchMap(bs), work[k - 1]), bs, first, all, k - 1 + 1)
    BY <2>1, <2>2, TurnSweeps
  <2> QED BY <1>5, <2>1, <2>3
<1>8. IsSwept(work[turns], bs, first, all, turns)
  <2> HIDE DEF D
  <2>1. \A k \in 0 .. turns : k \in D
    BY <1>2, <1>6, <1>7, UpTo
  <2>2. turns \in 0 .. turns
    BY <1>2
  <2>3. turns \in D
    BY <2>1, <2>2
  <2> QED BY <2>3 DEF D
<1>9. PICK losers, bin : losers = work[turns].losers /\ bin = work[turns].bin
  OBVIOUS
<1>10. /\ losers \subseteq bin /\ first \subseteq bin /\ bin \subseteq all
       /\ \A x \in bin \ losers : ChildrenOf(bs, x) \subseteq bin
       /\ losers = {} \/ Cardinality(bin \ losers) >= turns
  BY <1>8, <1>9 DEF IsSwept
<1>11. losers = {}
  <2> SUFFICES ASSUME NEW h \in losers PROVE FALSE
    OBVIOUS
  <2>1. PICK S : S = bin \ losers
    OBVIOUS
  <2>2. S \in SUBSET DOMAIN bs /\ h \in DOMAIN bs /\ h \notin S
    BY <1>10, <2>1
  <2>3. /\ Cardinality(S) \in Nat /\ Cardinality(S) <= Cardinality(DOMAIN bs)
        /\ Cardinality(S) = Cardinality(DOMAIN bs) => DOMAIN bs = S
    BY <2>2, FS_Subset, FS_CardinalityType
  <2>4. Cardinality(S) >= turns
    BY <1>10, <2>1
  <2> QED BY <1>2, <2>2, <2>3, <2>4
<1> QED BY <1>3, <1>9, <1>10, <1>11 DEF Closed

(* prune() removes exactly the blocks that the chain beats for good. *)
LEMMA BinIsBeaten ==
  ASSUME NEW bs, NEW path, Forest(bs, path), NEW chain \in Paths(bs, path)
  PROVE  Bin(BranchMap(bs), chain) = Beaten(bs, path, chain)
<1>1. IsFiniteSet(DOMAIN bs)
  BY DEF Forest
<1>2. PICK first, all : first = FirstBeaten(bs, chain)
                        /\ all = Beaten(bs, path, chain)
  OBVIOUS
<1>3. all \subseteq DOMAIN bs /\ Closed(bs, all) /\ first \subseteq all
  BY <1>2, BeatenAreClosed, FirstAreBeaten DEF Beaten
<1>4. Bin(BranchMap(bs), chain)
        = IF Len(chain) < N THEN {} ELSE Sweep(BranchMap(bs), first)
  <2>1. first = UNION {Children(BranchMap(bs), chain[i]) \ ToSet(chain) :
                         i \in 1 .. Len(chain) - N}
    BY <1>2, ChildrenFacts DEF FirstBeaten
  <2> QED BY <2>1 DEF Bin
<1>5. CASE Len(chain) < N
  <2>1. Len(chain) \in Nat /\ N \in Nat
    BY ChainFacts
  <2>2. 1 .. Len(chain) - N = {}
    BY <1>5, <2>1
  <2>3. all = {}
    BY <1>2, <2>2 DEF Beaten, Store!Losers
  <2> QED BY <1>2, <1>4, <1>5, <2>3
<1>6. CASE ~(Len(chain) < N)
  <2>1. PICK X : X = Sweep(BranchMap(bs), first)
    OBVIOUS
  <2>2. first \subseteq X /\ X \subseteq all /\ Closed(bs, X)
    BY <1>1, <1>3, <2>1, SweepFacts
  <2>3. all \subseteq X
    BY <1>2, <2>2, BeatenAreReached
  <2> QED BY <1>2, <1>4, <1>6, <2>1, <2>2, <2>3
<1> QED BY <1>5, <1>6

-----------------------------------------------------------------------------
(* Paths of the blocks ever stored *)

(* A solution of the recursion of PathTo. *)
IsPathFunction(path, par) ==
  path = [h \in DOMAIN par \cup {Zero} |->
            IF h = Zero THEN <<>> ELSE Append(path[par[h]], h)]

LEMMA PathFunctionIsUnique ==
  ASSUME NEW par, NEW f, Forest(par, f), IsPathFunction(f, par),
         NEW g, IsPathFunction(g, par)
  PROVE  f = g
<1>1. /\ f = [h \in DOMAIN par \cup {Zero} |-> f[h]]
      /\ g = [h \in DOMAIN par \cup {Zero} |-> g[h]]
  BY DEF IsPathFunction
<1>2. \A h \in DOMAIN par \cup {Zero} : f[h] = g[h]
  <2> DEFINE Bad == {h \in DOMAIN par \cup {Zero} : f[h] # g[h]}
             D   == {Len(f[h]) : h \in Bad}
  <2> SUFFICES ASSUME Bad # {} PROVE FALSE
    OBVIOUS
  <2>1. f[Zero] = <<>> /\ g[Zero] = <<>>
    BY DEF IsPathFunction
  <2>2. \A h \in Bad : h \in DOMAIN par
    BY <2>1
  <2>3. D \subseteq Nat /\ D # {}
    <3>1. \A h \in DOMAIN par : Len(f[h]) \in Nat
      BY ForestFacts
    <3> QED BY <2>2, <3>1
  <2>4. PICK k \in D : \A i \in D : k <= i
    <3> HIDE DEF D
    <3> QED BY <2>3, Store!LeastElement, StoreAssumption
  <2>5. PICK h \in Bad : k = Len(f[h])
    BY <2>4
  <2>6. h \in DOMAIN par /\ h # Zero /\ f[h] # g[h]
    BY <2>2, <2>5, ForestFacts
  <2>7. Len(f[h]) = Len(f[par[h]]) + 1 /\ Len(f[par[h]]) \in Nat
    BY <2>6, ForestFacts
  <2>8. f[par[h]] = g[par[h]]
    <3> SUFFICES ASSUME f[par[h]] # g[par[h]] PROVE FALSE
      OBVIOUS
    <3>1. par[h] \in Bad
      BY <2>6 DEF Forest
    <3>2. Len(f[par[h]]) \in D
      BY <3>1
    <3>3. k <= Len(f[par[h]])
      BY <2>4, <3>2
    <3> QED BY <2>5, <2>7, <3>3
  <2>9. f[h] = Append(f[par[h]], h) /\ g[h] = Append(g[par[h]], h)
    BY <2>6 DEF IsPathFunction
  <2> QED BY <2>6, <2>8, <2>9
<1> QED BY <1>1, <1>2

(* A new block on a known one, or on "0", gets a path; the others keep     *)
(* theirs.                                                                 *)
Grown(par, path, h, prev) ==
  [x \in (DOMAIN par \cup {h}) \cup {Zero} |->
     IF x = h THEN Append(path[prev], h) ELSE path[x]]

LEMMA NewPath ==
  ASSUME NEW par, NEW path, Forest(par, path),
         NEW h \in Hash \ DOMAIN par, NEW prev \in DOMAIN par \cup {Zero},
         prev = Zero => h \in Root
  PROVE  /\ path[prev] \in Seq(Hash)
         /\ Append(path[prev], h) \in Store!Path
         /\ Len(path[prev]) \in Nat
         /\ Len(Append(path[prev], h)) = Len(path[prev]) + 1
         /\ Store!Front(Append(path[prev], h)) = path[prev]
         /\ Store!BlockHash(Append(path[prev], h)) = h
<1>1. path[prev] \in Seq(Hash) /\ (path[prev] = <<>> <=> prev = Zero)
  <2>1. CASE prev = Zero
    BY <2>1, EmptySeq DEF Forest
  <2>2. CASE prev \in DOMAIN par
    <3>1. prev # Zero /\ path[prev] \in Store!Path
      BY <2>2, ForestFacts
    <3>2. path[prev] \in Seq(Hash) /\ path[prev] # <<>>
      BY <3>1, Store!PathFacts, StoreAssumption
    <3> QED BY <3>1, <3>2
  <2> QED BY <2>1, <2>2
<1>2. PICK p \in Seq(Hash) : p = path[prev]
  BY <1>1
<1>3. PICK b : b = Append(p, h)
  OBVIOUS
<1>4. /\ b \in Seq(Hash) /\ b # <<>> /\ Len(p) \in Nat /\ Len(b) = Len(p) + 1
      /\ Head(b) = IF p = <<>> THEN h ELSE Head(p)
  BY <1>3, AppendProperties, LenProperties, HeadTailAppend
<1>5. Store!RootOf(b) \in Root
  <2>1. CASE prev = Zero
    BY <1>1, <1>2, <1>4, <2>1 DEF Store!RootOf
  <2>2. CASE prev \in DOMAIN par
    <3>1. prev # Zero /\ p \in Store!Path
      BY <1>2, <2>2, ForestFacts
    <3>2. Store!RootOf(p) \in Root /\ p # <<>>
      BY <3>1, Store!PathFacts, StoreAssumption
    <3> QED BY <1>4, <3>2 DEF Store!RootOf
  <2> QED BY <2>1, <2>2
<1>6. b \in Store!Path
  BY <1>4, <1>5 DEF Store!Path
<1>7. Store!Front(b) = p /\ Store!Last(b) = h
  BY <1>3, Store!FrontOfAppend, StoreAssumption
<1> QED BY <1>2, <1>3, <1>4, <1>6, <1>7 DEF Store!BlockHash

LEMMA ForestGrows ==
  ASSUME NEW par, NEW path, Forest(par, path), IsPathFunction(path, par),
         NEW h \in Hash \ DOMAIN par, NEW prev \in DOMAIN par \cup {Zero},
         prev = Zero => h \in Root
  PROVE  /\ Forest(Put(par, h, prev), Grown(par, path, h, prev))
         /\ IsPathFunction(Grown(par, path, h, prev), Put(par, h, prev))
<1>1. PICK par2, path2 : /\ par2 = Put(par, h, prev)
                         /\ path2 = Grown(par, path, h, prev)
  OBVIOUS
<1>2. /\ DOMAIN par2 = DOMAIN par \cup {h} /\ par2[h] = prev
      /\ \A x \in DOMAIN par : par2[x] = par[x]
  BY <1>1 DEF Put
<1>3. h # Zero /\ \A x \in DOMAIN par : x # h /\ x # Zero
  BY ZeroAssumption, ForestFacts
<1>4. /\ path2 = [x \in DOMAIN par2 \cup {Zero} |-> path2[x]]
      /\ path2[h] = Append(path[prev], h)
      /\ \A x \in DOMAIN par \cup {Zero} : path2[x] = path[x]
  BY <1>1, <1>2, <1>3 DEF Grown
<1>5. /\ path2[h] \in Store!Path
      /\ Len(path[prev]) \in Nat /\ Len(path2[h]) = Len(path[prev]) + 1
  <2>1. /\ Append(path[prev], h) \in Store!Path
        /\ Len(path[prev]) \in Nat
        /\ Len(Append(path[prev], h)) = Len(path[prev]) + 1
    BY NewPath
  <2> QED BY <1>4, <2>1
<1>6. \A x \in DOMAIN par : /\ par[x] \in DOMAIN par \cup {Zero}
                            /\ path[x] \in Store!Path
                            /\ path[x] = Append(path[par[x]], x)
  BY DEF Forest
<1>7. ASSUME NEW x \in DOMAIN par2
      PROVE  /\ par2[x] \in DOMAIN par2 \cup {Zero}
             /\ path2[x] \in Store!Path
             /\ path2[x] = Append(path2[par2[x]], x)
  <2>1. CASE x = h
    BY <1>2, <1>4, <1>5, <2>1
  <2>2. CASE x \in DOMAIN par
    <3>1. path2[x] = path[x] /\ path2[par2[x]] = path[par[x]]
      BY <1>2, <1>4, <1>6, <2>2
    <3> QED BY <1>2, <1>6, <2>2, <3>1
  <2> QED BY <1>2, <2>1, <2>2
<1>8. path2[Zero] = <<>>
  BY <1>4 DEF Forest
<1>9. \E m \in Nat : \A x \in DOMAIN par2 : Len(path2[x]) <= m
  <2>1. PICK m \in Nat : \A x \in DOMAIN par : Len(path[x]) <= m
    BY DEF Forest
  <2>2. Len(path[prev]) <= m
    <3>1. Len(path[Zero]) = 0
      BY EmptySeq DEF Forest
    <3> QED BY <2>1, <3>1
  <2>3. \A x \in DOMAIN par : Len(path[x]) \in Nat
    BY ForestFacts
  <2>4. ASSUME NEW x \in DOMAIN par2 PROVE Len(path2[x]) <= m + 1
    <3>1. CASE x = h
      BY <1>5, <2>2, <3>1
    <3>2. CASE x \in DOMAIN par
      <4>1. path2[x] = path[x]
        BY <1>4, <3>2
      <4> QED BY <2>1, <2>3, <3>2, <4>1
    <3> QED BY <1>2, <3>1, <3>2
  <2> QED BY <2>4
<1>10. IsFiniteSet(DOMAIN par2) /\ DOMAIN par2 \subseteq Hash
  BY <1>2, FS_AddElement DEF Forest
<1>11. Forest(par2, path2)
  BY <1>7, <1>8, <1>9, <1>10 DEF Forest
<1>12. ASSUME NEW x \in DOMAIN par2 \cup {Zero}
       PROVE  path2[x] = IF x = Zero THEN <<>> ELSE Append(path2[par2[x]], x)
  BY <1>2, <1>3, <1>7, <1>8
<1>13. IsPathFunction(path2, par2)
  BY <1>4, <1>12 DEF IsPathFunction
<1> QED BY <1>1, <1>11, <1>13

-----------------------------------------------------------------------------
(* Executing *)

(* The loop of execute_transactions() runs over a stretch of the chain. *)
LEMMA ExecuteIsExecute ==
  ASSUME NEW chain \in Seq(Hash), commited_pointer \in Nat,
         ExecuteTransactions(chain)
  PROVE  Store!ExecuteTransactions(chain)
<1>1. PICK stop, cp : stop = SatSub(Len(chain), N) /\ cp = commited_pointer
  OBVIOUS
<1>2. /\ Len(chain) \in Nat /\ N \in Nat /\ cp \in Nat
      /\ stop \in Nat /\ stop <= Len(chain)
  BY <1>1, LenProperties, DepthAssumption DEF SatSub, N
<1>3. PICK n : n = SatSub(stop, cp)
  OBVIOUS
<1>4. n \in Nat /\ (cp + n <= Len(chain) \/ n = 0)
  BY <1>2, <1>3 DEF SatSub
<1>5. Cardinality(cp + 1 .. stop) = n
  <2>1. Cardinality(cp + 1 .. stop)
          = IF cp + 1 > stop THEN 0 ELSE stop - (cp + 1) + 1
    BY <1>2, FS_Interval
  <2> QED BY <1>2, <1>3, <2>1 DEF SatSub
<1>6. [i \in 1 .. n |-> chain[cp + i]] = SubSeq(chain, cp + 1, stop)
  <2>1. \A i \in cp + 1 .. stop : chain[i] \in Hash
    BY <1>2, ElementOfSeq
  <2>2. PICK s : s = SubSeq(chain, cp + 1, stop)
    OBVIOUS
  <2>3. /\ s \in Seq(Hash)
        /\ Len(s) = IF cp + 1 <= stop THEN stop - (cp + 1) + 1 ELSE 0
        /\ \A i \in 1 .. stop - (cp + 1) + 1 : s[i] = chain[cp + 1 + i - 1]
    BY <1>2, <2>1, <2>2, SubSeqProperties
  <2>4. Len(s) = n
    BY <1>2, <1>3, <2>3 DEF SatSub
  <2>5. \A i \in 1 .. n : s[i] = chain[cp + i]
    <3> SUFFICES ASSUME NEW i \in 1 .. n PROVE s[i] = chain[cp + i]
      OBVIOUS
    <3>1. i \in 1 .. stop - (cp + 1) + 1 /\ cp + 1 + i - 1 = cp + i
      BY <1>2, <1>3 DEF SatSub
    <3> QED BY <2>3, <3>1
  <2>6. s = [i \in 1 .. n |-> s[i]]
    BY <2>3, <2>4, LenProperties
  <2> QED BY <2>2, <2>5, <2>6
<1>7. /\ executed' = executed \o [i \in 1 .. n |-> chain[cp + i]]
      /\ commited_pointer' = cp + n
  BY <1>1, <1>5 DEF ExecuteTransactions
<1>8. /\ executed' = executed \o SubSeq(chain, commited_pointer + 1, stop)
      /\ commited_pointer' = commited_pointer + Store!SatSub(stop, commited_pointer)
  BY <1>1, <1>3, <1>6, <1>7, SameTerms
<1>9. stop = Store!SatSub(Len(chain), Store!N)
  BY <1>1, SameTerms
<1> QED BY <1>8, <1>9 DEF Store!ExecuteTransactions

-----------------------------------------------------------------------------
(* The refinement *)

(* The inductive invariant: the blocks ever stored are a forest, PathTo    *)
(* has their paths, those that are not pruned are in blocks as they were   *)
(* pushed, and the paths satisfy the invariant of BlockTree.               *)
FInv ==
  /\ Forest(parent, PathTo)
  /\ IsPathFunction(PathTo, parent)
  /\ DOMAIN parent = Stored \cup pruned
  /\ \A h \in Stored : blocks[h] = parent[h]
  /\ Store!IInv

(* The parent of a stored block is stored. *)
LEMMA ParentsStored ==
  ASSUME FInv, NEW h \in Stored
  PROVE  blocks[h] \in Stored \cup {Zero}
<1>1. Forest(parent, PathTo) /\ h \in DOMAIN parent /\ blocks[h] = parent[h]
  BY DEF FInv
<1>2. parent[h] \in DOMAIN parent \cup {Zero}
  BY <1>1 DEF Forest
<1>3. Store!Front(PathTo[h]) = PathTo[parent[h]]
  BY <1>1, ForestFacts
<1>4. PathTo[h] \in StoredPaths
  BY DEF StoredPaths
<1>5. PathTo[parent[h]] = <<>> \/ PathTo[parent[h]] \in StoredPaths
  BY <1>3, <1>4
  DEF FInv, Store!IInv, Store!AncestorsStored, Store!HasPreviousBlock
<1>6. CASE PathTo[parent[h]] = <<>>
  <2>1. PathTo[Zero] = PathTo[parent[h]]
    BY <1>1, <1>6 DEF Forest
  <2>2. parent[h] = Zero
    BY <1>1, <1>2, <2>1, OnePath
  <2> QED BY <1>1, <2>2
<1>7. CASE PathTo[parent[h]] \in StoredPaths
  <2>1. PICK g \in Stored : PathTo[g] = PathTo[parent[h]]
    BY <1>7 DEF StoredPaths
  <2>2. g \in DOMAIN parent
    BY DEF FInv
  <2>3. parent[h] = g
    BY <1>1, <1>2, <2>1, <2>2, OnePath
  <2> QED BY <1>1, <2>3
<1> QED BY <1>5, <1>6, <1>7

(* What a push does to the paths. *)
LEMMA PushGrowsPaths ==
  ASSUME FInv, NEW h \in Hash \ DOMAIN parent, NEW prev \in Stored \cup {Zero},
         prev = Zero => h \in Root, parent' = Put(parent, h, prev)
  PROVE  /\ Forest(parent', PathTo') /\ IsPathFunction(PathTo', parent')
         /\ DOMAIN parent' = DOMAIN parent \cup {h}
         /\ \A x \in Stored \cup {h} : Put(blocks, h, prev)[x] = parent'[x]
         /\ PathTo'[h] = Append(PathTo[prev], h)
         /\ \A x \in DOMAIN parent \cup {Zero} : PathTo'[x] = PathTo[x]
<1>1. PICK grown : grown = Grown(parent, PathTo, h, prev)
  OBVIOUS
<1>2. /\ Forest(parent, PathTo) /\ IsPathFunction(PathTo, parent)
      /\ prev \in DOMAIN parent \cup {Zero}
  BY DEF FInv
<1>3. Forest(parent', grown) /\ IsPathFunction(grown, parent')
  BY <1>1, <1>2, ForestGrows
<1>4. PathTo' = CHOOSE f : IsPathFunction(f, parent')
  BY DEF PathTo, IsPathFunction
<1>5. IsPathFunction(PathTo', parent')
  BY <1>3, <1>4
<1>6. PathTo' = grown
  BY <1>3, <1>5, PathFunctionIsUnique
<1>7. DOMAIN parent' = DOMAIN parent \cup {h}
  BY DEF Put
<1>8. ASSUME NEW x \in Stored \cup {h}
      PROVE  Put(blocks, h, prev)[x] = parent'[x]
  <2>1. h \notin Stored
    BY DEF FInv
  <2>2. CASE x = h
    BY <2>2 DEF Put, Stored
  <2>3. CASE x \in Stored
    <3>1. x # h /\ x \in DOMAIN parent /\ blocks[x] = parent[x]
      BY <2>1, <2>3 DEF FInv
    <3>2. parent'[x] = parent[x]
      BY <3>1 DEF Put
    <3>3. Put(blocks, h, prev)[x] = blocks[x]
      BY <2>3, <3>1 DEF Put, Stored
    <3> QED BY <3>1, <3>2, <3>3
  <2> QED BY <2>2, <2>3
<1>9. grown[h] = Append(PathTo[prev], h)
  BY <1>1 DEF Grown
<1>10. \A x \in DOMAIN parent \cup {Zero} : grown[x] = PathTo[x]
  <2>1. h # Zero
    BY ZeroAssumption
  <2> QED BY <1>1, <2>1 DEF Grown
<1> QED BY <1>3, <1>5, <1>6, <1>7, <1>8, <1>9, <1>10

(* The stored blocks and the new one are a forest, too. *)
LEMMA PushedForest ==
  ASSUME FInv, NEW h \in Hash \ DOMAIN parent, NEW prev \in Stored \cup {Zero},
         prev = Zero => h \in Root, parent' = Put(parent, h, prev)
  PROVE  /\ Forest(Put(blocks, h, prev), PathTo')
         /\ DOMAIN Put(blocks, h, prev) = Stored \cup {h}
         /\ Paths(Put(blocks, h, prev), PathTo')
              = StoredPaths \cup {Append(PathTo[prev], h)}
<1>1. PICK stored : stored = Put(blocks, h, prev)
  OBVIOUS
<1>2. PICK path : path = PathTo'
  OBVIOUS
<1>3. DOMAIN stored = Stored \cup {h}
  BY <1>1 DEF Put, Stored
<1>4. /\ Forest(parent', path)
      /\ DOMAIN parent' = DOMAIN parent \cup {h}
      /\ \A x \in Stored \cup {h} : stored[x] = parent'[x]
      /\ path[h] = Append(PathTo[prev], h)
      /\ \A x \in DOMAIN parent \cup {Zero} : path[x] = PathTo[x]
  BY <1>1, <1>2, PushGrowsPaths
<1>5. Stored \subseteq DOMAIN parent /\ h \notin Stored
  BY DEF FInv
<1>6. DOMAIN stored \in SUBSET DOMAIN parent'
  BY <1>3, <1>4, <1>5
<1>7. IsFiniteSet(DOMAIN stored)
  <2>1. IsFiniteSet(DOMAIN parent')
    BY <1>4 DEF Forest
  <2> QED BY <1>6, <2>1, FS_Subset
<1>8. DOMAIN stored \subseteq Hash /\ path[Zero] = <<>>
  BY <1>4, <1>6 DEF Forest
<1>9. ASSUME NEW x \in DOMAIN stored
      PROVE  /\ stored[x] \in DOMAIN stored \cup {Zero}
             /\ path[x] \in Store!Path
             /\ path[x] = Append(path[stored[x]], x)
  <2>1. stored[x] = parent'[x] /\ x \in DOMAIN parent'
    BY <1>3, <1>4, <1>6
  <2>2. path[x] \in Store!Path /\ path[x] = Append(path[parent'[x]], x)
    BY <1>4, <2>1 DEF Forest
  <2>3. stored[x] \in DOMAIN stored \cup {Zero}
    <3>1. CASE x = h
      BY <1>1, <1>3, <3>1 DEF Put
    <3>2. CASE x \in Stored
      <4>1. stored[x] = blocks[x]
        BY <1>1, <1>5, <3>2 DEF Put, Stored
      <4>2. blocks[x] \in Stored \cup {Zero}
        BY <3>2, ParentsStored
      <4> QED BY <1>3, <4>1, <4>2
    <3> QED BY <1>3, <3>1, <3>2
  <2> QED BY <2>1, <2>2, <2>3
<1>10. \E m \in Nat : \A x \in DOMAIN stored : Len(path[x]) <= m
  <2>1. PICK m \in Nat : \A x \in DOMAIN parent' : Len(path[x]) <= m
    BY <1>4 DEF Forest
  <2> QED BY <1>6, <2>1
<1>11. Forest(stored, path)
  BY <1>7, <1>8, <1>9, <1>10 DEF Forest
<1>12. Paths(stored, path) = {path[x] : x \in Stored} \cup {path[h]}
  BY <1>3 DEF Paths
<1>13. {path[x] : x \in Stored} = StoredPaths
  BY <1>4, <1>5 DEF StoredPaths
<1> QED BY <1>1, <1>2, <1>3, <1>4, <1>11, <1>12, <1>13

(* The blocks that prune() leaves, and those it removes, as paths. *)
LEMMA PrunedPathsFacts ==
  ASSUME NEW bs, NEW path, Forest(bs, path), NEW chain \in Paths(bs, path)
  PROVE  /\ {path[g] : g \in DOMAIN bs \ Beaten(bs, path, chain)}
              = Paths(bs, path) \ Store!Losers(Paths(bs, path), chain, N)
         /\ {path[g] : g \in Beaten(bs, path, chain)}
              = Store!Losers(Paths(bs, path), chain, N)
<1>1. PICK P, losers, bin : /\ P = Paths(bs, path)
                            /\ losers = Store!Losers(P, chain, N)
                            /\ bin = Beaten(bs, path, chain)
  OBVIOUS
<1>2. losers \subseteq P
  BY <1>1 DEF Store!Losers
<1>3. bin = {g \in DOMAIN bs : path[g] \in losers}
  BY <1>1 DEF Beaten
<1>4. P = {path[g] : g \in DOMAIN bs}
  BY <1>1 DEF Paths
<1>5. {path[g] : g \in DOMAIN bs \ bin} = P \ losers
  BY <1>3, <1>4
<1>6. {path[g] : g \in bin} = losers
  BY <1>2, <1>3, <1>4
<1> QED BY <1>1, <1>5, <1>6

(* Pushing (h, prev) and fixing the chain is pushing its path. *)
LEMMA PushIsPush ==
  ASSUME FInv, NEW h \in Hash \ DOMAIN parent, NEW prev \in Stored \cup {Zero},
         prev = Zero => h \in Root, PushAndFix(h, prev)
  PROVE  /\ Store!PushAndFix(Append(PathTo[prev], h))
         /\ Forest(parent', PathTo') /\ IsPathFunction(PathTo', parent')
         /\ DOMAIN parent' = Stored' \cup pruned'
         /\ \A g \in Stored' : blocks'[g] = parent'[g]
<1>1. PICK stored, branch_map, chain, bin :
        /\ stored = Put(blocks, h, prev)
        /\ branch_map = BranchMap(stored)
        /\ chain = Tail(FindLongestBranch(branch_map, Zero))
        /\ bin = Bin(branch_map, chain)
  OBVIOUS
<1>2. /\ longest_chain' = chain
      /\ blocks' = [g \in DOMAIN stored \ bin |-> stored[g]]
      /\ pruned' = pruned \cup bin
      /\ parent' = Put(parent, h, prev)
      /\ ExecuteTransactions(chain)
  BY <1>1 DEF PushAndFix
<1>3. PICK path, b : path = PathTo' /\ b = Append(PathTo[prev], h)
  OBVIOUS
<1>4. /\ Forest(parent', path) /\ IsPathFunction(path, parent')
      /\ DOMAIN parent' = DOMAIN parent \cup {h}
      /\ \A x \in Stored \cup {h} : stored[x] = parent'[x]
      /\ \A x \in DOMAIN parent \cup {Zero} : path[x] = PathTo[x]
  BY <1>1, <1>2, <1>3, PushGrowsPaths
<1>5. /\ Forest(stored, path)
      /\ DOMAIN stored = Stored \cup {h}
      /\ Paths(stored, path) = StoredPaths \cup {b}
  BY <1>1, <1>2, <1>3, PushedForest
<1>6. chain = Store!LongestBranch(StoredPaths \cup {b})
  BY <1>1, <1>5, LongestBranchIsFound
<1>7. chain \in Paths(stored, path)
  <2>1. PICK Q : Q = Paths(stored, path)
    OBVIOUS
  <2>2. PICK m \in Nat : \A c \in Q : Len(c) <= m
    BY <1>5, <2>1 DEF Forest, Paths
  <2>3. Q \subseteq Store!Path /\ Q # {}
    BY <1>5, <2>1 DEF Forest, Paths
  <2>4. Store!LongestBranch(Q) \in Q
    BY <2>2, <2>3, BestExists
  <2> QED BY <1>5, <1>6, <2>1, <2>4
<1>8. bin = Beaten(stored, path, chain)
  BY <1>1, <1>5, <1>7, BinIsBeaten
<1>9. PICK losers : losers = Store!Losers(StoredPaths \cup {b}, chain, N)
  OBVIOUS
<1>10. /\ {path[g] : g \in DOMAIN stored \ bin} = (StoredPaths \cup {b}) \ losers
       /\ {path[g] : g \in bin} = losers
  BY <1>5, <1>7, <1>8, <1>9, PrunedPathsFacts
<1>11. Stored' = DOMAIN stored \ bin /\ bin \subseteq DOMAIN stored
  BY <1>2, <1>8 DEF Stored, Beaten
<1>12. StoredPaths' = (StoredPaths \cup {b}) \ losers
  <2>1. StoredPaths' = {path[g] : g \in Stored'}
    BY <1>3 DEF StoredPaths
  <2> QED BY <1>10, <1>11, <2>1
<1>13. PrunedPaths' = PrunedPaths \cup losers
  <2>1. PrunedPaths' = {path[g] : g \in pruned \cup bin}
    BY <1>2, <1>3 DEF PrunedPaths
  <2>2. {path[g] : g \in pruned} = PrunedPaths
    <3>1. pruned \subseteq DOMAIN parent
      BY DEF FInv
    <3> QED BY <1>4, <3>1 DEF PrunedPaths
  <2>3. {path[g] : g \in pruned \cup bin}
          = {path[g] : g \in pruned} \cup {path[g] : g \in bin}
    OBVIOUS
  <2> QED BY <1>10, <2>1, <2>2, <2>3
<1>14. Store!ExecuteTransactions(chain)
  <2>1. chain \in Seq(Hash)
    BY <1>5, <1>7, ChainFacts
  <2>2. commited_pointer \in Nat
    BY DEF FInv, Store!IInv, Store!TypeOK
  <2> QED BY <1>2, <2>1, <2>2, ExecuteIsExecute
<1>15. Store!PushAndFix(b)
  <2>1. losers = Store!Losers(StoredPaths \cup {b}, chain, Store!N)
    BY <1>9, SameTerms
  <2> QED BY <1>2, <1>6, <1>12, <1>13, <1>14, <2>1 DEF Store!PushAndFix
<1>16. DOMAIN parent' = Stored' \cup pruned'
  <2>1. DOMAIN parent = Stored \cup pruned
    BY DEF FInv
  <2> QED BY <1>2, <1>4, <1>5, <1>11, <2>1
<1>17. \A g \in Stored' : blocks'[g] = parent'[g]
  BY <1>2, <1>4, <1>5, <1>11
<1> QED BY <1>3, <1>4, <1>15, <1>16, <1>17

(* The path pushed is one that BlockTree may push. *)
LEMMA PushedPath ==
  ASSUME FInv, NEW h \in Hash \ DOMAIN parent, NEW prev \in Stored \cup {Zero},
         prev = Zero => h \in Root
  PROVE  LET b == Append(PathTo[prev], h)
         IN  /\ b \in Store!Path
             /\ Store!Front(b) = PathTo[prev]
             /\ \A c \in StoredPaths \cup PrunedPaths :
                  Store!BlockHash(c) # h /\ Store!BlockHash(c) # Store!BlockHash(b)
             /\ b \notin StoredPaths \cup PrunedPaths
             /\ PathTo[prev] \in StoredPaths \cup {<<>>}
             /\ Store!HasPreviousBlock(b)
<1>1. PICK b : b = Append(PathTo[prev], h)
  OBVIOUS
<1>2. Forest(parent, PathTo) /\ prev \in DOMAIN parent \cup {Zero}
  BY DEF FInv
<1>3. /\ b \in Store!Path /\ Store!Front(b) = PathTo[prev]
      /\ Store!BlockHash(b) = h
  BY <1>1, <1>2, NewPath
<1>4. \A c \in StoredPaths \cup PrunedPaths :
        \E g \in DOMAIN parent : c = PathTo[g]
  BY DEF StoredPaths, PrunedPaths, FInv
<1>5. \A c \in StoredPaths \cup PrunedPaths : Store!BlockHash(c) # h
  <2> SUFFICES ASSUME NEW g \in DOMAIN parent, Store!BlockHash(PathTo[g]) = h
               PROVE  FALSE
    BY <1>4
  <2>1. Store!BlockHash(PathTo[g]) = g
    BY <1>2, ForestFacts
  <2> QED BY <2>1
<1>6. PathTo[prev] \in StoredPaths \cup {<<>>}
  <2>1. CASE prev = Zero
    BY <1>2, <2>1 DEF Forest
  <2>2. CASE prev \in Stored
    BY <2>2 DEF StoredPaths
  <2> QED BY <2>1, <2>2
<1>7. Store!HasPreviousBlock(b)
  BY <1>3, <1>6 DEF Store!HasPreviousBlock
<1> QED BY <1>1, <1>3, <1>5, <1>6, <1>7

(* verify() finds every block of the chain. *)
LEMMA ChainVerifiesAlways ==
  ASSUME FInv
  PROVE  Store!ChainVerifies
<1> SUFFICES ASSUME NEW i \in 1 .. Len(longest_chain)
             PROVE  SubSeq(longest_chain, 1, i) \in StoredPaths
  BY DEF Store!ChainVerifies
<1>1. longest_chain \in StoredPaths
  <2>1. longest_chain # <<>>
    BY EmptySeq
  <2> QED BY <2>1 DEF FInv, Store!IInv, Store!ChainIsBest
<1>2. PICK bs : bs = StoredPaths
  OBVIOUS
<1>3. bs \subseteq Store!Path
  BY <1>2 DEF FInv, Store!IInv, Store!TypeOK
<1>4. \A x \in bs : Store!Front(x) = <<>> \/ Store!Front(x) \in bs
  BY <1>2
  DEF FInv, Store!IInv, Store!AncestorsStored, Store!HasPreviousBlock
<1>5. SubSeq(longest_chain, 1, i) \in bs
  BY <1>1, <1>2, <1>3, <1>4, Store!PrefixesStored, StoreAssumption
<1> QED BY <1>2, <1>5

(* What accept_block() takes by hash it takes by path. *)
LEMMA AcceptableIsOk ==
  ASSUME FInv, NEW h \in Hash, NEW prev \in Hash \cup {Zero}, NEW valid,
         <<h, prev>> \in Offered, Acceptable(h, prev, valid)
  PROVE  /\ h \in Hash \ DOMAIN parent /\ prev \in Stored \cup {Zero}
         /\ prev = Zero => h \in Root
         /\ Store!AcceptBlockResult(Append(PathTo[prev], h), valid) = "Ok"
<1>1. /\ h \notin Stored /\ h \notin pruned /\ prev \notin pruned
      /\ prev \in Stored \cup {Zero} /\ valid
  BY DEF Acceptable, HasPreviousBlock
<1>2. h \in Hash \ DOMAIN parent
  BY <1>1 DEF FInv
<1>3. prev = Zero => h \in Root
  BY <1>2 DEF Offered
<1>4. PICK b : b = Append(PathTo[prev], h)
  OBVIOUS
<1>5. /\ b \in Store!Path
      /\ Store!Front(b) = PathTo[prev]
      /\ \A c \in StoredPaths \cup PrunedPaths :
           Store!BlockHash(c) # Store!BlockHash(b)
      /\ b \notin StoredPaths \cup PrunedPaths
      /\ PathTo[prev] \in StoredPaths \cup {<<>>}
      /\ Store!HasPreviousBlock(b)
  BY <1>1, <1>2, <1>3, <1>4, PushedPath
<1>6. PathTo[prev] \notin PrunedPaths
  <2> SUFFICES ASSUME NEW g \in pruned, PathTo[g] = PathTo[prev]
               PROVE  FALSE
    BY DEF PrunedPaths
  <2>1. /\ Forest(parent, PathTo) /\ g \in DOMAIN parent
        /\ prev \in DOMAIN parent \cup {Zero}
    BY <1>1 DEF FInv
  <2>2. g = prev
    BY <2>1, OnePath
  <2> QED BY <1>1, <2>2
<1>7. Store!ChainVerifies
  BY ChainVerifiesAlways
<1>8. Store!AcceptBlockResult(b, valid) = "Ok"
  <2>1. b \notin StoredPaths /\ b \notin PrunedPaths
    BY <1>5
  <2>2. Store!Front(b) \notin PrunedPaths
    BY <1>5, <1>6
  <2> QED BY <1>1, <1>5, <1>7, <2>1, <2>2 DEF Store!AcceptBlockResult
<1> QED BY <1>1, <1>2, <1>3, <1>4, <1>8

(* accept_block() of a block by hash is accept_block() of its path. *)
LEMMA AcceptIsAccept ==
  ASSUME FInv, NEW h \in Hash, NEW prev \in Hash \cup {Zero}, NEW valid,
         <<h, prev>> \in Offered, AcceptBlock(h, prev, valid)
  PROVE  /\ h \in Hash \ DOMAIN parent /\ prev \in Stored \cup {Zero}
         /\ prev = Zero => h \in Root
         /\ Append(PathTo[prev], h) \in Store!Offered
         /\ Store!AcceptBlock(Append(PathTo[prev], h), valid)
<1>1. Acceptable(h, prev, valid) /\ PushAndFix(h, prev)
  BY DEF AcceptBlock
<1>2. /\ h \in Hash \ DOMAIN parent /\ prev \in Stored \cup {Zero}
      /\ Store!AcceptBlockResult(Append(PathTo[prev], h), valid) = "Ok"
  BY <1>1, AcceptableIsOk
<1>3. prev = Zero => h \in Root
  BY <1>1, AcceptableIsOk
<1>4. PICK b : b = Append(PathTo[prev], h)
  OBVIOUS
<1>5. /\ b \in Store!Path
      /\ \A c \in StoredPaths \cup PrunedPaths :
           Store!BlockHash(c) # Store!BlockHash(b)
      /\ PathTo[prev] \in StoredPaths \cup {<<>>}
  BY <1>2, <1>3, <1>4, PushedPath
<1>9. Store!PushAndFix(b)
  BY <1>1, <1>2, <1>3, <1>4, PushIsPush
<1>10. Store!AcceptBlock(b, valid)
  BY <1>2, <1>4, <1>9 DEF Store!AcceptBlock
<1>11. b \in Store!Offered
  <2>1. b = PathTo[prev] \o <<h>>
    <3>1. Forest(parent, PathTo) /\ prev \in DOMAIN parent \cup {Zero}
      BY <1>2 DEF FInv
    <3>2. PathTo[prev] \in Seq(Hash)
      BY <1>2, <1>3, <3>1, NewPath
    <3> QED BY <1>4, <3>2, AppendIsConcat
  <2>2. PICK known : known = StoredPaths \cup PrunedPaths
    OBVIOUS
  <2>3. PICK p \in known \cup {<<>>} : b = p \o <<h>>
    BY <1>5, <2>1, <2>2
  <2>4. \A c \in known : Store!BlockHash(c) = Store!BlockHash(b) => c = b
    BY <1>5, <2>2
  <2>5. PICK suffix : suffix = {<<x>> : x \in Hash} \cup (Hash \X Hash)
    OBVIOUS
  <2>6. <<h>> \in suffix
    BY <2>5
  <2>7. b \in UNION {{q \o s : s \in suffix} : q \in known \cup {<<>>}}
    <3>1. b \in {p \o s : s \in suffix}
      BY <2>3, <2>6
    <3>2. {p \o s : s \in suffix} \in
            {{q \o s : s \in suffix} : q \in known \cup {<<>>}}
      OBVIOUS
    <3> QED BY <3>1, <3>2
  <2>8. Store!Offered =
          {c \in (UNION {{q \o s : s \in suffix} : q \in known \cup {<<>>}})
                    \cap Store!Path :
             \A d \in known : Store!BlockHash(d) = Store!BlockHash(c) => d = c}
    BY <2>2, <2>5 DEF Store!Offered
  <2> QED BY <1>5, <2>4, <2>7, <2>8
<1> QED BY <1>2, <1>3, <1>4, <1>10, <1>11

(* verify() by hash never fails either. *)
LEMMA VerifiesAlways ==
  ASSUME FInv
  PROVE  Verifies
<1> SUFFICES ASSUME NEW i \in 1 .. Len(longest_chain)
             PROVE  longest_chain[i] \in Stored
  <2>1. longest_chain \in Seq(Hash)
    BY StoreAssumption, Store!PathFacts, EmptySeq
    DEF FInv, Store!IInv, Store!TypeOK
  <2>2. ToSet(longest_chain) =
          {longest_chain[j] : j \in DOMAIN longest_chain}
    BY DEF ToSet
  <2>3. DOMAIN longest_chain = 1 .. Len(longest_chain)
    BY <2>1
  <2> QED BY <2>2, <2>3 DEF Verifies
<1>1. longest_chain \in StoredPaths
  <2>1. longest_chain # <<>>
    BY EmptySeq
  <2> QED BY <2>1 DEF FInv, Store!IInv, Store!ChainIsBest
<1>2. PICK t \in Stored : longest_chain = PathTo[t]
  BY <1>1 DEF StoredPaths
<1>3. Forest(parent, PathTo) /\ t \in DOMAIN parent /\ Stored \subseteq DOMAIN parent
  BY DEF FInv
<1>4. SubSeq(longest_chain, 1, i) \in StoredPaths
  BY ChainVerifiesAlways DEF Store!ChainVerifies
<1>5. PICK g \in Stored : SubSeq(longest_chain, 1, i) = PathTo[g]
  BY <1>4 DEF StoredPaths
<1>6. /\ PathTo[t] \in Seq(Hash) /\ Len(PathTo[t]) \in Nat
      /\ PathTo[g] \in Seq(Hash) /\ Len(PathTo[g]) >= 1
      /\ PathTo[g][Len(PathTo[g])] = g
  BY <1>3, ForestFacts
<1>7. /\ Len(SubSeq(longest_chain, 1, i)) = i
      /\ SubSeq(longest_chain, 1, i)[i] = longest_chain[i]
  BY <1>2, <1>6
<1> QED BY <1>5, <1>6, <1>7

(* What accept_block() refuses by hash it refuses by path. *)
LEMMA RefuseIsRefuse ==
  ASSUME FInv, NEW h \in Hash, NEW prev \in DOMAIN parent \cup {Zero}, NEW valid,
         <<h, prev>> \in Offered, ~Acceptable(h, prev, valid)
  PROVE  Store!AcceptBlockResult(Append(PathTo[prev], h), valid) # "Ok"
<1>1. /\ Forest(parent, PathTo)
      /\ DOMAIN parent = Stored \cup pruned
  BY DEF FInv
<1>2. PICK b : b = Append(PathTo[prev], h)
  OBVIOUS
<1>3. CASE h \in DOMAIN parent
  <2>1. prev = parent[h]
    BY <1>3 DEF Offered
  <2>2. PathTo[h] = b
    BY <1>1, <1>2, <1>3, <2>1 DEF Forest
  <2>3. b \in StoredPaths \/ b \in PrunedPaths
    BY <1>1, <1>3, <2>2 DEF StoredPaths, PrunedPaths
  <2> QED BY <1>2, <2>3 DEF Store!AcceptBlockResult
<1>4. CASE h \notin DOMAIN parent
  <2>1. prev = Zero => h \in Root
    BY <1>4 DEF Offered
  <2>2. Store!Front(b) = PathTo[prev]
    BY <1>1, <1>2, <1>4, <2>1, NewPath
  <2>3. CASE prev \in pruned
    <3>1. Store!Front(b) \in PrunedPaths
      BY <2>2, <2>3 DEF PrunedPaths
    <3> QED BY <1>2, <3>1 DEF Store!AcceptBlockResult
  <2>4. CASE ~valid
    BY <1>2, <2>4 DEF Store!AcceptBlockResult
  <2>5. h \notin Stored /\ h \notin pruned
    BY <1>1, <1>4
  <2>6. prev \in pruned \/ HasPreviousBlock(prev)
    BY <1>1 DEF HasPreviousBlock
  <2> QED BY <2>3, <2>4, <2>5, <2>6, VerifiesAlways DEF Acceptable
<1> QED BY <1>3, <1>4

(* propose_block() mines on the tip of the chain. *)
LEMMA ProposeIsPropose ==
  ASSUME FInv, NEW h \in Hash, ProposeBlock(h)
  PROVE  \E prev \in Stored \cup {Zero} :
           /\ h \in Hash \ DOMAIN parent
           /\ prev = Zero => h \in Root
           /\ PushAndFix(h, prev)
           /\ Store!ProposeBlock(h)
<1>1. PICK prev : prev = IF longest_chain = <<>> THEN Zero ELSE Last(longest_chain)
  OBVIOUS
<1>2. /\ h \in Hash \ DOMAIN parent
      /\ prev = Zero => h \in Root
      /\ PushAndFix(h, prev)
  BY <1>1 DEF ProposeBlock
<1>3. prev \in Stored \cup {Zero} /\ PathTo[prev] = longest_chain
  <2>1. CASE longest_chain = <<>>
    <3>1. prev = Zero
      BY <1>1, <2>1
    <3>2. PathTo[Zero] = <<>>
      BY DEF FInv, Forest
    <3> QED BY <2>1, <3>1, <3>2
  <2>2. CASE longest_chain # <<>>
    <3>1. longest_chain \in StoredPaths
      BY <2>2 DEF FInv, Store!IInv, Store!ChainIsBest
    <3>2. PICK g \in Stored : longest_chain = PathTo[g]
      BY <3>1 DEF StoredPaths
    <3>3. Forest(parent, PathTo) /\ g \in DOMAIN parent
      BY DEF FInv
    <3>4. PathTo[g][Len(PathTo[g])] = g
      BY <3>3, ForestFacts
    <3>5. prev = g
      BY <1>1, <2>2, <3>2, <3>4 DEF Last
    <3> QED BY <3>2, <3>5
  <2> QED BY <2>1, <2>2
<1>4. PICK b : b = Append(PathTo[prev], h)
  OBVIOUS
<1>5. /\ b \in Store!Path
      /\ \A c \in StoredPaths \cup PrunedPaths : Store!BlockHash(c) # h
  BY <1>2, <1>3, <1>4, PushedPath
<1>6. Store!PushAndFix(b)
  BY <1>2, <1>3, <1>4, PushIsPush
<1>7. b = Append(longest_chain, h)
  BY <1>3, <1>4
<1>8. Store!ProposeBlock(h)
  BY <1>5, <1>6, <1>7 DEF Store!ProposeBlock
<1> QED BY <1>2, <1>3, <1>8

(* The initial state satisfies the invariant. *)
LEMMA InitFInv == Init => FInv /\ Store!Init
<1> SUFFICES ASSUME Init PROVE FInv /\ Store!Init
  OBVIOUS
<1>1. DOMAIN parent = {} /\ Stored = {} /\ pruned = {}
  BY DEF Init, Stored
<1>2. StoredPaths = {} /\ PrunedPaths = {}
  BY <1>1 DEF StoredPaths, PrunedPaths
<1>3. Store!Init
  BY <1>2 DEF Init, Store!Init
<1>4. Store!IInv
  BY <1>3, Store!InitIInv, StoreAssumption
<1> DEFINE f == [h \in {Zero} |-> <<>>]
<1>5. IsPathFunction(f, parent)
  BY <1>1 DEF IsPathFunction
<1>6. IsPathFunction(PathTo, parent)
  <2>1. PathTo = CHOOSE g : IsPathFunction(g, parent)
    BY DEF PathTo, IsPathFunction
  <2> HIDE DEF f
  <2> QED BY <1>5, <2>1
<1>7. Forest(parent, PathTo)
  <2>1. PathTo[Zero] = <<>>
    BY <1>6 DEF IsPathFunction
  <2>2. IsFiniteSet({})
    BY FS_EmptySet
  <2>3. \E m \in Nat : \A h \in DOMAIN parent : Len(PathTo[h]) <= m
    BY <1>1
  <2> QED BY <1>1, <2>1, <2>2, <2>3 DEF Forest
<1> QED BY <1>1, <1>3, <1>4, <1>6, <1>7 DEF FInv

(* A step is a step of BlockTree, or changes nothing there, and preserves  *)
(* the invariant.                                                          *)
LEMMA PushedStep ==
  ASSUME FInv, NEW h \in Hash \ DOMAIN parent, NEW prev \in Stored \cup {Zero},
         prev = Zero => h \in Root, PushAndFix(h, prev), Store!Next
  PROVE  FInv'
<1>1. /\ Forest(parent', PathTo') /\ IsPathFunction(PathTo', parent')
      /\ DOMAIN parent' = Stored' \cup pruned'
      /\ \A g \in Stored' : blocks'[g] = parent'[g]
  BY PushIsPush
<1>2. Store!IInv'
  <2>1. Store!IInv
    BY DEF FInv
  <2> QED BY <2>1, Store!NextIInv, StoreAssumption
<1> QED BY <1>1, <1>2 DEF FInv

LEMMA StepIsStep ==
  ASSUME FInv, [Next]_vars
  PROVE  FInv' /\ [Store!Next]_(Store!vars)
<1>1. CASE UNCHANGED vars
  <2>1. PathTo' = PathTo
    BY <1>1 DEF vars, PathTo
  <2>2. StoredPaths' = StoredPaths /\ PrunedPaths' = PrunedPaths /\ Stored' = Stored
    BY <1>1, <2>1 DEF vars, StoredPaths, PrunedPaths, Stored
  <2>3. UNCHANGED Store!vars
    BY <1>1, <2>2 DEF vars, Store!vars
  <2>4. Store!IInv'
    <3>1. Store!IInv
      BY DEF FInv
    <3> QED BY <2>3, <3>1, Store!NextIInv, StoreAssumption
  <2>5. FInv'
    BY <1>1, <2>1, <2>2, <2>4 DEF FInv, vars
  <2> QED BY <2>3, <2>5
<1>2. ASSUME NEW o \in Offered, NEW valid \in BOOLEAN,
             AcceptBlock(o[1], o[2], valid)
      PROVE  FInv' /\ Store!Next
  <2>1. PICK h \in Hash, prev \in Hash \cup {Zero} :
          o = <<h, prev>> /\ o[1] = h /\ o[2] = prev
    BY DEF Offered
  <2>2. <<h, prev>> \in Offered /\ AcceptBlock(h, prev, valid)
    BY <1>2, <2>1
  <2>3. PICK b : b = Append(PathTo[prev], h)
    OBVIOUS
  <2>4. /\ h \in Hash \ DOMAIN parent /\ prev \in Stored \cup {Zero}
        /\ prev = Zero => h \in Root
        /\ b \in Store!Offered /\ Store!AcceptBlock(b, valid)
    BY <2>2, <2>3, AcceptIsAccept
  <2>5. Store!Next
    BY <2>4 DEF Store!Next
  <2>6. PushAndFix(h, prev)
    BY <2>2 DEF AcceptBlock
  <2> QED BY <2>4, <2>5, <2>6, PushedStep
<1>3. ASSUME NEW o \in Offered, NEW valid \in BOOLEAN,
             RejectBlock(o[1], o[2], valid)
      PROVE  UNCHANGED vars
  BY <1>3 DEF RejectBlock
<1>4. ASSUME NEW h \in Hash, ProposeBlock(h)
      PROVE  FInv' /\ Store!Next
  <2>1. PICK prev \in Stored \cup {Zero} :
          /\ h \in Hash \ DOMAIN parent
          /\ prev = Zero => h \in Root
          /\ PushAndFix(h, prev)
          /\ Store!ProposeBlock(h)
    BY <1>4, ProposeIsPropose
  <2>2. Store!Next
    BY <2>1 DEF Store!Next
  <2> QED BY <2>1, <2>2, PushedStep
<1> QED BY <1>1, <1>2, <1>3, <1>4 DEF Next

(* Store and Tree are the same specification. *)
LEMMA SameBranches ==
  /\ \A b : Tree!BlockHash(b) = Store!BlockHash(b)
  /\ \A b : Tree!Front(b) = Store!Front(b)
  /\ \A bs : Tree!LongestBranch(bs) = Store!LongestBranch(bs)
  /\ \A bs, chain : Tree!Losers(bs, chain, Tree!N)
                      = Store!Losers(bs, chain, Store!N)
  /\ \A m, n : Tree!SatSub(m, n) = Store!SatSub(m, n)
  /\ Tree!N = Store!N /\ Tree!Path = Store!Path
<1>1. \A b : Tree!BlockHash(b) = Store!BlockHash(b)
  BY DEF Tree!BlockHash, Store!BlockHash, Tree!Last, Store!Last
<1>2. \A b : Tree!Front(b) = Store!Front(b)
  BY DEF Tree!Front, Store!Front
<1>3. \A bs : Tree!LongestBranch(bs) = Store!LongestBranch(bs)
  BY DEF Tree!LongestBranch, Store!LongestBranch, Tree!Beats, Store!Beats,
     Tree!BlockHash, Store!BlockHash, Tree!Last, Store!Last
<1>4. \A m, n : Tree!SatSub(m, n) = Store!SatSub(m, n)
  BY DEF Tree!SatSub, Store!SatSub
<1>5. Tree!N = Store!N
  BY DEF Tree!N, Store!N
<1>6. Tree!Path = Store!Path
  BY DEF Tree!Path, Store!Path, Tree!RootOf, Store!RootOf
<1>7. \A b, chain, k : Tree!ForksAfter(b, chain, k) <=> Store!ForksAfter(b, chain, k)
  BY DEF Tree!ForksAfter, Store!ForksAfter
<1>8. \A bs, chain : Tree!Losers(bs, chain, Tree!N) = Store!Losers(bs, chain, Store!N)
  BY <1>5, <1>7 DEF Tree!Losers, Store!Losers
<1> QED BY <1>1, <1>2, <1>3, <1>4, <1>5, <1>6, <1>8

LEMMA SameActions ==
  /\ \A b : Store!PushAndFix(b) => Tree!PushAndFix(b)
  /\ \A b, valid : Tree!AcceptBlockResult(b, valid) = Store!AcceptBlockResult(b, valid)
  /\ Store!Offered = Tree!Offered
<1>1. \A chain : Store!ExecuteTransactions(chain) => Tree!ExecuteTransactions(chain)
  BY SameBranches DEF Store!ExecuteTransactions, Tree!ExecuteTransactions
<1>2. ASSUME NEW b, Store!PushAndFix(b) PROVE Tree!PushAndFix(b)
  BY <1>1, <1>2, SameBranches DEF Store!PushAndFix, Tree!PushAndFix
<1>3. \A b : Tree!HasPreviousBlock(b) <=> Store!HasPreviousBlock(b)
  BY SameBranches DEF Tree!HasPreviousBlock, Store!HasPreviousBlock
<1>4. Tree!ChainVerifies <=> Store!ChainVerifies
  BY DEF Tree!ChainVerifies, Store!ChainVerifies
<1>5. \A b, valid : Tree!AcceptBlockResult(b, valid) = Store!AcceptBlockResult(b, valid)
  BY <1>3, <1>4, SameBranches DEF Tree!AcceptBlockResult, Store!AcceptBlockResult
<1>6. Store!Offered = Tree!Offered
  BY SameBranches DEF Store!Offered, Tree!Offered
<1> QED BY <1>2, <1>5, <1>6

LEMMA SameSpecification ==
  /\ Store!Init => Tree!Init
  /\ [Store!Next]_(Store!vars) => [Tree!Next]_(Tree!vars)
<1>1. Store!Init => Tree!Init
  BY DEF Store!Init, Tree!Init
<1>2. Store!vars = Tree!vars /\ (UNCHANGED Store!vars => UNCHANGED Tree!vars)
  BY DEF Store!vars, Tree!vars
<1>3. ASSUME NEW b \in Store!Offered, NEW valid \in BOOLEAN,
             Store!AcceptBlock(b, valid)
      PROVE  Tree!Next
  <2>1. b \in Tree!Offered /\ Tree!AcceptBlock(b, valid)
    BY <1>3, SameActions DEF Store!AcceptBlock, Tree!AcceptBlock
  <2> QED BY <2>1 DEF Tree!Next
<1>4. ASSUME NEW b \in Store!Offered, NEW valid \in BOOLEAN,
             Store!RejectBlock(b, valid)
      PROVE  UNCHANGED Tree!vars
  BY <1>2, <1>4 DEF Store!RejectBlock
<1>5. ASSUME NEW h \in Hash, Store!ProposeBlock(h)
      PROVE  Tree!Next
  <2>1. Tree!ProposeBlock(h)
    BY <1>5, SameActions, SameBranches DEF Store!ProposeBlock, Tree!ProposeBlock
  <2> QED BY <2>1 DEF Tree!Next
<1> QED BY <1>1, <1>2, <1>3, <1>4, <1>5 DEF Store!Next

(* The loops of fix() over blocks indexed by hash, with the recursive      *)
(* search for the longest branch and the worklist of prune(), do to the    *)
(* store what BlockTree says, in every step of every run.                  *)
THEOREM LoopsImplementTree == Spec => ImplementsTree
<1>1. Init => FInv /\ Tree!Init
  BY InitFInv, SameSpecification
<1>2. FInv /\ [Next]_vars => FInv' /\ [Tree!Next]_(Tree!vars)
  BY StepIsStep, SameSpecification
<1> QED BY <1>1, <1>2, PTL DEF Spec, ImplementsTree, Tree!Spec

(* accept_block() takes a block exactly when BlockTree takes its path, if   *)
(* its parent was ever stored: no check on hashes is stricter or laxer.     *)
ChecksAgree ==
  \A h \in Hash, prev \in DOMAIN parent \cup {Zero}, valid \in BOOLEAN :
    <<h, prev>> \in Offered =>
      (Acceptable(h, prev, valid) <=>
         Tree!AcceptBlockResult(Append(PathTo[prev], h), valid) = "Ok")

(* The checks of accept_block() on a block by hash and on its path agree in *)
(* every state: nothing is refused by hash that BlockTree would take.       *)
THEOREM ChecksByHash == Spec => []ChecksAgree
<1>1. Init => FInv
  BY InitFInv
<1>2. FInv /\ [Next]_vars => FInv'
  BY StepIsStep
<1>3. FInv => ChecksAgree
  <2> SUFFICES ASSUME FInv, NEW h \in Hash,
                      NEW prev \in DOMAIN parent \cup {Zero},
                      NEW valid \in BOOLEAN, <<h, prev>> \in Offered
               PROVE  Acceptable(h, prev, valid) <=>
                        Store!AcceptBlockResult(Append(PathTo[prev], h), valid)
                          = "Ok"
    BY SameActions DEF ChecksAgree
  <2>1. ~Acceptable(h, prev, valid) =>
          Store!AcceptBlockResult(Append(PathTo[prev], h), valid) # "Ok"
    BY RefuseIsRefuse
  <2>2. ASSUME Acceptable(h, prev, valid)
        PROVE  Store!AcceptBlockResult(Append(PathTo[prev], h), valid) = "Ok"
    <3>1. prev \in Hash \cup {Zero}
      BY DEF FInv, Forest
    <3> QED BY <2>2, <3>1, AcceptableIsOk
  <2> QED BY <2>1, <2>2
<1> QED BY <1>1, <1>2, <1>3, PTL DEF Spec
=============================================================================
