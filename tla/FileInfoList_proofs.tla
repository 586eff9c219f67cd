------------------------- MODULE FileInfoList_proofs -------------------------
(***************************************************************************)
(* That the links of a FTPFileInfoList are those of one list which holds   *)
(* all that is allocated, and that it implements the sequence of files of  *)
(* FileSeq: proved of FileInfoList for any nodes and files.                *)
(***************************************************************************)
EXTENDS FileInfoList, WellFoundedInduction, FiniteSetTheorems, SequenceTheorems, TLAPS

------------------------------------------------------------------------------
(* The invariant *)

\* s has each element of U once, and no others.
Enumerates(s, U) ==
  /\ U = {s[i] : i \in 1..Len(s)}
  /\ \A i, j \in 1..Len(s) : s[i] = s[j] => i = j

\* The counter and the ends, also while the vector is in use and the links are old.
Counted ==
  /\ list.n = Len(order)
  /\ order = <<>> => list.first = NULL /\ list.last = NULL

\* While the vector is in use it has the order, and the links still chain all nodes in
\* the order they had before.
VecOK ==
  /\ mode = "list" => vec = <<>>
  /\ mode = "vec" => vec = order /\ \E s \in Seq(Nodes) : Enumerates(s, used) /\ Chain(s)

IInv == TypeOK /\ Linked /\ NothingLost /\ Counted /\ VecOK

------------------------------------------------------------------------------
(* Naturals and sequences *)

\* A set of naturals has a least element: the induction that the chains need.
LEMMA Least ==
  ASSUME NEW T, T \subseteq Nat, T # {}
  PROVE  \E m \in T : \A k \in T : m <= k
<1> DEFINE Less == {ss \in Nat \X Nat : ss[1] < ss[2]}
<1>1. IsWellFoundedOn(Less, Nat)
  BY NatLessThanWellFounded, Zenon DEF OpToRel
<1>2. PICK m \in T : \A k \in T : ~(<<k, m>> \in Less)
  <2> HIDE DEF Less
  <2> QED
    BY <1>1, WFMin
<1>3. ASSUME NEW k \in T
      PROVE  m <= k
  <2>1. <<k, m>> \notin Less
    BY <1>2
  <2> QED
    BY <2>1
<1> QED
  BY <1>2, <1>3

\* Two sequences of which each place of the first is a place of the second.
LEMMA SameSequence ==
  ASSUME NEW U, NEW s \in Seq(U), NEW t \in Seq(U), Len(s) = Len(t),
         \A i \in 1..Len(s) : s[i] = t[i]
  PROVE  s = t
BY SeqEqual

\* What has the same elements, each once, has the same length and is a permutation.
LEMMA Counting ==
  ASSUME NEW U, NEW s \in Seq(U), NEW V, Enumerates(s, V)
  PROVE  IsFiniteSet(V) /\ Cardinality(V) = Len(s)
<1>1. Len(s) \in Nat /\ s \in [1..Len(s) -> U]
  BY LenProperties, SeqDef
<1>2. s \in [1..Len(s) -> V]
  BY <1>1 DEF Enumerates
<1>3. s \in Bijection(1..Len(s), V)
  BY <1>2 DEF Enumerates, Bijection, Injection, IsInjective, Surjection
<1>4. ExistsBijection(1..Len(s), V)
  BY <1>3 DEF ExistsBijection
<1>5. IsFiniteSet(1..Len(s)) /\ Cardinality(1..Len(s)) = Len(s)
  BY <1>1, FS_Interval
<1> QED
  BY <1>1, <1>4, <1>5, FS_Bijection

\* p says at which place of s each element of t is.
Rearranges(p, s, t) ==
  /\ p \in [1..Len(s) -> 1..Len(s)]
  /\ \A i, j \in 1..Len(s) : p[i] = p[j] => i = j
  /\ \A i \in 1..Len(s) : t[i] = s[p[i]]

LEMMA Rearranged ==
  ASSUME NEW U, NEW s \in Seq(U), NEW t \in Seq(U), NEW V, Enumerates(s, V), Enumerates(t, V)
  PROVE  Len(s) = Len(t) /\ \E p : Rearranges(p, s, t)
<1>1. Len(s) = Len(t)
  BY Counting
<1>2. ASSUME NEW i \in 1..Len(s)
      PROVE  \E j \in 1..Len(s) : s[j] = t[i]
  <2>1. t[i] \in V
    BY <1>1 DEF Enumerates
  <2> QED
    BY <2>1 DEF Enumerates
<1> DEFINE p == [i \in 1..Len(s) |-> CHOOSE j \in 1..Len(s) : s[j] = t[i]]
<1>3. \A i \in 1..Len(s) : p[i] \in 1..Len(s) /\ s[p[i]] = t[i]
  BY <1>2
<1>4. p \in [1..Len(s) -> 1..Len(s)]
  BY <1>3
<1> HIDE DEF p
<1>5. \A i, j \in 1..Len(s) : p[i] = p[j] => i = j
  BY <1>1, <1>3 DEF Enumerates
<1> QED
  BY <1>1, <1>3, <1>4, <1>5 DEF Rearranges

\* A sequence without the element at one place.
LEMMA WithoutOne ==
  ASSUME NEW U, NEW s \in Seq(U), NEW k \in 1..Len(s)
  PROVE  /\ RemoveAt(s, k) \in Seq(U) /\ Len(RemoveAt(s, k)) = Len(s) - 1
         /\ \A i \in 1..(Len(s) - 1) : RemoveAt(s, k)[i] = IF i < k THEN s[i] ELSE s[i + 1]
<1> DEFINE a == SubSeq(s, 1, k - 1)
           b == SubSeq(s, k + 1, Len(s))
<1>1. Len(s) \in Nat /\ k \in Int /\ 1 <= k /\ k <= Len(s) /\ \A i \in 1..Len(s) : s[i] \in U
  BY LenProperties, ElementOfSeq
<1>2. a \in Seq(U) /\ Len(a) = k - 1 /\ \A i \in 1..(k - 1) : a[i] = s[i]
  <2>1. \A i \in 1..(k - 1) : s[i] \in U
    BY <1>1
  <2>2. /\ SubSeq(s, 1, k - 1) \in Seq(U)
        /\ Len(SubSeq(s, 1, k - 1)) = IF 1 <= k - 1 THEN k - 1 - 1 + 1 ELSE 0
        /\ \A i \in 1..(k - 1 - 1 + 1) : SubSeq(s, 1, k - 1)[i] = s[1 + i - 1]
    BY <1>1, <2>1, SubSeqProperties
  <2> QED
    BY <1>1, <2>2
<1>3. b \in Seq(U) /\ Len(b) = Len(s) - k /\ \A i \in 1..(Len(s) - k) : b[i] = s[k + i]
  <2>1. \A i \in (k + 1)..Len(s) : s[i] \in U
    BY <1>1
  <2>2. /\ SubSeq(s, k + 1, Len(s)) \in Seq(U)
        /\ Len(SubSeq(s, k + 1, Len(s))) = IF k + 1 <= Len(s) THEN Len(s) - (k + 1) + 1 ELSE 0
        /\ \A i \in 1..(Len(s) - (k + 1) + 1) : SubSeq(s, k + 1, Len(s))[i] = s[k + 1 + i - 1]
    BY <1>1, <2>1, SubSeqProperties
  <2> QED
    BY <1>1, <2>2
<1> HIDE DEF a, b
<1>4. /\ a \o b \in Seq(U) /\ Len(a \o b) = Len(a) + Len(b)
      /\ \A i \in 1..(Len(a) + Len(b)) :
           (a \o b)[i] = IF i <= Len(a) THEN a[i] ELSE b[i - Len(a)]
  BY <1>2, <1>3, ConcatProperties
<1>5. RemoveAt(s, k) = a \o b
  BY DEF RemoveAt, a, b
<1>6. ASSUME NEW i \in 1..(Len(s) - 1)
      PROVE  (a \o b)[i] = IF i < k THEN s[i] ELSE s[i + 1]
  <2>1. (a \o b)[i] = IF i <= k - 1 THEN a[i] ELSE b[i - (k - 1)]
    BY <1>1, <1>2, <1>3, <1>4
  <2>2. CASE i < k
    BY <1>1, <1>2, <2>1, <2>2
  <2>3. CASE ~(i < k)
    <3>1. i - (k - 1) \in 1..(Len(s) - k) /\ k + (i - (k - 1)) = i + 1
      BY <1>1, <2>3
    <3>2. b[i - (k - 1)] = s[i + 1]
      BY <1>3, <3>1
    <3>3. ~(i <= k - 1)
      BY <1>1, <2>3
    <3> QED
      BY <2>1, <2>3, <3>2, <3>3
  <2> QED
    BY <2>2, <2>3
<1>7. Len(a \o b) = Len(s) - 1
  BY <1>1, <1>2, <1>3, <1>4
<1> QED
  BY <1>4, <1>5, <1>6, <1>7

\* An element that is enumerated is at one place, and without it the rest is.
LEMMA EnumeratesRest ==
  ASSUME NEW U, NEW s \in Seq(U), NEW V, Enumerates(s, V), NEW k \in 1..Len(s)
  PROVE  Enumerates(RemoveAt(s, k), V \ {s[k]})
<1> DEFINE t == RemoveAt(s, k)
<1>1. /\ t \in Seq(U) /\ Len(t) = Len(s) - 1 /\ Len(s) \in Nat
      /\ \A i \in 1..(Len(s) - 1) : t[i] = IF i < k THEN s[i] ELSE s[i + 1]
  BY WithoutOne, LenProperties
<1> HIDE DEF t
<1>2. ASSUME NEW i \in 1..Len(t)
      PROVE  t[i] \in V \ {s[k]}
  <2>1. i \in 1..Len(s) /\ i + 1 \in 1..Len(s)
    BY <1>1
  <2>2. CASE i < k
    BY <1>1, <2>1, <2>2 DEF Enumerates
  <2>3. CASE ~(i < k)
    BY <1>1, <2>1, <2>3 DEF Enumerates
  <2> QED
    BY <2>2, <2>3
<1>3. ASSUME NEW y \in V \ {s[k]}
      PROVE  \E i \in 1..Len(t) : y = t[i]
  <2>1. PICK j \in 1..Len(s) : y = s[j] /\ j # k
    BY <1>3 DEF Enumerates
  <2>2. CASE j < k
    <3>1. j \in 1..Len(t) /\ t[j] = s[j]
      BY <1>1, <2>1, <2>2
    <3> QED
      BY <2>1, <3>1
  <2>3. CASE ~(j < k)
    <3>1. j - 1 \in 1..Len(t) /\ ~(j - 1 < k) /\ (j - 1) + 1 = j
      BY <1>1, <2>1, <2>3
    <3>2. t[j - 1] = s[j]
      BY <1>1, <3>1
    <3> QED
      BY <2>1, <3>1, <3>2
  <2> QED
    BY <2>2, <2>3
<1>4. ASSUME NEW i \in 1..Len(t), NEW j \in 1..Len(t), t[i] = t[j]
      PROVE  i = j
  <2>1. i \in 1..Len(s) /\ i + 1 \in 1..Len(s) /\ j \in 1..Len(s) /\ j + 1 \in 1..Len(s)
    BY <1>1
  <2>2. (IF i < k THEN s[i] ELSE s[i + 1]) = (IF j < k THEN s[j] ELSE s[j + 1])
    BY <1>1, <1>4
  <2>3. CASE i < k /\ j < k
    BY <2>1, <2>2, <2>3 DEF Enumerates
  <2>4. CASE i < k /\ ~(j < k)
    BY <2>1, <2>2, <2>4 DEF Enumerates
  <2>5. CASE ~(i < k) /\ j < k
    BY <2>1, <2>2, <2>5 DEF Enumerates
  <2>6. CASE ~(i < k) /\ ~(j < k)
    <3>1. i + 1 = j + 1
      BY <2>1, <2>2, <2>6 DEF Enumerates
    <3> QED
      BY <3>1
  <2> QED
    BY <2>3, <2>4, <2>5, <2>6
<1> QED
  BY <1>2, <1>3, <1>4 DEF Enumerates, t

\* A new element at the end.
LEMMA EnumeratesMore ==
  ASSUME NEW U, NEW s \in Seq(U), NEW V, Enumerates(s, V), NEW x \in U, x \notin V
  PROVE  Enumerates(Append(s, x), V \cup {x})
<1> DEFINE t == Append(s, x)
<1>1. /\ t \in Seq(U) /\ Len(t) = Len(s) + 1 /\ Len(s) \in Nat /\ t[Len(s) + 1] = x
      /\ \A i \in 1..Len(s) : t[i] = s[i]
  BY AppendProperties, LenProperties
<1> HIDE DEF t
<1>2. \A i \in 1..Len(t) : i \in 1..Len(s) \/ i = Len(s) + 1
  BY <1>1
<1>3. \A i \in 1..Len(s) : i \in 1..Len(t)
  BY <1>1
<1>4. Len(s) + 1 \in 1..Len(t)
  BY <1>1
<1> QED
  BY <1>1, <1>2, <1>3, <1>4 DEF Enumerates, t

------------------------------------------------------------------------------
(* Walking the chain                                                          *)

LEMMA ChainWithin ==
  ASSUME NEW s \in Seq(Nodes), NEW t \in Seq(Nodes), Chain(s), Chain(t)
  PROVE  \A i \in 1..Len(s) : i <= Len(t) /\ s[i] = t[i]
<1> DEFINE D == {i \in 1..Len(s) : ~(i <= Len(t) /\ s[i] = t[i])}
<1>1. /\ Len(s) \in Nat /\ \A i \in 1..Len(s) : s[i] \in Nodes
      /\ Len(t) \in Nat /\ \A i \in 1..Len(t) : t[i] \in Nodes
      /\ (t = <<>> <=> Len(t) = 0) /\ (s = <<>> <=> Len(s) = 0)
  BY LenProperties, ElementOfSeq, EmptySeq
<1>2. SUFFICES ASSUME D # {}
               PROVE  FALSE
  OBVIOUS
<1>3. D \subseteq Nat
  BY <1>1
<1>4. PICK m \in D : \A k \in D : m <= k
  <2> HIDE DEF D
  <2> QED
    BY <1>2, <1>3, Least
<1>5. m \in 1..Len(s) /\ s # <<>> /\ list.first = s[1]
  BY <1>1 DEF Chain
<1>6. t # <<>> /\ Len(t) >= 1 /\ t[1] = s[1] /\ next[t[Len(t)]] = NULL
  BY <1>1, <1>5, NodesAssumption DEF Chain, NodesAssumption
<1>7. m # 1
  BY <1>1, <1>6
<1>8. m - 1 \in 1..Len(s) /\ m - 1 \notin D /\ m - 1 \in 1..(Len(s) - 1) /\ (m - 1) + 1 = m
  BY <1>1, <1>4, <1>5, <1>7
<1>9. m - 1 <= Len(t) /\ s[m - 1] = t[m - 1] /\ next[s[m - 1]] = s[m] /\ s[m] # NULL
  BY <1>1, <1>5, <1>8, NodesAssumption DEF Chain, NodesAssumption
<1>10. m - 1 # Len(t)
  BY <1>6, <1>9
<1>11. m - 1 \in 1..(Len(t) - 1) /\ m <= Len(t)
  BY <1>1, <1>8, <1>9, <1>10
<1>12. t[m] = s[m]
  BY <1>8, <1>9, <1>11 DEF Chain
<1> QED
  BY <1>11, <1>12

\* There is one chain.
LEMMA ChainUnique ==
  ASSUME NEW s \in Seq(Nodes), NEW t \in Seq(Nodes), Chain(s), Chain(t)
  PROVE  s = t
<1>1. \A i \in 1..Len(s) : i <= Len(t) /\ s[i] = t[i]
  BY ChainWithin
<1>2. \A i \in 1..Len(t) : i <= Len(s)
  BY ChainWithin
<1>3. Len(s) \in Nat /\ Len(t) \in Nat
  BY LenProperties
<1>4. Len(s) <= Len(t) /\ Len(t) <= Len(s)
  BY <1>1, <1>2, <1>3
<1>5. Len(s) = Len(t)
  BY <1>3, <1>4
<1> QED
  BY <1>1, <1>5, SameSequence

\* What the walk meets when there is a chain.
LEMMA WalkIs ==
  ASSUME NEW s \in Seq(Nodes), NEW U, U \subseteq Nodes, Enumerates(s, U), Chain(s)
  PROVE  Walk = s
<1>1. IsFiniteSet(U) /\ Cardinality(U) = Len(s) /\ IsFiniteSet(Nodes)
  BY Counting, NodesAssumption DEF NodesAssumption
<1>2. Cardinality(U) <= Cardinality(Nodes) /\ Cardinality(Nodes) \in Nat
  BY <1>1, FS_Subset, FS_CardinalityType
<1>3. Len(s) \in 0..Cardinality(Nodes) /\ s \in [1..Len(s) -> Nodes]
  BY <1>1, <1>2, LenProperties
<1>4. s \in SeqOf(Nodes, Cardinality(Nodes))
  BY <1>3 DEF SeqOf
<1>5. Walk \in SeqOf(Nodes, Cardinality(Nodes)) /\ Chain(Walk)
  BY <1>4 DEF Walk
<1>6. Walk \in Seq(Nodes)
  <2>1. PICK m \in 0..Cardinality(Nodes) : Walk \in [1..m -> Nodes]
    BY <1>5 DEF SeqOf
  <2>2. m \in Nat
    BY <1>2
  <2> QED
    BY <2>1, <2>2, SeqDef
<1> QED
  BY <1>5, <1>6, ChainUnique

\* The links chain all that is allocated, always.
LEMMA Chained ==
  ASSUME IInv
  PROVE  /\ Enumerates(Walk, used) /\ Walk \in Seq(Nodes) /\ Chain(Walk)
         /\ mode = "list" => Walk = order
<1>1. used \subseteq Nodes /\ order \in Seq(Nodes) /\ mode \in {"list", "vec"}
  BY DEF IInv, TypeOK
<1>2. Enumerates(order, used)
  BY DEF IInv, NothingLost, Enumerates
<1>3. CASE mode = "list"
  <2>1. Chain(order)
    BY <1>3 DEF IInv, Linked, Chain
  <2>2. Walk = order
    BY <1>1, <1>2, <2>1, WalkIs
  <2> QED
    BY <1>1, <1>2, <2>1, <2>2
<1>4. CASE mode = "vec"
  <2>1. PICK s \in Seq(Nodes) : Enumerates(s, used) /\ Chain(s)
    BY <1>4 DEF IInv, VecOK
  <2>2. Walk = s
    BY <1>1, <2>1, WalkIs
  <2> QED
    BY <1>4, <2>1, <2>2
<1> QED
  BY <1>1, <1>3, <1>4

------------------------------------------------------------------------------
(* The operations                                                             *)

LEMMA InitInv == Init => IInv
<1> SUFFICES ASSUME Init
             PROVE  IInv
  OBVIOUS
<1>1. <<>> \in Seq(Nodes) /\ Len(<<>>) = 0 /\ 1..0 = {} /\ 1..(0 - 1) = {}
  BY EmptySeq
<1>2. TypeOK
  <2>1. info \in [Nodes -> Files]
    BY DEF Init
  <2>2. list \in [first : Pointers, last : Pointers, n : Nat,
                  sortKey : {"", "n", "t", "b"}, sortOrder : {"", "a", "d", "?"}]
    BY DEF Init, Empty, Pointers
  <2> QED
    BY <1>1, <2>1, <2>2 DEF Init, TypeOK, Pointers
<1>3. Linked
  <2>1. order = <<>> /\ list.n = 0 /\ list.first = NULL /\ list.last = NULL
    BY DEF Init, Empty
  <2> QED
    BY <1>1, <2>1 DEF Linked
<1>4. NothingLost /\ Counted /\ VecOK
  BY <1>1 DEF Init, Empty, NothingLost, Counted, VecOK
<1> QED
  BY <1>2, <1>3, <1>4 DEF IInv

\* What IInv says of the order, in the form the steps use.
LEMMA OrderIs ==
  ASSUME IInv
  PROVE  /\ order \in Seq(Nodes) /\ Len(order) \in Nat /\ Enumerates(order, used)
         /\ \A i \in 1..Len(order) : order[i] \in used /\ order[i] \in Nodes
         /\ (order = <<>> <=> Len(order) = 0)
<1>1. order \in Seq(Nodes) /\ Enumerates(order, used)
  BY DEF IInv, TypeOK, NothingLost, Enumerates
<1>2. \A i \in 1..Len(order) : order[i] \in used
  BY <1>1 DEF Enumerates
<1> QED
  BY <1>1, <1>2, LenProperties, ElementOfSeq, EmptySeq

LEMMA EnumeratesLost ==
  ASSUME Enumerates(order, used)'
  PROVE  NothingLost'
BY DEF Enumerates, NothingLost

LEMMA AddInv ==
  ASSUME IInv, NEW x \in Nodes, NEW f \in Files, AddFileInfo(x, f)
  PROVE  IInv'
<1> DEFINE m == Len(order)
<1>1. /\ order' = Append(order, x) /\ order' \in Seq(Nodes) /\ Len(order') = m + 1 /\ m \in Nat
      /\ order'[m + 1] = x /\ \A i \in 1..m : order'[i] = order[i]
  BY OrderIs, AppendProperties DEF AddFileInfo
<1>2. x \notin used /\ used' = used \cup {x} /\ \A i \in 1..m : order[i] # x
  BY OrderIs DEF AddFileInfo
<1>3. NothingLost'
  BY <1>1, <1>2, OrderIs, EnumeratesMore, EnumeratesLost
<1>4. list.n = m /\ mode = "list" /\ mode' = "list" /\ vec = <<>> /\ vec' = <<>>
  BY DEF IInv, Counted, VecOK, AddFileInfo
<1>5. /\ list \in [first : Pointers, last : Pointers, n : Nat,
                   sortKey : {"", "n", "t", "b"}, sortOrder : {"", "a", "d", "?"}]
      /\ next \in [Nodes -> Pointers] /\ prev \in [Nodes -> Pointers]
      /\ info \in [Nodes -> Files] /\ used \subseteq Nodes
      /\ x \in Pointers /\ NULL \in Pointers
  BY DEF IInv, TypeOK, Pointers
<1>8. /\ info' \in [Nodes -> Files] /\ used' \subseteq Nodes
      /\ vec' \in Seq(Nodes) /\ mode' \in {"list", "vec"} /\ order' \in Seq(Nodes)
  <2>1. info' = [info EXCEPT ![x] = f]
    BY DEF AddFileInfo
  <2>2. <<>> \in Seq(Nodes)
    BY EmptySeq
  <2> QED
    BY <1>1, <1>2, <1>4, <1>5, <2>1, <2>2
<1>6. CASE m = 0
  <2>1. order = <<>> /\ list.first = NULL /\ list.last = NULL
    BY <1>6, OrderIs DEF IInv, Counted
  <2>2. /\ list' = [list EXCEPT !.first = x, !.last = x, !.n = 1]
        /\ next' = [next EXCEPT ![x] = NULL] /\ prev' = [prev EXCEPT ![x] = NULL]
    BY <2>1 DEF AddFileInfo
  <2>3. list'.first = x /\ list'.last = x /\ list'.n = 1 /\ next'[x] = NULL /\ prev'[x] = NULL
    BY <1>5, <2>2
  <2>4. TypeOK'
    <3>1. /\ list' \in [first : Pointers, last : Pointers, n : Nat,
                        sortKey : {"", "n", "t", "b"}, sortOrder : {"", "a", "d", "?"}]
          /\ next' \in [Nodes -> Pointers] /\ prev' \in [Nodes -> Pointers]
      BY <1>5, <2>2
    <3> QED
      BY <1>8, <3>1 DEF TypeOK
  <2>5. Len(order') = 1 /\ order'[1] = x /\ order' # <<>>
    BY <1>1, <1>6
  <2>6. Linked' /\ Counted'
    BY <2>3, <2>5 DEF Linked, Counted
  <2> QED
    BY <1>3, <1>4, <2>4, <2>6 DEF IInv, VecOK
<1>7. CASE m # 0
  <2> DEFINE l == order[m]
  <2>1. /\ list.first = order[1] /\ list.last = l /\ l \in Nodes /\ l # x /\ order[1] \in Nodes
        /\ order[1] # x /\ prev[order[1]] = NULL /\ next[l] = NULL
    BY <1>1, <1>2, <1>4, <1>7, OrderIs DEF IInv, Linked
  <2>2. /\ list' = [list EXCEPT !.last = x, !.n = @ + 1]
        /\ next' = [next EXCEPT ![x] = NULL, ![l] = x] /\ prev' = [prev EXCEPT ![x] = l]
    BY <2>1, NodesAssumption DEF AddFileInfo, NodesAssumption
  <2>3. /\ list'.first = order[1] /\ list'.last = x /\ list'.n = m + 1
        /\ next'[x] = NULL /\ next'[l] = x /\ prev'[x] = l
        /\ \A y \in Nodes \ {x} : prev'[y] = prev[y]
        /\ \A y \in Nodes \ {x, l} : next'[y] = next[y]
    BY <1>4, <1>5, <2>1, <2>2
  <2>4. TypeOK'
    <3>1. l \in Pointers /\ list.n + 1 \in Nat
      BY <1>1, <1>4, <2>1 DEF Pointers
    <3> HIDE DEF l
    <3>2. list' \in [first : Pointers, last : Pointers, n : Nat,
                     sortKey : {"", "n", "t", "b"}, sortOrder : {"", "a", "d", "?"}]
      BY <1>5, <2>2, <3>1
    <3>3. next' \in [Nodes -> Pointers] /\ prev' \in [Nodes -> Pointers]
      BY <1>5, <2>2, <3>1
    <3> QED
      BY <1>8, <3>2, <3>3 DEF TypeOK
  <2>5. order'[1] = order[1] /\ order' # <<>> /\ order'[m] = l
    BY <1>1, <1>7, EmptySeq
  <2>6. ASSUME NEW i \in 1..(Len(order') - 1)
        PROVE  next'[order'[i]] = order'[i + 1] /\ prev'[order'[i + 1]] = order'[i]
    <3>1. CASE i = m
      BY <1>1, <2>3, <2>5, <3>1
    <3>2. CASE i # m
      <4>1. i \in 1..(m - 1) /\ i \in 1..m /\ i + 1 \in 1..m /\ m \in 1..m
        BY <1>1, <3>2
      <4>2. next[order[i]] = order[i + 1] /\ prev[order[i + 1]] = order[i]
        BY <1>4, <4>1 DEF IInv, Linked
      <4>3. order[i] \in Nodes \ {x, l} /\ order[i + 1] \in Nodes \ {x}
        BY <1>2, <3>2, <4>1, OrderIs DEF Enumerates
      <4> QED
        BY <1>1, <2>3, <4>1, <4>2, <4>3
    <3> QED
      BY <3>1, <3>2
  <2>7. Linked' /\ Counted'
    BY <1>1, <2>1, <2>3, <2>5, <2>6 DEF Linked, Counted
  <2> QED
    BY <1>3, <1>4, <2>4, <2>7 DEF IInv, VecOK
<1> QED
  BY <1>6, <1>7

LEMMA RemoveInv ==
  ASSUME IInv, NEW x \in Nodes, RemoveFileInfo(x)
  PROVE  IInv' /\ \E k \in 1..Len(order) : order' = RemoveAt(order, k)
<1> DEFINE m == Len(order)
           k == CHOOSE i \in 1..Len(order) : order[i] = x
<1>1. x \in used /\ \E i \in 1..m : order[i] = x
  BY OrderIs DEF RemoveFileInfo, Enumerates
<1>2. k \in 1..m /\ order[k] = x /\ order' = RemoveAt(order, k)
  BY <1>1 DEF RemoveFileInfo
<1> HIDE DEF k
<1>3. /\ order' \in Seq(Nodes) /\ Len(order') = m - 1 /\ m \in Nat
      /\ \A i \in 1..(m - 1) : order'[i] = IF i < k THEN order[i] ELSE order[i + 1]
  BY <1>2, OrderIs, WithoutOne
<1>4. NothingLost'
  <2>1. used' = used \ {order[k]}
    BY <1>2 DEF RemoveFileInfo
  <2> QED
    BY <1>2, <2>1, OrderIs, EnumeratesRest, EnumeratesLost
<1>5. list.n = m /\ mode = "list" /\ mode' = "list" /\ vec = <<>> /\ vec' = <<>>
  BY DEF IInv, Counted, VecOK, RemoveFileInfo
<1>6. /\ list \in [first : Pointers, last : Pointers, n : Nat,
                   sortKey : {"", "n", "t", "b"}, sortOrder : {"", "a", "d", "?"}]
      /\ next \in [Nodes -> Pointers] /\ prev \in [Nodes -> Pointers]
      /\ info \in [Nodes -> Files] /\ used \subseteq Nodes /\ vec \in Seq(Nodes)
  BY DEF IInv, TypeOK
<1>7. /\ \A i \in 1..m : order[i] \in Nodes /\ order[i] # NULL
      /\ \A i, j \in 1..m : order[i] = order[j] => i = j
  BY OrderIs, NodesAssumption DEF NodesAssumption, Enumerates
<1>8. /\ list.first = order[1] /\ list.last = order[m]
      /\ prev[order[1]] = NULL /\ next[order[m]] = NULL
      /\ \A i \in 1..(m - 1) : next[order[i]] = order[i + 1] /\ prev[order[i + 1]] = order[i]
  BY <1>2, <1>5, OrderIs DEF IInv, Linked
<1>9. next[x] = IF k = m THEN NULL ELSE order[k + 1]
  <2>1. k # m => k \in 1..(m - 1)
    BY <1>2, <1>3
  <2> QED
    BY <1>2, <1>8, <2>1
<1>10. prev[x] = IF k = 1 THEN NULL ELSE order[k - 1]
  <2>1. k # 1 => k - 1 \in 1..(m - 1) /\ (k - 1) + 1 = k
    BY <1>2, <1>3
  <2> QED
    BY <1>2, <1>8, <2>1
<1>11. \A i \in 1..m : next'[order[i]] = IF i = k - 1 THEN next[x] ELSE next[order[i]]
  <2> SUFFICES ASSUME NEW i \in 1..m
               PROVE  next'[order[i]] = IF i = k - 1 THEN next[x] ELSE next[order[i]]
    OBVIOUS
  <2>1. CASE k = 1
    <3>1. next' = next
      BY <1>10, <2>1 DEF RemoveFileInfo
    <3>2. i # k - 1
      BY <1>3, <2>1
    <3> QED
      BY <3>1, <3>2
  <2>2. CASE k # 1
    <3>1. k - 1 \in 1..m
      BY <1>2, <1>3, <2>2
    <3>2. prev[x] = order[k - 1] /\ prev[x] # NULL
      BY <1>7, <1>10, <2>2, <3>1
    <3>3. next' = [next EXCEPT ![order[k - 1]] = next[x]]
      BY <3>2 DEF RemoveFileInfo
    <3> QED
      BY <1>6, <1>7, <3>1, <3>3
  <2> QED
    BY <2>1, <2>2
<1>12. \A i \in 1..m : prev'[order[i]] = IF i = k + 1 THEN prev[x] ELSE prev[order[i]]
  <2> SUFFICES ASSUME NEW i \in 1..m
               PROVE  prev'[order[i]] = IF i = k + 1 THEN prev[x] ELSE prev[order[i]]
    OBVIOUS
  <2>1. CASE k = m
    <3>1. prev' = prev
      BY <1>9, <2>1 DEF RemoveFileInfo
    <3>2. i # k + 1
      BY <1>3, <2>1
    <3> QED
      BY <3>1, <3>2
  <2>2. CASE k # m
    <3>1. k + 1 \in 1..m
      BY <1>2, <1>3, <2>2
    <3>2. next[x] = order[k + 1] /\ next[x] # NULL
      BY <1>7, <1>9, <2>2, <3>1
    <3>3. prev' = [prev EXCEPT ![order[k + 1]] = prev[x]]
      BY <3>2 DEF RemoveFileInfo
    <3> QED
      BY <1>6, <1>7, <3>1, <3>3
  <2> QED
    BY <2>1, <2>2
<1>13. /\ next[x] \in Pointers /\ prev[x] \in Pointers
       /\ next' \in [Nodes -> Pointers] /\ prev' \in [Nodes -> Pointers]
  <2>1. next[x] \in Pointers /\ prev[x] \in Pointers
    BY <1>6
  <2>2. next' = next \/ next' = [next EXCEPT ![prev[x]] = next[x]]
    BY DEF RemoveFileInfo
  <2>3. prev' = prev \/ prev' = [prev EXCEPT ![next[x]] = prev[x]]
    BY DEF RemoveFileInfo
  <2>4. next' \in [Nodes -> Pointers]
    BY <1>6, <2>1, <2>2
  <2>5. prev' \in [Nodes -> Pointers]
    BY <1>6, <2>1, <2>3
  <2> QED
    BY <2>1, <2>4, <2>5
<1>14. /\ list' \in [first : Pointers, last : Pointers, n : Nat,
                     sortKey : {"", "n", "t", "b"}, sortOrder : {"", "a", "d", "?"}]
       /\ list'.first = IF list.first = x THEN next[x] ELSE list.first
       /\ list'.last = IF list.last = x THEN prev[x] ELSE list.last
       /\ list'.n = m - 1
  <2>1. m - 1 \in Nat
    BY <1>2, <1>3
  <2>2. list' = [list EXCEPT !.first = IF list.first = x THEN next[x] ELSE list.first,
                             !.last = IF list.last = x THEN prev[x] ELSE list.last,
                             !.n = m - 1]
    BY <1>5 DEF RemoveFileInfo, Unlinked
  <2> QED
    BY <1>6, <1>13, <2>1, <2>2
<1>15. TypeOK'
  <2>1. used' \subseteq Nodes /\ info' = info /\ vec' = vec
    BY <1>6 DEF RemoveFileInfo
  <2> QED
    BY <1>3, <1>5, <1>6, <1>13, <1>14, <2>1 DEF TypeOK
<1>16. ASSUME NEW i \in 1..(Len(order') - 1)
       PROVE  next'[order'[i]] = order'[i + 1] /\ prev'[order'[i + 1]] = order'[i]
  <2>1. i \in 1..(m - 1) /\ i + 1 \in 1..(m - 1) /\ i \in 1..m /\ i + 1 \in 1..m /\ i + 2 \in 1..m
    BY <1>3
  <2>2. CASE i + 1 < k
    <3>1. order'[i] = order[i] /\ order'[i + 1] = order[i + 1] /\ i # k - 1 /\ i + 1 # k + 1
      BY <1>2, <1>3, <2>1, <2>2
    <3> QED
      BY <1>8, <1>11, <1>12, <2>1, <3>1
  <2>3. CASE i + 1 = k
    <3>1. /\ order'[i] = order[i] /\ order'[i + 1] = order[i + 2] /\ i = k - 1
          /\ i + 2 = k + 1 /\ k # m /\ k # 1
      BY <1>2, <1>3, <2>1, <2>3
    <3>2. next'[order[i]] = order[i + 2]
      BY <1>9, <1>11, <2>1, <3>1
    <3>3. prev'[order[i + 2]] = order[i]
      BY <1>10, <1>12, <2>1, <3>1
    <3> QED
      BY <3>1, <3>2, <3>3
  <2>4. CASE i + 1 > k
    <3>1. /\ order'[i] = order[i + 1] /\ order'[i + 1] = order[(i + 1) + 1]
          /\ i + 1 # k - 1 /\ (i + 1) + 1 # k + 1 /\ (i + 1) + 1 \in 1..m
      BY <1>2, <1>3, <2>1, <2>4
    <3>2. next[order[i + 1]] = order[(i + 1) + 1] /\ prev[order[(i + 1) + 1]] = order[i + 1]
      BY <1>8, <2>1
    <3> QED
      BY <1>11, <1>12, <2>1, <3>1, <3>2
  <2> QED
    BY <1>2, <1>3, <2>1, <2>2, <2>3, <2>4
<1>17. CASE m = 1
  <2>1. k = 1 /\ order' = <<>>
    BY <1>2, <1>3, <1>17, EmptySeq
  <2>2. list'.first = NULL /\ list'.last = NULL
    BY <1>2, <1>8, <1>9, <1>10, <1>14, <1>17, <2>1
  <2>3. Linked' /\ Counted'
    BY <1>3, <1>14, <1>16, <2>1, <2>2 DEF Linked, Counted
  <2> QED
    BY <1>2, <1>4, <1>5, <1>15, <2>3 DEF IInv, VecOK
<1>18. CASE m # 1
  <2>1. /\ order' # <<>> /\ 1 \in 1..(m - 1) /\ m - 1 \in 1..(m - 1) /\ m \in 1..m
        /\ 1 \in 1..m /\ m - 1 \in 1..m /\ (m - 1) + 1 = m /\ 2 \in 1..m
    BY <1>2, <1>3, <1>18, EmptySeq
  <2>2. list'.first = order'[1] /\ prev'[order'[1]] = NULL
    <3>1. CASE k = 1
      <4>1. order'[1] = order[2] /\ list.first = x /\ next[x] = order[2] /\ prev[x] = NULL
        BY <1>2, <1>3, <1>8, <1>9, <1>10, <1>18, <2>1, <3>1
      <4>2. prev'[order[2]] = NULL
        BY <1>12, <2>1, <3>1, <4>1
      <4>3. list'.first = order[2]
        BY <1>14, <4>1
      <4> QED
        BY <4>1, <4>2, <4>3
    <3>2. CASE k # 1
      <4>1. order'[1] = order[1] /\ list.first # x /\ 1 # k + 1
        BY <1>2, <1>3, <1>7, <1>8, <2>1, <3>2
      <4> QED
        BY <1>8, <1>12, <1>14, <2>1, <4>1
    <3> QED
      BY <3>1, <3>2
  <2>3. list'.last = order'[m - 1] /\ next'[order'[m - 1]] = NULL
    <3>1. CASE k = m
      <4>1. order'[m - 1] = order[m - 1] /\ list.last = x /\ prev[x] = order[m - 1] /\ next[x] = NULL
        BY <1>2, <1>3, <1>8, <1>9, <1>10, <1>18, <2>1, <3>1
      <4> QED
        BY <1>11, <1>14, <2>1, <3>1, <4>1
    <3>2. CASE k # m
      <4>1. order'[m - 1] = order[m] /\ list.last # x /\ m # k - 1
        BY <1>2, <1>3, <1>7, <1>8, <2>1, <3>2
      <4> QED
        BY <1>8, <1>11, <1>14, <2>1, <4>1
    <3> QED
      BY <3>1, <3>2
  <2>4. Linked' /\ Counted'
    BY <1>3, <1>14, <1>16, <2>1, <2>2, <2>3 DEF Linked, Counted
  <2> QED
    BY <1>2, <1>4, <1>5, <1>15, <2>4 DEF IInv, VecOK
<1> QED
  BY <1>17, <1>18

LEMMA VectorizeInv ==
  ASSUME IInv, VectorizeFileInfoList
  PROVE  IInv' /\ order' = order
<1>1. /\ mode = "list" /\ vec' = order /\ mode' = "vec" /\ order \in Seq(Nodes)
      /\ Enumerates(order, used) /\ Chain(order)
      /\ UNCHANGED <<list, next, prev, info, used, order>>
  BY Chained DEF VectorizeFileInfoList
<1>2. Chain(order)'
  BY <1>1 DEF Chain
<1>3. VecOK'
  BY <1>1, <1>2 DEF VecOK
<1>4. TypeOK'
  BY <1>1 DEF IInv, TypeOK
<1>5. Linked'
  BY <1>1 DEF Linked
<1>6. NothingLost' /\ Counted'
  BY <1>1 DEF IInv, NothingLost, Counted
<1> QED
  BY <1>1, <1>3, <1>4, <1>5, <1>6 DEF IInv

\* A vector that is reversed holds the same nodes.
LEMMA ReversedIs ==
  ASSUME NEW U, NEW s \in Seq(U), NEW V, Enumerates(s, V)
  PROVE  Reverse(s) \in Seq(U) /\ Enumerates(Reverse(s), V)
<1> DEFINE m == Len(s)
           t == [i \in 1..m |-> s[(m - i) + 1]]
<1>1. m \in Nat /\ \A i \in 1..m : s[i] \in U
  BY LenProperties, ElementOfSeq
<1>2. \A i \in 1..m : (m - i) + 1 \in 1..m /\ (m - ((m - i) + 1)) + 1 = i
  BY <1>1
<1>3. t \in [1..m -> U]
  BY <1>1, <1>2
<1>4. t \in Seq(U) /\ Len(t) = m
  BY <1>1, <1>3, SeqDef, LenProperties
<1>5. ASSUME NEW i \in 1..m
      PROVE  t[i] \in V /\ s[i] \in {t[j] : j \in 1..m}
  <2>1. s[i] = t[(m - i) + 1]
    BY <1>2
  <2> QED
    BY <1>2, <2>1 DEF Enumerates
<1>6. ASSUME NEW i \in 1..m, NEW j \in 1..m, t[i] = t[j]
      PROVE  i = j
  <2>1. (m - i) + 1 = (m - j) + 1
    BY <1>2, <1>6 DEF Enumerates
  <2> QED
    BY <1>1, <2>1
<1>7. Enumerates(t, V)
  <2> HIDE DEF t
  <2>1. ASSUME NEW y \in V
        PROVE  \E i \in 1..m : y = t[i]
    <3>1. PICK i \in 1..m : y = s[i]
      BY DEF Enumerates
    <3> QED
      BY <1>5, <3>1
  <2>2. V = {t[i] : i \in 1..m}
    BY <1>5, <2>1
  <2> QED
    BY <1>4, <1>6, <2>2 DEF Enumerates
<1> QED
  BY <1>4, <1>7 DEF Reverse

\* So does one that qsort() has sorted.
LEMMA SortedIs ==
  ASSUME NEW s \in Seq(Nodes), NEW V, Enumerates(s, V), NEW t \in SetToSeqs(V)
  PROVE  t \in Seq(Nodes) /\ Enumerates(t, V)
<1>1. IsFiniteSet(V) /\ Cardinality(V) = Len(s) /\ Len(s) \in Nat
  BY Counting, LenProperties
<1>2. t \in [1..Len(s) -> V] /\ \A i, j \in 1..Len(s) : i # j => t[i] # t[j]
  BY <1>1 DEF SetToSeqs
<1>3. V \subseteq Nodes
  BY ElementOfSeq DEF Enumerates
<1>4. t \in Seq(Nodes) /\ Len(t) = Len(s)
  <2>1. t \in [1..Len(s) -> Nodes]
    BY <1>2, <1>3
  <2> QED
    BY <1>1, <2>1, SeqDef, LenProperties
<1>5. t \in Injection(1..Len(s), V)
  BY <1>2 DEF Injection, IsInjective
<1>6. Cardinality(1..Len(s)) = Len(s)
  <2>1. 1 \in Int /\ Len(s) \in Int
    BY <1>1
  <2>2. Cardinality(1..Len(s)) = IF 1 > Len(s) THEN 0 ELSE Len(s) - 1 + 1
    BY <2>1, FS_Interval
  <2> QED
    BY <1>1, <2>2
<1>7. IsFiniteSet(1..Len(s))
  BY <1>1, FS_Interval
<1>8. t \in Surjection(1..Len(s), V)
  BY <1>1, <1>5, <1>6, <1>7, FS_Injection
<1>9. V = {t[i] : i \in 1..Len(t)}
  <2>1. ASSUME NEW y \in V
        PROVE  \E i \in 1..Len(s) : t[i] = y
    BY <1>8 DEF Surjection
  <2> QED
    BY <1>2, <1>4, <2>1
<1> QED
  BY <1>2, <1>4, <1>9 DEF Enumerates


LEMMA SortInv ==
  ASSUME IInv, NEW o \in Orderings, SortFileInfoList(o[1], o[2])
  PROVE  IInv' /\ Enumerates(order', used) /\ info' = info
<1>1. mode = "vec" /\ vec = order /\ order \in Seq(Nodes) /\ Enumerates(order, used)
  BY OrderIs DEF IInv, VecOK, SortFileInfoList
<1>2. order' = vec' /\ mode' = mode /\ UNCHANGED <<next, prev, info, used>>
  BY DEF SortFileInfoList
<1>3. vec' \in Seq(Nodes) /\ Enumerates(vec', used)
  <2>1. CASE UNCHANGED vec
    BY <1>1, <2>1
  <2>2. CASE vec' = Reverse(vec)
    BY <1>1, <2>2, ReversedIs
  <2>3. CASE vec' \in Sorts(o[1], o[2])
    <3>1. {vec[i] : i \in 1..Len(vec)} = used
      BY <1>1 DEF Enumerates
    <3>2. vec' \in SetToSeqs(used)
      BY <2>3, <3>1 DEF Sorts
    <3> QED
      BY <1>1, <3>2, SortedIs
  <2> QED
    BY <2>1, <2>2, <2>3 DEF SortFileInfoList
<1>4. Len(order') = Len(order) /\ Len(order) \in Nat /\ (order' = <<>> <=> Len(order') = 0)
      /\ (order = <<>> <=> Len(order) = 0)
  BY <1>1, <1>2, <1>3, Rearranged, LenProperties, EmptySeq
<1>5. list' = [list EXCEPT !.sortKey = o[1], !.sortOrder = o[2]]
  BY DEF SortFileInfoList
<1>6. o[1] \in {"", "n", "t", "b"} /\ o[2] \in {"", "a", "d", "?"}
  <2>1. CASE o \in {"n", "t"} \X {"a", "d"}
    <3>1. PICK k \in {"n", "t"}, a \in {"a", "d"} : o = <<k, a>>
      BY <2>1
    <3> QED
      BY <3>1
  <2>2. CASE o = <<"b", "?">>
    BY <2>2
  <2> QED
    BY <2>1, <2>2 DEF Orderings
<1>7. list \in [first : Pointers, last : Pointers, n : Nat,
                sortKey : {"", "n", "t", "b"}, sortOrder : {"", "a", "d", "?"}]
  BY DEF IInv, TypeOK
<1>8. TypeOK'
  <2>1. list' \in [first : Pointers, last : Pointers, n : Nat,
                   sortKey : {"", "n", "t", "b"}, sortOrder : {"", "a", "d", "?"}]
    BY <1>5, <1>6, <1>7
  <2> QED
    BY <1>2, <1>3, <2>1 DEF IInv, TypeOK
<1>9. list'.n = list.n /\ list'.first = list.first /\ list'.last = list.last
  BY <1>5, <1>7
<1>10. Counted'
  BY <1>4, <1>9 DEF IInv, Counted
<1>11. NothingLost'
  BY <1>2, <1>3 DEF Enumerates, NothingLost
<1>12. VecOK'
  <2>1. PICK s \in Seq(Nodes) : Enumerates(s, used) /\ Chain(s)
    BY <1>1 DEF IInv, VecOK
  <2>2. Chain(s)'
    BY <1>2, <1>9, <2>1 DEF Chain
  <2> QED
    BY <1>1, <1>2, <2>1, <2>2 DEF VecOK
<1>13. Linked'
  BY <1>1, <1>2 DEF Linked
<1> QED
  BY <1>2, <1>3, <1>8, <1>10, <1>11, <1>12, <1>13 DEF IInv

LEMMA UnvectorizeInv ==
  ASSUME IInv, UnvectorizeFileInfoList
  PROVE  IInv' /\ UNCHANGED <<order, info>>
<1> DEFINE m == Len(order)
           at(x) == CHOOSE i \in 1..m : order[i] = x
<1>1. /\ mode = "vec" /\ vec = order /\ list.n = m /\ m \in Nat
      /\ order = <<>> => list.first = NULL /\ list.last = NULL
  BY OrderIs DEF IInv, VecOK, Counted, UnvectorizeFileInfoList
<1>2. /\ order \in Seq(Nodes) /\ used = {order[i] : i \in 1..m} /\ used \subseteq Nodes
      /\ \A i \in 1..m : order[i] \in Nodes /\ order[i] \in used
      /\ \A i, j \in 1..m : order[i] = order[j] => i = j
      /\ (order = <<>> <=> m = 0)
  BY OrderIs DEF Enumerates, IInv, TypeOK
<1>3. vec' = <<>> /\ mode' = "list" /\ UNCHANGED <<info, used, order>>
  BY DEF UnvectorizeFileInfoList
<1>4. /\ list' = [list EXCEPT !.first = IF m > 0 THEN order[1] ELSE NULL,
                              !.last = IF m > 0 THEN order[m] ELSE @]
      /\ next' = [x \in Nodes |-> IF x \in used THEN (IF at(x) < m THEN order[at(x) + 1] ELSE NULL)
                                                ELSE next[x]]
      /\ prev' = [x \in Nodes |-> IF x \in used THEN (IF at(x) > 1 THEN order[at(x) - 1] ELSE NULL)
                                                ELSE prev[x]]
  BY <1>1, <1>2 DEF UnvectorizeFileInfoList
<1>5. \A x \in used : at(x) \in 1..m /\ order[at(x)] = x
  BY <1>2
<1>6. \A i \in 1..m : at(order[i]) = i
  BY <1>2, <1>5
<1> HIDE DEF at
<1>7. /\ list \in [first : Pointers, last : Pointers, n : Nat,
                   sortKey : {"", "n", "t", "b"}, sortOrder : {"", "a", "d", "?"}]
      /\ next \in [Nodes -> Pointers] /\ prev \in [Nodes -> Pointers] /\ info \in [Nodes -> Files]
      /\ NULL \in Pointers /\ \A i \in 1..m : order[i] \in Pointers
  BY <1>2 DEF IInv, TypeOK, Pointers
<1>8. /\ list' \in [first : Pointers, last : Pointers, n : Nat,
                    sortKey : {"", "n", "t", "b"}, sortOrder : {"", "a", "d", "?"}]
      /\ list'.n = m
      /\ list'.first = IF m > 0 THEN order[1] ELSE NULL
      /\ list'.last = IF m > 0 THEN order[m] ELSE NULL
  <2>1. (m > 0 => 1 \in 1..m /\ m \in 1..m) /\ (~(m > 0) => m = 0)
    BY <1>1
  <2> DEFINE a == IF m > 0 THEN order[1] ELSE NULL
             b == IF m > 0 THEN order[m] ELSE list.last
  <2>2. list' = [list EXCEPT !.first = a, !.last = b] /\ a \in Pointers /\ b \in Pointers
    BY <1>4, <1>7, <2>1
  <2>3. ~(m > 0) => list.last = NULL
    BY <1>1, <1>2, <2>1
  <2> HIDE DEF a, b
  <2>4. /\ list' \in [first : Pointers, last : Pointers, n : Nat,
                      sortKey : {"", "n", "t", "b"}, sortOrder : {"", "a", "d", "?"}]
        /\ list'.n = list.n /\ list'.first = a /\ list'.last = b
    BY <1>7, <2>2
  <2> QED
    BY <1>1, <2>3, <2>4 DEF a, b
<1>9. next' \in [Nodes -> Pointers]
  <2>1. ASSUME NEW x \in Nodes
        PROVE  (IF x \in used THEN (IF at(x) < m THEN order[at(x) + 1] ELSE NULL)
                              ELSE next[x]) \in Pointers
    <3>1. x \in used /\ at(x) < m => at(x) + 1 \in 1..m
      BY <1>1, <1>5
    <3> QED
      BY <1>7, <3>1
  <2> QED
    BY <1>4, <2>1
<1>10. prev' \in [Nodes -> Pointers]
  <2>1. ASSUME NEW x \in Nodes
        PROVE  (IF x \in used THEN (IF at(x) > 1 THEN order[at(x) - 1] ELSE NULL)
                              ELSE prev[x]) \in Pointers
    <3>1. x \in used /\ at(x) > 1 => at(x) - 1 \in 1..m
      BY <1>1, <1>5
    <3> QED
      BY <1>7, <3>1
  <2> QED
    BY <1>4, <2>1
<1>11. TypeOK'
  BY <1>2, <1>3, <1>7, <1>8, <1>9, <1>10, EmptySeq DEF TypeOK
<1>12. \A i \in 1..m : /\ next'[order[i]] = IF i < m THEN order[i + 1] ELSE NULL
                       /\ prev'[order[i]] = IF i > 1 THEN order[i - 1] ELSE NULL
  BY <1>2, <1>4, <1>6
<1>13. ASSUME NEW i \in 1..(m - 1)
       PROVE  next'[order[i]] = order[i + 1] /\ prev'[order[i + 1]] = order[i]
  <2>1. i \in 1..m /\ i < m /\ i + 1 \in 1..m /\ i + 1 > 1 /\ (i + 1) - 1 = i
    BY <1>1
  <2> QED
    BY <1>12, <2>1
<1>14. order # <<>> => prev'[order[1]] = NULL /\ next'[order[m]] = NULL
  <2>1. order # <<>> => 1 \in 1..m /\ m \in 1..m /\ ~(1 > 1) /\ ~(m < m)
    BY <1>1, <1>2
  <2> QED
    BY <1>12, <2>1
<1>15. (order = <<>> => ~(m > 0)) /\ (order # <<>> => m > 0)
  BY <1>1, <1>2
<1>16. Linked' /\ Counted'
  BY <1>3, <1>8, <1>13, <1>14, <1>15 DEF Linked, Counted
<1>17. NothingLost' /\ VecOK'
  BY <1>3 DEF IInv, NothingLost, VecOK
<1> QED
  BY <1>3, <1>11, <1>16, <1>17 DEF IInv

LEMMA DisposeInv ==
  ASSUME IInv, DisposeFileInfoListContents
  PROVE  IInv' /\ order' = <<>> /\ list'.n = 0
<1>1. /\ list' = Empty /\ vec' = <<>> /\ mode' = "list" /\ order' = <<>>
      /\ UNCHANGED <<next, prev, info>>
  BY DEF DisposeFileInfoListContents
<1>2. used' = {}
  BY Chained DEF DisposeFileInfoListContents, Enumerates
<1>3. <<>> \in Seq(Nodes) /\ Len(<<>>) = 0 /\ 1..0 = {} /\ 1..(0 - 1) = {}
  BY EmptySeq
<1>4. list'.n = 0 /\ list'.first = NULL /\ list'.last = NULL
  BY <1>1 DEF Empty
<1>5. TypeOK'
  <2>1. Empty \in [first : Pointers, last : Pointers, n : Nat,
                   sortKey : {"", "n", "t", "b"}, sortOrder : {"", "a", "d", "?"}]
    BY DEF Empty, Pointers
  <2> QED
    BY <1>1, <1>2, <1>3, <2>1 DEF IInv, TypeOK
<1>6. Linked' /\ Counted'
  BY <1>1, <1>3, <1>4 DEF Linked, Counted
<1>7. NothingLost' /\ VecOK'
  BY <1>1, <1>2, <1>3 DEF NothingLost, VecOK
<1> QED
  BY <1>1, <1>4, <1>5, <1>6, <1>7 DEF IInv

LEMMA NextInv == IInv /\ [Next]_vars => IInv'
<1> SUFFICES ASSUME IInv, [Next]_vars
             PROVE  IInv'
  OBVIOUS
<1>1. ASSUME NEW x \in Nodes, NEW f \in Files, AddFileInfo(x, f)
      PROVE  IInv'
  BY <1>1, AddInv
<1>2. ASSUME NEW x \in Nodes, RemoveFileInfo(x)
      PROVE  IInv'
  BY <1>2, RemoveInv
<1>3. CASE VectorizeFileInfoList
  BY <1>3, VectorizeInv
<1>4. ASSUME NEW o \in Orderings, SortFileInfoList(o[1], o[2])
      PROVE  IInv'
  BY <1>4, SortInv
<1>5. CASE UnvectorizeFileInfoList
  BY <1>5, UnvectorizeInv
<1>6. CASE DisposeFileInfoListContents
  BY <1>6, DisposeInv
<1>7. CASE UNCHANGED vars
  <2>1. UNCHANGED <<list, next, prev, info, used, vec, mode, order>>
    BY <1>7 DEF vars
  <2>2. TypeOK'
    BY <2>1 DEF IInv, TypeOK
  <2>3. NothingLost'
    BY <2>1 DEF IInv, NothingLost
  <2>4. Counted'
    BY <2>1 DEF IInv, Counted
  <2>5. Linked'
    BY <2>1 DEF IInv, Linked
  <2>6. \A s : Chain(s) => Chain(s)'
    BY <2>1 DEF Chain
  <2>7. VecOK'
    BY <2>1, <2>6 DEF IInv, VecOK
  <2> QED
    BY <2>2, <2>3, <2>4, <2>5, <2>7 DEF IInv
<1> QED
  BY <1>1, <1>2, <1>3, <1>4, <1>5, <1>6, <1>7 DEF Next

\* The links of a FTPFileInfoList chain all its nodes in order, the counter counts them,
\* the vector holds what the links hold, and no node is lost: after any mixture of
\* additions, removals, sorts and disposals, also when freed addresses come back.
THEOREM Invariance == Spec => []IInv
<1>1. Init => IInv
  BY InitInv
<1>2. IInv /\ [Next]_vars => IInv'
  BY NextInv
<1> QED
  BY <1>1, <1>2, PTL DEF Spec

\* Both chains of pointers, the two ends and the counter of AddFileInfo, RemoveFileInfo
\* and UnvectorizeFileInfoList are always those of one list of all that is allocated.
THEOREM LinksRight == Spec => []Inv
<1>1. IInv => Inv
  BY DEF IInv, Inv
<1> QED
  BY <1>1, Invariance, PTL

------------------------------------------------------------------------------
(* The sequence of files that the list implements                             *)

\* What the user meets, from the order alone.
Shown == [i \in 1..Len(order) |-> info[order[i]]]

LEMMA ShownIs == IInv => Contents = Shown
<1> SUFFICES ASSUME IInv
             PROVE  Contents = Shown
  OBVIOUS
<1>1. (IF mode = "vec" THEN vec ELSE Walk) = order
  BY Chained DEF IInv, TypeOK, VecOK
<1> QED
  BY <1>1 DEF Contents, Shown

LEMMA ShownSeq ==
  ASSUME IInv
  PROVE  /\ Shown \in Seq(Files) /\ Len(Shown) = Len(order) /\ Len(order) \in Nat
         /\ \A i \in 1..Len(order) : Shown[i] = info[order[i]]
<1>1. \A i \in 1..Len(order) : info[order[i]] \in Files
  BY OrderIs DEF IInv, TypeOK
<1>2. Shown \in [1..Len(order) -> Files]
  BY <1>1 DEF Shown
<1>3. Len(order) \in Nat
  BY OrderIs
<1>4. Shown \in Seq(Files)
  BY <1>2, <1>3, SeqDef
<1>5. Len(Shown) = Len(order)
  BY <1>2, <1>3, <1>4, LenProperties
<1> QED
  BY <1>3, <1>4, <1>5 DEF Shown

LEMMA ShownSeqNext ==
  ASSUME IInv'
  PROVE  /\ Shown' \in Seq(Files) /\ Len(Shown') = Len(order') /\ Len(order') \in Nat
         /\ \A i \in 1..Len(order') : Shown'[i] = info'[order'[i]]
<1>1. /\ order' \in Seq(Nodes) /\ info' \in [Nodes -> Files]
  BY DEF IInv, TypeOK
<1>2. Len(order') \in Nat /\ \A i \in 1..Len(order') : order'[i] \in Nodes
  BY <1>1, LenProperties, ElementOfSeq
<1>3. Shown' \in [1..Len(order') -> Files]
  BY <1>1, <1>2 DEF Shown
<1>4. Shown' \in Seq(Files)
  BY <1>2, <1>3, SeqDef
<1>5. Len(Shown') = Len(order')
  BY <1>2, <1>3, <1>4, LenProperties
<1> QED
  BY <1>2, <1>4, <1>5 DEF Shown

LEMMA AddStep ==
  ASSUME IInv, NEW x \in Nodes, NEW f \in Files, AddFileInfo(x, f)
  PROVE  Shown' = Append(Shown, f) /\ list'.n = list.n + 1
<1> DEFINE m == Len(order)
           t == Append(Shown, f)
<1>1. IInv' /\ list.n = m /\ list'.n = Len(order')
  BY AddInv DEF IInv, Counted
<1>2. /\ Len(order') = m + 1 /\ m \in Nat
      /\ order'[m + 1] = x /\ \A i \in 1..m : order'[i] = order[i]
  BY OrderIs, AppendProperties DEF AddFileInfo
<1>3. info'[x] = f /\ \A y \in Nodes \ {x} : info'[y] = info[y]
  BY DEF AddFileInfo, IInv, TypeOK
<1>4. \A i \in 1..m : order[i] \in Nodes \ {x}
  BY OrderIs DEF AddFileInfo
<1>5. /\ t \in Seq(Files) /\ Len(t) = m + 1 /\ t[m + 1] = f
      /\ \A i \in 1..m : t[i] = info[order[i]]
  BY ShownSeq, AppendProperties
<1>6. ASSUME NEW i \in 1..(m + 1)
      PROVE  Shown'[i] = t[i]
  <2>1. Shown'[i] = info'[order'[i]]
    BY <1>1, <1>2, ShownSeqNext
  <2>2. CASE i = m + 1
    BY <1>2, <1>3, <1>5, <2>1, <2>2
  <2>3. CASE i # m + 1
    <3>1. i \in 1..m
      BY <1>2, <2>3
    <3> QED
      BY <1>2, <1>3, <1>4, <1>5, <2>1, <3>1
  <2> QED
    BY <2>2, <2>3
<1>7. Shown' \in Seq(Files) /\ Len(Shown') = m + 1
  BY <1>1, <1>2, ShownSeqNext
<1> HIDE DEF t
<1>8. Shown' = t
  BY <1>5, <1>6, <1>7, SameSequence
<1> QED
  BY <1>1, <1>2, <1>8 DEF t

LEMMA RemoveStep ==
  ASSUME IInv, NEW x \in Nodes, RemoveFileInfo(x)
  PROVE  \E k \in 1..Len(Shown) : Shown' = RemoveAt(Shown, k) /\ list'.n = list.n - 1
<1> DEFINE m == Len(order)
<1>1. IInv' /\ list.n = m /\ list'.n = Len(order')
  BY RemoveInv DEF IInv, Counted
<1>2. PICK k \in 1..m : order' = RemoveAt(order, k)
  BY RemoveInv
<1> DEFINE t == RemoveAt(Shown, k)
<1>3. /\ Len(order') = m - 1 /\ m \in Nat
      /\ \A i \in 1..(m - 1) : order'[i] = IF i < k THEN order[i] ELSE order[i + 1]
  BY <1>2, OrderIs, WithoutOne
<1>4. Len(Shown) = m /\ Shown \in Seq(Files) /\ \A i \in 1..m : Shown[i] = info[order[i]]
  BY ShownSeq
<1>5. /\ t \in Seq(Files) /\ Len(t) = m - 1
      /\ \A i \in 1..(m - 1) : t[i] = IF i < k THEN Shown[i] ELSE Shown[i + 1]
  <2>1. k \in 1..Len(Shown) /\ Shown \in Seq(Files)
    BY <1>4
  <2>2. /\ RemoveAt(Shown, k) \in Seq(Files) /\ Len(RemoveAt(Shown, k)) = Len(Shown) - 1
        /\ \A i \in 1..(Len(Shown) - 1) :
             RemoveAt(Shown, k)[i] = IF i < k THEN Shown[i] ELSE Shown[i + 1]
    BY <2>1, WithoutOne
  <2> QED
    BY <1>4, <2>2
<1>6. info' = info
  BY DEF RemoveFileInfo
<1>7. ASSUME NEW i \in 1..(m - 1)
      PROVE  Shown'[i] = t[i]
  <2>1. Shown'[i] = info[order'[i]] /\ i \in 1..m /\ i + 1 \in 1..m
    BY <1>1, <1>3, <1>6, ShownSeqNext
  <2> HIDE DEF t
  <2>2. CASE i < k
    BY <1>3, <1>4, <1>5, <2>1, <2>2
  <2>3. CASE ~(i < k)
    BY <1>3, <1>4, <1>5, <2>1, <2>3
  <2> QED
    BY <2>2, <2>3
<1>8. Shown' \in Seq(Files) /\ Len(Shown') = m - 1
  BY <1>1, <1>3, ShownSeqNext
<1> HIDE DEF t
<1>9. Shown' = t
  BY <1>5, <1>7, <1>8, SameSequence
<1> QED
  BY <1>1, <1>3, <1>4, <1>9 DEF t

LEMMA SortStep ==
  ASSUME IInv, NEW o \in Orderings, SortFileInfoList(o[1], o[2])
  PROVE  /\ list'.n = list.n
         /\ \E p \in [1..Len(Shown) -> 1..Len(Shown)] :
              /\ \A i, j \in 1..Len(Shown) : p[i] = p[j] => i = j
              /\ Shown' = [i \in 1..Len(Shown) |-> Shown[p[i]]]
<1> DEFINE m == Len(order)
<1>1. IInv' /\ info' = info /\ Enumerates(order', used) /\ list.n = m /\ list'.n = Len(order')
  BY SortInv DEF IInv, Counted
<1>2. order \in Seq(Nodes) /\ order' \in Seq(Nodes) /\ Enumerates(order, used)
  BY <1>1, OrderIs DEF IInv, TypeOK
<1>3. PICK p : Rearranges(p, order, order')
  BY <1>1, <1>2, Rearranged
<1>4. Len(order') = m
  BY <1>1, <1>2, Rearranged
<1>5. Len(Shown) = m /\ \A i \in 1..m : Shown[i] = info[order[i]]
  BY ShownSeq
<1>6. Shown' = [i \in 1..m |-> info[order'[i]]]
  BY <1>1, <1>4 DEF Shown
<1>7. \A i \in 1..m : info[order'[i]] = Shown[p[i]]
  BY <1>3, <1>5 DEF Rearranges
<1>8. Shown' = [i \in 1..m |-> Shown[p[i]]]
  BY <1>6, <1>7
<1> QED
  BY <1>1, <1>3, <1>4, <1>5, <1>8 DEF Rearranges

\* Each step of the list is one of the sequence's, or leaves it as it is.
LEMMA StepIs ==
  ASSUME IInv, [Next]_vars, Contents = Shown, (Contents = Shown)'
  PROVE  [S!Next]_<<Contents, list.n>>
<1>1. Contents = Shown /\ Contents' = Shown'
  OBVIOUS
<1>2. ASSUME NEW x \in Nodes, NEW f \in Files, AddFileInfo(x, f)
      PROVE  S!Add
  <2>1. Contents' = Append(Contents, f) /\ list'.n = list.n + 1
    BY <1>1, <1>2, AddStep
  <2> QED
    BY <2>1 DEF S!Add
<1>3. ASSUME NEW x \in Nodes, RemoveFileInfo(x)
      PROVE  S!RemoveOne
  <2>1. PICK k \in 1..Len(Contents) : Contents' = RemoveAt(Contents, k) /\ list'.n = list.n - 1
    BY <1>1, <1>3, RemoveStep
  <2> QED
    BY <2>1 DEF S!RemoveOne, S!RemoveAt, RemoveAt
<1>4. ASSUME NEW o \in Orderings, SortFileInfoList(o[1], o[2])
      PROVE  S!Sort
  <2>1. /\ list'.n = list.n
        /\ \E p \in [1..Len(Contents) -> 1..Len(Contents)] :
             /\ \A i, j \in 1..Len(Contents) : p[i] = p[j] => i = j
             /\ Contents' = [i \in 1..Len(Contents) |-> Contents[p[i]]]
    BY <1>1, <1>4, SortStep
  <2> QED
    BY <2>1 DEF S!Sort, S!Permuted
<1>5. CASE DisposeFileInfoListContents
  <2>1. order' = <<>> /\ list'.n = 0
    BY <1>5, DisposeInv
  <2>2. Shown' = <<>>
    BY <2>1, EmptySeq DEF Shown
  <2> QED
    BY <1>1, <2>1, <2>2 DEF S!Next, S!Dispose
<1>6. CASE VectorizeFileInfoList
  <2>1. order' = order /\ info' = info /\ list' = list
    BY <1>6 DEF VectorizeFileInfoList
  <2> QED
    BY <1>1, <2>1 DEF Shown
<1>7. CASE UnvectorizeFileInfoList
  <2>1. order' = order /\ info' = info /\ list'.n = Len(order') /\ list.n = Len(order)
    BY <1>7, UnvectorizeInv DEF IInv, Counted
  <2>2. Shown' = Shown /\ list'.n = list.n
    BY <2>1 DEF Shown
  <2> QED
    BY <1>1, <2>2
<1>8. CASE UNCHANGED vars
  <2>1. order' = order /\ info' = info /\ list' = list
    BY <1>8 DEF vars
  <2> QED
    BY <1>1, <2>1 DEF Shown
<1> QED
  BY <1>2, <1>3, <1>4, <1>5, <1>6, <1>7, <1>8 DEF Next, S!Next

\* A FTPFileInfoList implements a sequence of files: AddFileInfo appends, RemoveFileInfo
\* takes one out, a sort rearranges, and laying it out as a vector, or linking it again,
\* shows nothing; nFileInfos is its length.
THEOREM Refines == Spec => IsSequence
<1>1. Init => S!Init
  <2> SUFFICES ASSUME Init
               PROVE  S!Init
    OBVIOUS
  <2>1. order = <<>> /\ list.n = 0
    BY DEF Init, Empty
  <2>2. Contents = Shown
    BY InitInv, ShownIs
  <2>3. Shown = <<>>
    BY <2>1, EmptySeq DEF Shown
  <2> QED
    BY <2>1, <2>2, <2>3 DEF S!Init
<1>2. IInv /\ [Next]_vars /\ Contents = Shown /\ (Contents = Shown)'
        => [S!Next]_<<Contents, list.n>>
  BY StepIs
<1>3. IInv => Contents = Shown
  BY ShownIs
<1> QED
  BY <1>1, <1>2, <1>3, Invariance, PTL DEF Spec, IsSequence, S!Spec
==============================================================================
