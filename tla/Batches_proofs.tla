--------------------------- MODULE Batches_proofs ---------------------------
(***************************************************************************)
(* That a deleted source is safe, that a request which succeeds has        *)
(* delivered what its names stood for, and that a canceled one touches no  *)
(* file any more, with the exceptions Batches names: proved for any trees, *)
(* requests and number of calls.                                           *)
(***************************************************************************)
EXTENDS Batches, FiniteSetTheorems, SequenceTheorems, TLAPS

Values  == Contents \cup {"d", "l", Partial, Mixed}
Entries == [item : Paths, src : Paths, dst : Paths, type : {"-", "d", "l"}]
Results == {"ok", "failed", "newer", "canceled", "lost"}

------------------------------------------------------------------------------
(* The invariant *)

TypeOK ==
  /\ IsTree(remote) /\ IsTree(local)
  /\ connected \in BOOLEAN /\ cancelXfer \in {0, 1}
  /\ req \in Requests \cup {Idle}
  /\ items \in Seq(Paths) /\ files \in Seq(Entries)
  /\ links \subseteq asked /\ IsFiniteSet(links)
  /\ n \in Nat /\ recurse1 \in BOOLEAN /\ named \in BOOLEAN /\ begun \in BOOLEAN
  /\ result \in Results /\ batchResult \in Results
  /\ tar \in {"unknown", "yes", "no"}
  /\ pc \in {"idle", "items", "walk", "files", "done", "canceled", "error", "crashed", "delete"}
  /\ calls \in Nat
  /\ asked \subseteq Entries /\ passed \subseteq asked /\ silent \subseteq asked
  /\ deleted \subseteq asked
  /\ canceled \in BOOLEAN /\ stale \in BOOLEAN /\ forgot \in BOOLEAN

\* Which request is in which loop.
LoopOK ==
  /\ pc \in {"items", "walk"} => req.kind = "GET" /\ files = <<>> /\ items # <<>>
  /\ pc = "walk" => req.recurse /\ IsDir(remote, Head(items))
  /\ pc = "files" => req.kind \in {"GET", "PUT"}
  /\ pc = "delete" => req.kind = "DELE" /\ deleted = {}
  /\ pc = "idle" => asked = {} /\ req = Idle
  /\ pc = "done" => files = <<>> /\ items = <<>>
  /\ pc \in {"done", "canceled", "error", "crashed"} => req.kind \in {"GET", "PUT"}
  /\ items # <<>> => req.kind \in {"GET", "DELE"}
  /\ links # {} => req.kind = "GET"

\* A name that is taken for a file.
FileEntry(dst, item) == [item |-> item, src |-> item, dst |-> dst \o <<Last(item)>>, type |-> "-"]

\* The files of a list, and its links, are among those that the request is about.
ListOK ==
  /\ \A e \in Range(files) : e.type # "d" => e \in asked
  /\ \A e \in links : e.type = "l"
  /\ \A e \in deleted : e.type = "-" /\ e.src \notin DOMAIN From
  /\ req.kind = "GET" => \A e \in asked : e.src \in DOMAIN was \/ e = FileEntry(req.dst, e.item)

\* The source is what it was, but for what the request has deleted.
SourceOK ==
  req.kind \in {"GET", "PUT"} =>
    /\ \A q \in DOMAIN From : q \in DOMAIN was /\ From[q] = was[q]
    /\ \A q \in DOMAIN was \ DOMAIN From : \E d \in deleted : d.src = q

\* A cancellation is the flag's, unless the library has cleared it.
CancelOK ==
  /\ stale => req.kind = "PUT"
  /\ pc = "files" /\ canceled => forgot
  /\ pc = "files" /\ ~stale => cancelXfer = 0
  /\ pc \in {"items", "walk"} /\ canceled /\ ~forgot => cancelXfer = 1
  /\ pc \in {"items", "walk"} /\ cancelXfer = 1 => canceled
  /\ pc = "canceled" => canceled \/ stale
  /\ pc = "delete" => ~canceled

\* What is no more in a list, nor to be listed, is delivered, unless the batch has failed.
DoneOK ==
  /\ pc \in {"items", "walk", "files", "done"} /\ batchResult = "ok" =>
       \A e \in asked \ (passed \cup silent) : e.type = "-" =>
         Holds(e) \/ Clash(e) \/ Moved(e) \/ e \in Range(files) \/ e.item \in Range(items)
  /\ pc = "delete" /\ batchResult = "ok" =>
       \A e \in asked \ silent : e.src \in DOMAIN remote => e.src \in Range(items)

IInv == TypeOK /\ LoopOK /\ ListOK /\ SourceOK /\ CancelOK /\ DoneOK /\ SourceSafe
------------------------------------------------------------------------------
(* Sequences and finite sets *)

\* The images of finitely many elements are finitely many.
LEMMA FiniteImage ==
  ASSUME NEW S, IsFiniteSet(S), NEW f, NEW T, \A y \in T : \E x \in S : y = f[x]
  PROVE  IsFiniteSet(T)
<1> DEFINE R == {x \in S : f[x] \in T}
           g == [x \in R |-> f[x]]
<1>1. IsFiniteSet(R)  BY FS_Subset
<1>2. g \in Surjection(R, T)
  BY DEF Surjection
<1> QED BY <1>1, <1>2, FS_Surjection

\* A list is its first element and its rest.
LEMMA HeadAndTail ==
  ASSUME NEW S, NEW s \in Seq(S), s # <<>>
  PROVE  /\ Head(s) \in S /\ Tail(s) \in Seq(S)
         /\ Range(s) = {Head(s)} \cup Range(Tail(s))
<1>1. Len(s) \in Nat /\ Len(s) >= 1 /\ DOMAIN s = 1 .. Len(s) /\ Head(s) = s[1]
  BY LenProperties, EmptySeq
<1>2. Tail(s) \in Seq(S) /\ Head(s) \in S /\ Len(Tail(s)) = Len(s) - 1
      /\ DOMAIN Tail(s) = 1 .. Len(Tail(s))
      /\ \A i \in 1 .. Len(Tail(s)) : Tail(s)[i] = s[i + 1]
  BY HeadTailProperties, LenProperties
<1>3. ASSUME NEW x \in Range(s) PROVE x \in {Head(s)} \cup Range(Tail(s))
  <2>1. PICK i \in 1 .. Len(s) : x = s[i]  BY <1>1, <1>3 DEF Range
  <2>2. CASE i = 1  BY <2>1, <2>2, <1>1
  <2>3. CASE i # 1
    <3>1. i - 1 \in DOMAIN Tail(s) /\ Tail(s)[i - 1] = s[i]  BY <2>3, <1>1, <1>2
    <3> QED BY <3>1, <2>1 DEF Range
  <2> QED BY <2>2, <2>3
<1>4. ASSUME NEW x \in {Head(s)} \cup Range(Tail(s)) PROVE x \in Range(s)
  <2>1. CASE x = Head(s)
    <3>1. 1 \in DOMAIN s /\ x = s[1]  BY <2>1, <1>1
    <3> QED BY <3>1 DEF Range
  <2>2. CASE x \in Range(Tail(s))
    <3>1. PICK i \in DOMAIN Tail(s) : x = Tail(s)[i]  BY <2>2 DEF Range
    <3>2. i + 1 \in DOMAIN s /\ x = s[i + 1]  BY <3>1, <1>1, <1>2
    <3> QED BY <3>2 DEF Range
  <2> QED BY <1>4, <2>1, <2>2
<1> QED BY <1>2, <1>3, <1>4

\* What is in the list is of its elements' kind.
LEMMA RangeIn ==
  ASSUME NEW S, NEW s \in Seq(S)
  PROVE  \A x \in Range(s) : x \in S
BY ElementOfSeq, LenProperties DEF Range

\* A list has finitely many elements.
LEMMA FiniteRange ==
  ASSUME NEW S, NEW s \in Seq(S), NEW T \in SUBSET Range(s)
  PROVE  IsFiniteSet(T)
<1>1. Len(s) \in Nat /\ DOMAIN s = 1 .. Len(s)  BY LenProperties
<1>2. IsFiniteSet(1 .. Len(s))  BY <1>1, FS_Interval
<1>3. \A y \in T : \E x \in 1 .. Len(s) : y = s[x]  BY <1>1 DEF Range
<1> QED BY <1>2, <1>3, FiniteImage

------------------------------------------------------------------------------
(* Trees *)

LEMMA WithTree ==
  ASSUME NEW t, IsTree(t), NEW p \in Paths, NEW c \in Values
  PROVE  /\ IsTree(With(t, p, c))
         /\ With(t, p, c)[p] = c /\ p \in DOMAIN With(t, p, c)
         /\ \A q \in DOMAIN t : q \in DOMAIN With(t, p, c)
                               /\ (q # p => With(t, p, c)[q] = t[q])
<1>1. DOMAIN With(t, p, c) = DOMAIN t \cup {p}  BY DEF With
<1>2. IsFiniteSet(DOMAIN t \cup {p})  BY FS_AddElement DEF IsTree
<1>3. With(t, p, c) \in [DOMAIN t \cup {p} -> Values]  BY DEF With, IsTree, Values
<1> QED BY <1>1, <1>2, <1>3 DEF IsTree, With, Values

LEMMA WithoutTree ==
  ASSUME NEW t, IsTree(t), NEW p
  PROVE  /\ IsTree(Without(t, p))
         /\ DOMAIN Without(t, p) = DOMAIN t \ {p}
         /\ \A q \in DOMAIN t \ {p} : Without(t, p)[q] = t[q]
<1>1. DOMAIN Without(t, p) = DOMAIN t \ {p}  BY DEF Without
<1>2. IsFiniteSet(DOMAIN t \ {p})  BY FS_RemoveElement DEF IsTree
<1>3. Without(t, p) \in [DOMAIN t \ {p} -> Values]  BY DEF Without, IsTree, Values
<1> QED BY <1>1, <1>2, <1>3 DEF IsTree, Without, Values

\* A path and the directories above it are paths, and finitely many.
Upward(dir) == {SubSeq(dir, 1, i) : i \in 1 .. Len(dir)}

LEMMA UpwardPaths ==
  ASSUME NEW dir \in Seq(Names)
  PROVE  IsFiniteSet(Upward(dir)) /\ Upward(dir) \subseteq Paths
<1>1. Len(dir) \in Nat  BY LenProperties
<1> DEFINE f == [i \in 1 .. Len(dir) |-> SubSeq(dir, 1, i)]
<1>2. IsFiniteSet(1 .. Len(dir))  BY <1>1, FS_Interval
<1>3. \A y \in Upward(dir) : \E x \in 1 .. Len(dir) : y = f[x]
  BY DEF Upward
<1>4. IsFiniteSet(Upward(dir))
  <2> HIDE DEF f
  <2> QED BY <1>2, <1>3, FiniteImage
<1>5. ASSUME NEW i \in 1 .. Len(dir) PROVE SubSeq(dir, 1, i) \in Paths
  <2>1. \A j \in 1 .. i : dir[j] \in Names  BY <1>1, ElementOfSeq
  <2>2. SubSeq(dir, 1, i) \in Seq(Names) /\ Len(SubSeq(dir, 1, i)) = i
    BY <1>1, <2>1, SubSeqProperties
  <2> QED BY <2>2, EmptySeq, LenProperties DEF Paths
<1>6. Upward(dir) \subseteq Paths  BY <1>5 DEF Upward
<1> QED BY <1>4, <1>6

LEMMA MkDirsTree ==
  ASSUME NEW t, IsTree(t), NEW dir \in Seq(Names)
  PROVE  /\ IsTree(MkDirs(t, dir).tree)
         /\ \A q \in DOMAIN t : q \in DOMAIN MkDirs(t, dir).tree
                               /\ MkDirs(t, dir).tree[q] = t[q]
<1> DEFINE missing == {SubSeq(dir, 1, i) : i \in {j \in 1 .. Len(dir) : ~Has(t, SubSeq(dir, 1, j))}}
           known   == {SubSeq(dir, 1, i) : i \in 0 .. Len(dir)} \ missing
           made    == [p \in DOMAIN t \cup missing |-> IF p \in missing THEN "d" ELSE t[p]]
<1>1. MkDirs(t, dir).tree = made \/ MkDirs(t, dir).tree = t
  BY DEF MkDirs
<1>2. missing \subseteq Upward(dir)  BY DEF Upward
<1>3. IsFiniteSet(missing) /\ missing \subseteq Paths
  <2> HIDE DEF missing
  <2> QED BY <1>2, UpwardPaths, FS_Subset
<1>4. IsFiniteSet(DOMAIN t \cup missing)  BY <1>3, FS_Union DEF IsTree
<1>5. missing \cap DOMAIN t = {}  BY DEF Has
<1> HIDE DEF missing
<1>6. made \in [DOMAIN t \cup missing -> Values]  BY DEF IsTree, Values
<1>7. IsTree(made)  BY <1>3, <1>4, <1>6 DEF IsTree, Values
<1>8. \A q \in DOMAIN t : q \in DOMAIN made /\ made[q] = t[q]  BY <1>5
<1> QED BY <1>1, <1>7, <1>8

\* What a walk sees can be put in an order.
LEMMA WalksAreLists ==
  ASSUME NEW t, IsTree(t), NEW dir, NEW o \in Walks(t, dir)
  PROVE  o \in Seq(Below(t, dir))
<1>1. PICK unread : o \in Orders(Visible(t, dir, unread))
  BY DEF Walks
<1> DEFINE B == Visible(t, dir, unread)
<1>2. B \subseteq Below(t, dir) /\ B \subseteq DOMAIN t  BY DEF Visible, Below
<1>3. IsFiniteSet(B)  BY <1>2, FS_Subset DEF IsTree
<1>4. Cardinality(B) \in Nat  BY <1>3, FS_CardinalityType
<1>5. o \in [1 .. Cardinality(B) -> B]  BY <1>1 DEF Orders, SetToSeqs
<1>6. o \in [1 .. Cardinality(B) -> Below(t, dir)]
  <2> HIDE DEF B
  <2> QED BY <1>2, <1>5
<1> QED BY <1>4, <1>6, SeqDef

------------------------------------------------------------------------------
(* Lists *)

\* A list of entries for what is in a tree.
ListIn(t, fs) == fs \in Seq(Entries) /\ \A e \in Range(fs) : e.src \in DOMAIN t

LEMMA PathIs ==
  ASSUME NEW p \in Paths
  PROVE  /\ p \in Seq(Names) /\ Len(p) \in Nat /\ Len(p) >= 1 /\ p # <<>>
         /\ \A i \in 1 .. Len(p) : p[i] \in Names
BY LenProperties, EmptySeq, ElementOfSeq DEF Paths

\* In a directory.
LEMMA PathUnder ==
  ASSUME NEW dir \in Seq(Names), NEW p \in Paths
  PROVE  dir \o p \in Paths /\ Len(dir \o p) = Len(dir) + Len(p)
<1>1. p \in Seq(Names) /\ Len(p) \in Nat /\ Len(p) >= 1 /\ Len(dir) \in Nat
  BY PathIs, LenProperties
<1>2. dir \o p \in Seq(Names) /\ Len(dir \o p) = Len(dir) + Len(p)
  BY <1>1, ConcatProperties
<1>3. dir \o p # <<>>  BY <1>1, <1>2, EmptySeq
<1> QED BY <1>2, <1>3 DEF Paths

LEMMA LastIs ==
  ASSUME NEW dst \in Seq(Names), NEW p \in Paths
  PROVE  <<Last(p)>> \in Paths /\ dst \o <<Last(p)>> \in Paths
<1>1. Last(p) \in Names  BY PathIs DEF Last
<1>2. <<Last(p)>> \in Paths  BY <1>1, EmptySeq DEF Paths
<1> QED BY <1>2, PathUnder

\* What a walk lists.
WalkEntry(t, dst, item, p) == Entry(t, dst, item, p, TRUE)

LEMMA EntryIs ==
  ASSUME NEW dst \in Seq(Names), NEW item \in Paths
  PROVE  FileEntry(dst, item) \in Entries
BY LastIs DEF FileEntry, Entries

LEMMA FileEntryIs ==
  \A t, dst, item : Entry(t, dst, item, item, FALSE) = FileEntry(dst, item)
BY DEF Entry, Destination, FileEntry

LEMMA WalkEntryIs ==
  ASSUME NEW t, NEW dst \in Seq(Names), NEW item \in Paths, NEW p \in Paths,
         Len(item) <= Len(p)
  PROVE  /\ WalkEntry(t, dst, item, p) \in Entries
         /\ WalkEntry(t, dst, item, p).src = p /\ WalkEntry(t, dst, item, p).item = item
<1> DEFINE part == SubSeq(p, Len(item), Len(p))
<1>1. /\ Len(p) \in Nat /\ Len(item) \in Nat /\ Len(item) >= 1
      /\ \A i \in Len(item) .. Len(p) : p[i] \in Names
  BY PathIs
<1>2. part \in Seq(Names) /\ Len(part) >= 1
  BY <1>1, SubSeqProperties
<1>3. part \in Paths
  <2> HIDE DEF part
  <2>1. part # <<>>  BY <1>2, EmptySeq
  <2> QED BY <1>2, <2>1 DEF Paths
<1>4. dst \o part \in Paths
  <2> HIDE DEF part
  <2> QED BY <1>3, PathUnder
<1>5. Destination(dst, item, p, TRUE) \in Paths  BY <1>4 DEF Destination
<1> QED BY <1>5 DEF WalkEntry, Entry, Entries

\* The entries for what is below a directory.
LEMMA BelowIs ==
  ASSUME NEW t, IsTree(t), NEW dst \in Seq(Names), NEW item \in Paths, NEW p \in Below(t, item)
  PROVE  /\ p \in DOMAIN t /\ p \in Paths
         /\ WalkEntry(t, dst, item, p) \in Entries
         /\ WalkEntry(t, dst, item, p).src = p /\ WalkEntry(t, dst, item, p).item = item
<1>1. p \in DOMAIN t /\ p \in Paths /\ Len(item) <= Len(p)
  BY DEF Below, IsStrictPrefix, IsPrefix, IsTree
<1> QED BY <1>1, WalkEntryIs

LEMMA ListIs ==
  ASSUME NEW t, IsTree(t), NEW dst \in Seq(Names), NEW item \in Paths,
         NEW order \in Seq(Below(t, item))
  PROVE  /\ ListIn(t, ListOf(t, dst, item, order))
         /\ \A k \in 0 .. Len(order) : ListIn(t, SubSeq(ListOf(t, dst, item, order), 1, k))
<1> DEFINE fs == ListOf(t, dst, item, order)
<1>1. /\ Len(order) \in Nat /\ DOMAIN order = 1 .. Len(order)
      /\ \A i \in 1 .. Len(order) : order[i] \in Below(t, item)
  BY LenProperties, ElementOfSeq
<1>2. fs = [i \in 1 .. Len(order) |-> WalkEntry(t, dst, item, order[i])]
  BY <1>1 DEF ListOf, WalkEntry
<1>3. ASSUME NEW i \in 1 .. Len(order)
      PROVE  fs[i] \in Entries /\ fs[i].src \in DOMAIN t
  <2>1. fs[i] = WalkEntry(t, dst, item, order[i])  BY <1>2
  <2>2. order[i] \in Below(t, item)  BY <1>1
  <2> QED BY <2>1, <2>2, BelowIs
<1>4. fs = [i \in 1 .. Len(order) |-> fs[i]]  BY <1>2
<1> HIDE DEF fs
<1>5. fs \in [1 .. Len(order) -> Entries]  BY <1>3, <1>4
<1>6. fs \in Seq(Entries) /\ DOMAIN fs = 1 .. Len(order) /\ Len(fs) = Len(order)
  <2>1. fs \in Seq(Entries)  BY <1>1, <1>5, SeqDef
  <2> QED BY <1>1, <1>5, <2>1, LenProperties
<1>7. ListIn(t, fs)  BY <1>3, <1>6 DEF ListIn, Range
<1>8. ASSUME NEW k \in 0 .. Len(order) PROVE ListIn(t, SubSeq(fs, 1, k))
  <2>1. \A i \in 1 .. k : fs[i] \in Entries  BY <1>1, <1>3
  <2>2. k \in Nat /\ k \in Int  BY <1>1
  <2>3. /\ SubSeq(fs, 1, k) \in Seq(Entries) /\ Len(SubSeq(fs, 1, k)) = k
        /\ \A i \in 1 .. k : SubSeq(fs, 1, k)[i] = fs[i]
    BY <2>1, <2>2, SubSeqProperties
  <2>4. ASSUME NEW e \in Range(SubSeq(fs, 1, k)) PROVE e.src \in DOMAIN t
    <3>1. PICK i \in 1 .. k : e = SubSeq(fs, 1, k)[i]
      BY <2>3, LenProperties DEF Range
    <3>2. i \in 1 .. Len(order) /\ e = fs[i]  BY <1>1, <2>2, <2>3, <3>1
    <3> QED BY <1>3, <3>2
  <2> QED BY <2>3, <2>4 DEF ListIn
<1> QED BY <1>7, <1>8 DEF fs

\* A list of one entry, before another or alone.
LEMMA OneAndMore ==
  ASSUME NEW fs \in Seq(Entries), NEW e \in Entries
  PROVE  /\ <<e>> \o fs \in Seq(Entries) /\ <<e>> \in Seq(Entries)
         /\ Range(<<e>>) = {e}
BY ConcatProperties DEF Range

LEMMA NoneIs == /\ <<>> \in Seq(Entries) /\ Range(<<>>) = {}
                /\ \A t : ListIn(t, <<>>)
BY EmptySeq DEF ListIn, Range

\* The list of an upload.
LEMMA PutListIs ==
  ASSUME IsTree(local), NEW r \in Requests, NEW fs \in PutLists(r)
  PROVE  fs \in Seq(Entries)
<1>1. /\ r.items \in Seq(Paths) /\ r.dst \in Seq(Names)
      /\ Len(r.items) \in Nat /\ DOMAIN r.items = 1 .. Len(r.items)
      /\ \A i \in 1 .. Len(r.items) : r.items[i] \in Paths
  BY ConstantsAssumption, LenProperties, ElementOfSeq
<1>2. CASE ~r.recurse
  <2>1. fs = [i \in 1 .. Len(r.items) |-> FileEntry(r.dst, r.items[i])]
    <3>1. fs = [i \in DOMAIN r.items |-> Entry(local, r.dst, r.items[i], r.items[i], FALSE)]
      BY <1>2 DEF PutLists
    <3> QED BY <1>1, <3>1 DEF Entry, Destination, FileEntry
  <2>2. ASSUME NEW i \in 1 .. Len(r.items) PROVE fs[i] \in Entries
    BY <1>1, <2>1, EntryIs
  <2>3. fs = [i \in 1 .. Len(r.items) |-> fs[i]]  BY <2>1
  <2>4. fs \in [1 .. Len(r.items) -> Entries]  BY <2>2, <2>3
  <2> QED BY <1>1, <2>4, SeqDef
<1>3. CASE r.recurse /\ (r.items = <<>> \/ ~Has(local, Head(r.items)))
  BY <1>3, NoneIs DEF PutLists
<1>4. CASE r.recurse /\ ~(r.items = <<>> \/ ~Has(local, Head(r.items)))
  <2> DEFINE item == Head(r.items)
             e == WalkEntry(local, r.dst, item, item)
  <2>1. PICK order \in Walks(local, item) : fs = <<e>> \o ListOf(local, r.dst, item, order)
    BY <1>4 DEF PutLists, WalkEntry
  <2>2. item \in Paths  BY <1>1, <1>4, HeadTailProperties
  <2> HIDE DEF item
  <2>3. Len(item) <= Len(item)
    <3>1. Len(item) \in Nat  BY <2>2, LenProperties DEF Paths
    <3> QED BY <3>1
  <2>4. e \in Entries  BY <1>1, <2>2, <2>3, WalkEntryIs
  <2>5. ListOf(local, r.dst, item, order) \in Seq(Entries)
    BY <1>1, <2>2, WalksAreLists, ListIs DEF ListIn
  <2> HIDE DEF e
  <2> QED BY <2>1, <2>4, <2>5, OneAndMore
<1> QED BY <1>2, <1>3, <1>4

\* What a request is about.
LEMMA AskedIs ==
  ASSUME NEW t, IsTree(t), NEW dst \in Seq(Names), NEW item \in Paths, NEW walk \in BOOLEAN
  PROVE  /\ EntriesOf(t, dst, item, walk) \subseteq Entries
         /\ \A e \in EntriesOf(t, dst, item, walk) :
              /\ e.item = item
              /\ \/ e.src \in DOMAIN t
                 \/ e = FileEntry(dst, item)
<1>1. CASE walk
  <2>1. ASSUME NEW e \in EntriesOf(t, dst, item, walk)
        PROVE  e \in Entries /\ e.item = item /\ e.src \in DOMAIN t
    <3>1. PICK p \in Below(t, item) : e = WalkEntry(t, dst, item, p)
      BY <1>1, <2>1 DEF EntriesOf, WalkEntry
    <3> QED BY <3>1, BelowIs
  <2> QED BY <2>1
<1>2. CASE ~walk
  <2>1. EntriesOf(t, dst, item, walk) = {FileEntry(dst, item)}
    BY <1>2, FileEntryIs DEF EntriesOf
  <2> QED BY <2>1, EntryIs DEF FileEntry
<1> QED BY <1>1, <1>2
------------------------------------------------------------------------------
(* What a step keeps *)

\* Of the source nothing changes but that what has been deleted goes.
Shrinks ==
  /\ \A q \in DOMAIN From' : q \in DOMAIN From /\ From'[q] = From[q]
  /\ \A q \in DOMAIN From \ DOMAIN From' : \E d \in deleted' : d.src = q

\* What has been delivered is, or clashes.
Keeps(e) ==
  /\ Holds(e) => Holds(e)' \/ Clash(e)'
  /\ Looks(e) => Looks(e)' \/ Clash(e)'
  /\ Clash(e) => Clash(e)'

\* A deleted source is safe.
Safe(e) == Holds(e) \/ (e \in passed /\ Looks(e)) \/ Clash(e)

LEMMA ReqFields ==
  ASSUME req \in Requests \cup {Idle}
  PROVE  /\ req.kind \in {"GET", "PUT", "DELE", "none"} /\ req.items \in Seq(Paths)
         /\ req.dst \in Seq(Names) /\ req.recurse \in BOOLEAN /\ req.resume \in BOOLEAN
         /\ req.delete \in BOOLEAN
<1>1. CASE req \in Requests  BY <1>1, ConstantsAssumption
<1>2. CASE req = Idle  BY <1>2, EmptySeq DEF Idle
<1> QED BY <1>1, <1>2

LEMMA SourceStep ==
  ASSUME SourceOK, req' = req, was' = was, deleted \subseteq deleted', Shrinks
  PROVE  SourceOK'
<1> SUFFICES ASSUME req.kind \in {"GET", "PUT"}
             PROVE  /\ \A q \in DOMAIN From' : q \in DOMAIN was /\ From'[q] = was[q]
                    /\ \A q \in DOMAIN was \ DOMAIN From' : \E d \in deleted' : d.src = q
  BY DEF SourceOK
<1>1. /\ \A q \in DOMAIN From : q \in DOMAIN was /\ From[q] = was[q]
      /\ \A q \in DOMAIN was \ DOMAIN From : \E d \in deleted : d.src = q
  BY DEF SourceOK
<1>2. \A q \in DOMAIN From' : q \in DOMAIN was /\ From'[q] = was[q]
  BY <1>1 DEF Shrinks
<1>3. ASSUME NEW q \in DOMAIN was \ DOMAIN From' PROVE \E d \in deleted' : d.src = q
  <2>1. CASE q \in DOMAIN From  BY <2>1, <1>3 DEF Shrinks
  <2>2. CASE q \notin DOMAIN From  BY <2>2, <1>1, <1>3
  <2> QED BY <2>1, <2>2
<1> QED BY <1>2, <1>3

LEMMA SafeStep ==
  ASSUME SourceSafe, passed \subseteq passed', silent \subseteq silent',
         \A e \in deleted : Keeps(e),
         \A e \in deleted' \ deleted : e \in silent' \/ Safe(e)'
  PROVE  SourceSafe'
<1> SUFFICES ASSUME NEW e \in deleted' \ silent' PROVE Safe(e)'
  BY DEF SourceSafe, Safe
<1>1. CASE e \in deleted
  <2>1. e \in deleted \ silent /\ Keeps(e)  BY <1>1
  <2>2. Holds(e) \/ (e \in passed /\ Looks(e)) \/ Clash(e)  BY <2>1 DEF SourceSafe
  <2> QED BY <2>1, <2>2 DEF Keeps, Safe
<1>2. CASE e \notin deleted  BY <1>2
<1> QED BY <1>1, <1>2

\* Nothing is undone by a step that leaves the destination, or adds to it.
LEMMA GrowsKeeps ==
  ASSUME \A q \in DOMAIN To : q \in DOMAIN To' /\ To'[q] = To[q],
         was' = was, asked' = asked, archived' = archived
  PROVE  \A e : Keeps(e)
BY DEF Keeps, Holds, Looks, Clash

LEMMA SameShrinks ==
  ASSUME From' = From
  PROVE  Shrinks
BY DEF Shrinks

\* What is moved stays moved.
LEMMA StaysMoved ==
  ASSUME deleted \subseteq deleted'
  PROVE  \A e : Moved(e) => Moved(e)'
BY DEF Moved

------------------------------------------------------------------------------
(* The loop over the files *)

\* What one file's transfer has to do to keep the invariant: a file is taken off the
\* list only if it is delivered, passed over, set apart or has failed, its source is deleted
\* only when it is delivered or set apart, and nothing is undone but under its own name.
LEMMA FileStep ==
  ASSUME IInv, NextFile, NEW r \in {"ok", "failed", "newer", "canceled"}, FileDone(r),
         IsTree(remote'), IsTree(local'), connected' \in BOOLEAN, cancelXfer' \in {0, 1},
         Shrinks, NEW h, h = Head(files),
         \A e \in asked : e # h \/ h.src \notin DOMAIN From => Keeps(e),
         passed' = passed \/ passed' = passed \cup {h},
         silent' = silent \/ silent' = silent \cup {h},
         r \in {"ok", "newer"} => Holds(h)' \/ Clash(h)' \/ h \in passed' \/ h \in silent',
         \/ deleted' = deleted
         \/ /\ deleted' = deleted \cup {h} /\ h.src \notin DOMAIN From'
            /\ h \in silent' \/ Safe(h)',
         canceled' \in BOOLEAN, canceled => canceled',
         canceled' => canceled \/ r = "canceled" \/ cancelXfer' = 1,
         r = "canceled" \/ cancelXfer' > cancelXfer => canceled'
  PROVE  IInv'
<1>0. TypeOK /\ LoopOK /\ ListOK /\ SourceOK /\ CancelOK /\ DoneOK /\ SourceSafe  BY DEF IInv
<1>1. /\ pc = "files" /\ files # <<>> /\ h.type = "-" /\ req.kind \in {"GET", "PUT"}
      /\ files \in Seq(Entries) /\ (canceled => forgot)
  BY <1>0 DEF NextFile, TypeOK, LoopOK, CancelOK
<1>2. /\ h \in Entries /\ Tail(files) \in Seq(Entries)
      /\ Range(files) = {h} \cup Range(Tail(files))
  BY <1>1, HeadAndTail
<1>3. h \in asked  BY <1>0, <1>1, <1>2 DEF ListOK
<1>4. /\ UNCHANGED <<tar, req, items, links, n, recurse1, named, begun, calls, was, asked,
                     archived, stale, forgot>>
      /\ result' = r /\ batchResult' = BatchResult(r)
      /\ \/ (r = "canceled" \/ cancelXfer' > 0) /\ pc' = "canceled" /\ files' = <<>>
         \/ ~(r = "canceled" \/ cancelXfer' > 0) /\ pc' = pc /\ files' = Tail(files)
  BY DEF FileDone
<1>5. Range(files') \subseteq Range(files) /\ files' \in Seq(Entries)
  BY <1>2, <1>4, NoneIs
<1>6. deleted \subseteq deleted' /\ passed \subseteq passed' /\ silent \subseteq silent'
  OBVIOUS
<1>7. TypeOK'
  <2>1. batchResult' \in Results /\ result' \in Results
    BY <1>0, <1>4 DEF TypeOK, BatchResult, Results
  <2>2. pc' \in {"files", "canceled"}  BY <1>1, <1>4
  <2> QED BY <1>0, <1>3, <1>4, <1>5, <2>1, <2>2 DEF TypeOK
<1>8. LoopOK'
  BY <1>0, <1>1, <1>4 DEF LoopOK
<1>9. ListOK'
  <2>1. \A e \in deleted' : e.type = "-" /\ e.src \notin DOMAIN From'
    BY <1>0, <1>1 DEF ListOK, Shrinks
  <2> QED BY <1>0, <1>4, <1>5, <2>1 DEF ListOK
<1>10. SourceOK'
  BY <1>0, <1>4, <1>6, SourceStep
<1>11. CancelOK'
  <2>1. cancelXfer \in {0, 1} /\ stale \in BOOLEAN  BY <1>0 DEF TypeOK
  <2>2. CASE pc' = "files"
    BY <2>2, <1>0, <1>1, <1>4 DEF CancelOK
  <2>3. CASE pc' = "canceled"
    <3>1. ASSUME ~stale PROVE canceled'
      BY <2>3, <3>1, <1>0, <1>1, <1>4, <2>1 DEF CancelOK
    <3> QED BY <2>3, <3>1, <1>0, <1>4, <2>1 DEF CancelOK
  <2> QED BY <1>1, <1>4, <2>2, <2>3
<1>12. DoneOK'
  <2>1. SUFFICES ASSUME pc' = "files", batchResult' = "ok",
                        NEW e \in asked \ (passed' \cup silent'), e.type = "-"
                 PROVE  Holds(e)' \/ Clash(e)' \/ Moved(e)' \/ e \in Range(files')
                        \/ e.item \in Range(items')
    BY <1>1, <1>4 DEF DoneOK
  <2>2. batchResult = "ok" /\ r \in {"ok", "newer"} /\ files' = Tail(files)
    BY <2>1, <1>1, <1>4 DEF BatchResult
  <2>3. e \in asked \ (passed \cup silent)  BY <2>1, <1>6
  <2>4. Holds(e) \/ Clash(e) \/ Moved(e) \/ e \in Range(files) \/ e.item \in Range(items)
    BY <2>1, <2>2, <2>3, <1>0, <1>1 DEF DoneOK
  <2>5. CASE e = h  BY <2>1, <2>2, <2>5
  <2>6. CASE e # h
    <3>1. Keeps(e) /\ (Moved(e) => Moved(e)')  BY <2>3, <2>6, <1>6, StaysMoved
    <3> QED BY <3>1, <2>2, <2>4, <2>6, <1>2, <1>4 DEF Keeps
  <2> QED BY <2>5, <2>6
<1>13. SourceSafe'
  <2>1. ASSUME NEW e \in deleted PROVE Keeps(e)
    <3>1. e \in asked /\ e.src \notin DOMAIN From
      BY <1>0 DEF TypeOK, ListOK
    <3> QED BY <3>1
  <2> QED BY <1>0, <1>6, <2>1, SafeStep
<1> QED BY <1>7, <1>8, <1>9, <1>10, <1>11, <1>12, <1>13 DEF IInv

------------------------------------------------------------------------------
(* The transfer of one file *)

\* What is true while a file is transferred.
LEMMA FileFacts ==
  ASSUME IInv, NextFile, NEW h, h = Head(files)
  PROVE  /\ pc = "files" /\ req.kind \in {"GET", "PUT"} /\ req.delete \in BOOLEAN
         /\ h \in asked /\ h \in Entries /\ h.type = "-" /\ h.dst \in Paths
         /\ IsTree(From) /\ IsTree(To) /\ From \in {remote, local}
         /\ canceled \in BOOLEAN /\ cancelXfer \in {0, 1} /\ connected \in BOOLEAN
         /\ h.src \in DOMAIN From =>
              h.src \in DOMAIN was /\ From[h.src] = was[h.src] /\ From[h.src] \in Values
         /\ IsTree(Prepared.tree)
         /\ \A q \in DOMAIN To : q \in DOMAIN Prepared.tree /\ Prepared.tree[q] = To[q]
<1>0. TypeOK /\ LoopOK /\ ListOK /\ SourceOK  BY DEF IInv
<1>1. /\ pc = "files" /\ req.kind \in {"GET", "PUT"} /\ files # <<>> /\ h.type = "-"
      /\ files \in Seq(Entries) /\ req \in Requests \cup {Idle}
  BY <1>0 DEF NextFile, TypeOK, LoopOK
<1>2. h \in Entries /\ h \in Range(files)  BY <1>1, HeadAndTail
<1>3. h \in asked /\ h.dst \in Paths  BY <1>0, <1>1, <1>2 DEF ListOK, Entries
<1>4. IsTree(From) /\ IsTree(To) /\ From \in {remote, local}
  BY <1>0 DEF TypeOK, From, To
<1>5. ASSUME h.src \in DOMAIN From
      PROVE  h.src \in DOMAIN was /\ From[h.src] = was[h.src] /\ From[h.src] \in Values
  BY <1>0, <1>1, <1>4, <1>5 DEF SourceOK, IsTree, Values
<1>6. IsTree(Prepared.tree)
      /\ \A q \in DOMAIN To : q \in DOMAIN Prepared.tree /\ Prepared.tree[q] = To[q]
  <2>1. CASE recurse1 /\ req.kind = "GET"
    <3>1. Front(h.dst) \in Seq(Names)
      <4>1. Len(h.dst) \in Nat /\ \A i \in 1 .. Len(h.dst) - 1 : h.dst[i] \in Names
        BY <1>3, PathIs
      <4> QED BY <4>1, SubSeqProperties DEF Front
    <3>2. IsTree(local)  BY <1>0 DEF TypeOK
    <3>3. Prepared = MkDirs(local, Front(h.dst)) /\ To = local
      BY <2>1 DEF Prepared, To
    <3> QED BY <3>1, <3>2, <3>3, MkDirsTree
  <2>2. CASE ~(recurse1 /\ req.kind = "GET")
    BY <2>2, <1>4 DEF Prepared
  <2> QED BY <2>1, <2>2
<1>7. req.delete \in BOOLEAN  BY <1>1, ReqFields
<1>8. canceled \in BOOLEAN /\ cancelXfer \in {0, 1} /\ connected \in BOOLEAN
  BY <1>0 DEF TypeOK
<1> QED BY <1>1, <1>2, <1>3, <1>4, <1>5, <1>6, <1>7, <1>8

LEMMA MoveIs ==
  ASSUME NEW f, NEW t, Move(f, t), req' = req, req.kind \in {"GET", "PUT"}
  PROVE  /\ From' = f /\ To' = t
         /\ IsTree(f) /\ IsTree(t) => IsTree(remote') /\ IsTree(local')
BY DEF Move, From, To

\* A file that is written takes the place of none but its namesakes.
LEMMA WriteKeeps ==
  ASSUME NEW h \in asked, h.dst \in Paths, NEW t, IsTree(t), NEW c \in Values,
         \A q \in DOMAIN To : q \in DOMAIN t /\ t[q] = To[q],
         To' = With(t, h.dst, c), was' = was, asked' = asked, archived' = archived
  PROVE  /\ IsTree(With(t, h.dst, c))
         /\ h.src \in DOMAIN was /\ c = was[h.src] => Holds(h)'
         /\ \A e : e # h => Keeps(e)
<1>1. /\ IsTree(With(t, h.dst, c))
      /\ To'[h.dst] = c /\ h.dst \in DOMAIN To'
      /\ \A q \in DOMAIN t : q \in DOMAIN To' /\ (q # h.dst => To'[q] = t[q])
  BY WithTree
<1>2. h.src \in DOMAIN was /\ c = was[h.src] => Holds(h)'
  BY <1>1 DEF Holds
<1>3. ASSUME NEW e, e # h PROVE Keeps(e)
  <2>1. CASE e.dst = h.dst
    <3>1. Clash(e)'  BY <2>1, <1>3 DEF Clash
    <3> QED BY <3>1 DEF Keeps
  <2>2. CASE e.dst # h.dst
    <3>1. e.dst \in DOMAIN To => e.dst \in DOMAIN To' /\ To'[e.dst] = To[e.dst]
      BY <2>2, <1>1
    <3> QED BY <3>1 DEF Keeps, Holds, Looks, Clash
  <2> QED BY <2>1, <2>2
<1> QED BY <1>1, <1>2, <1>3

\* The source loses at most the file.
LEMMA LeftIs ==
  ASSUME NEW e, IsTree(From), NEW gone \in BOOLEAN, Deletes(e, gone), From' = Left(e, gone)
  PROVE  /\ IsTree(Left(e, gone)) /\ Shrinks
         /\ \/ deleted' = deleted
            \/ deleted' = deleted \cup {e} /\ e.src \notin DOMAIN From'
<1>1. CASE gone
  <2>1. Left(e, gone) = Without(From, e.src) /\ deleted' = deleted \cup {e}
    BY <1>1 DEF Left, Deletes
  <2>2. /\ IsTree(Without(From, e.src)) /\ DOMAIN Without(From, e.src) = DOMAIN From \ {e.src}
        /\ \A q \in DOMAIN From \ {e.src} : Without(From, e.src)[q] = From[q]
    BY WithoutTree
  <2> QED BY <2>1, <2>2 DEF Shrinks
<1>2. CASE ~gone
  BY <1>2, SameShrinks DEF Left, Deletes
<1> QED BY <1>1, <1>2

\* A cancellation during the data.
LEMMA MayCancelIs ==
  ASSUME MayCancel, canceled \in BOOLEAN, cancelXfer \in {0, 1}
  PROVE  /\ canceled' \in BOOLEAN /\ cancelXfer' \in {0, 1} /\ (canceled => canceled')
         /\ (canceled' => canceled \/ cancelXfer' = 1)
         /\ (cancelXfer' > cancelXfer => canceled')
<1>1. cancelXfer' \in {0, 1}  BY DEF MayCancel
<1>2. canceled' <=> canceled \/ cancelXfer' = 1  BY DEF MayCancel
<1>3. canceled' \in BOOLEAN  BY DEF MayCancel
<1>4. cancelXfer' > cancelXfer => cancelXfer' = 1  BY <1>1
<1> QED BY <1>1, <1>2, <1>3, <1>4

LEMMA NoCancelIs ==
  ASSUME UNCHANGED <<cancelXfer, canceled>>, canceled \in BOOLEAN, cancelXfer \in {0, 1}
  PROVE  /\ canceled' \in BOOLEAN /\ cancelXfer' \in {0, 1} /\ (canceled => canceled')
         /\ (canceled' => canceled) /\ ~(cancelXfer' > cancelXfer)
OBVIOUS

LEMMA TransferredInv == IInv /\ Transferred => IInv'
<1> SUFFICES ASSUME IInv, Transferred PROVE IInv'  OBVIOUS
<1>1. PICK h : h = Head(files)  OBVIOUS
<1>2. PICK gone \in BOOLEAN :
        /\ Deletes(h, gone) /\ connected' \in {TRUE, ~Failing(gone)}
        /\ Move(Left(h, gone), With(Prepared.tree, h.dst, From[h.src]))
        /\ FileDone(IF Failing(gone) THEN "failed" ELSE "ok")
  BY <1>1 DEF Transferred
<1>3. NextFile /\ MayCancel /\ IsFile(From, h.src) /\ UNCHANGED <<passed, silent>>
  BY <1>1 DEF Transferred, File
<1>4. PICK r \in {"ok", "failed"} : FileDone(r) /\ r = IF Failing(gone) THEN "failed" ELSE "ok"
  BY <1>2
<1>5. req' = req /\ was' = was /\ asked' = asked /\ archived' = archived
  BY <1>4 DEF FileDone
<1>6. /\ req.kind \in {"GET", "PUT"} /\ req.delete \in BOOLEAN /\ IsTree(From) /\ IsTree(Prepared.tree)
      /\ h \in asked /\ h.dst \in Paths /\ canceled \in BOOLEAN /\ cancelXfer \in {0, 1}
      /\ h.src \in DOMAIN was /\ From[h.src] = was[h.src] /\ From[h.src] \in Values
      /\ \A q \in DOMAIN To : q \in DOMAIN Prepared.tree /\ Prepared.tree[q] = To[q]
      /\ h.src \in DOMAIN From
  BY <1>1, <1>3, FileFacts DEF IsFile
<1> DEFINE c == From[h.src]
           f == Left(h, gone)
           t == With(Prepared.tree, h.dst, c)
<1>7. c = was[h.src] /\ c \in Values /\ Move(f, t)  BY <1>2, <1>6
<1> HIDE DEF c
<1>8. From' = f /\ To' = t /\ (IsTree(f) /\ IsTree(t) => IsTree(remote') /\ IsTree(local'))
  BY <1>5, <1>6, <1>7, MoveIs
<1>9. IsTree(f) /\ Shrinks
      /\ (deleted' = deleted \/ (deleted' = deleted \cup {h} /\ h.src \notin DOMAIN From'))
  BY <1>2, <1>6, <1>8, LeftIs
<1>10. IsTree(t) /\ Holds(h)' /\ \A e : e # h => Keeps(e)
  BY <1>5, <1>6, <1>7, <1>8, WriteKeeps
<1> HIDE DEF f, t
<1>11. Safe(h)'  BY <1>10 DEF Safe
<1>12. connected' \in BOOLEAN
  BY <1>2, <1>6 DEF Failing
<1>13. /\ canceled' \in BOOLEAN /\ cancelXfer' \in {0, 1} /\ (canceled => canceled')
       /\ (canceled' => canceled \/ cancelXfer' = 1) /\ (cancelXfer' > cancelXfer => canceled')
  BY <1>3, <1>6, MayCancelIs
<1> QED BY <1>1, <1>3, <1>4, <1>6, <1>8, <1>9, <1>10, <1>11, <1>12, <1>13, FileStep

LEMMA SplicesInv == IInv /\ Splices => IInv'
<1> SUFFICES ASSUME IInv, Splices PROVE IInv'  OBVIOUS
<1>1. PICK h : h = Head(files)  OBVIOUS
<1>2. PICK gone \in BOOLEAN :
        /\ Deletes(h, gone) /\ connected' \in {TRUE, ~Failing(gone)}
        /\ Move(Left(h, gone), With(Prepared.tree, h.dst, Mixed))
        /\ FileDone(IF Failing(gone) THEN "failed" ELSE "ok")
  BY <1>1 DEF Splices
<1>3. NextFile /\ MayCancel /\ IsFile(From, h.src) /\ passed' = passed /\ silent' = silent \cup {h}
  BY <1>1 DEF Splices, File
<1>4. PICK r \in {"ok", "failed"} : FileDone(r)  BY <1>2
<1>5. req' = req /\ was' = was /\ asked' = asked /\ archived' = archived
  BY <1>4 DEF FileDone
<1>6. /\ req.kind \in {"GET", "PUT"} /\ req.delete \in BOOLEAN /\ IsTree(From) /\ IsTree(Prepared.tree)
      /\ h \in asked /\ h.dst \in Paths /\ canceled \in BOOLEAN /\ cancelXfer \in {0, 1}
      /\ \A q \in DOMAIN To : q \in DOMAIN Prepared.tree /\ Prepared.tree[q] = To[q]
      /\ h.src \in DOMAIN From
  BY <1>1, <1>3, FileFacts DEF IsFile
<1> DEFINE f == Left(h, gone)
           t == With(Prepared.tree, h.dst, Mixed)
<1>7. Mixed \in Values /\ Move(f, t)  BY <1>2 DEF Values
<1>8. From' = f /\ To' = t /\ (IsTree(f) /\ IsTree(t) => IsTree(remote') /\ IsTree(local'))
  BY <1>5, <1>6, <1>7, MoveIs
<1>9. IsTree(f) /\ Shrinks
      /\ (deleted' = deleted \/ (deleted' = deleted \cup {h} /\ h.src \notin DOMAIN From'))
  BY <1>2, <1>6, <1>8, LeftIs
<1>10. IsTree(t) /\ \A e : e # h => Keeps(e)
  BY <1>5, <1>6, <1>7, <1>8, WriteKeeps
<1> HIDE DEF f, t
<1>11. h \in silent'  BY <1>3
<1>12. connected' \in BOOLEAN
  BY <1>2, <1>6 DEF Failing
<1>13. /\ canceled' \in BOOLEAN /\ cancelXfer' \in {0, 1} /\ (canceled => canceled')
       /\ (canceled' => canceled \/ cancelXfer' = 1) /\ (cancelXfer' > cancelXfer => canceled')
  BY <1>3, <1>6, MayCancelIs
<1> QED BY <1>1, <1>3, <1>4, <1>6, <1>8, <1>9, <1>10, <1>11, <1>12, <1>13, FileStep

\* A file that is not sent leaves the destination as it is, but for directories.
LEMMA UnsentKeeps ==
  ASSUME \A q \in DOMAIN To : q \in DOMAIN To' /\ To'[q] = To[q],
         NEW r, FileDone(r)
  PROVE  \A e : Keeps(e)
<1>1. was' = was /\ asked' = asked /\ archived' = archived  BY DEF FileDone
<1> QED BY <1>1, GrowsKeeps

LEMMA SameAlreadyInv == IInv /\ SameAlready => IInv'
<1> SUFFICES ASSUME IInv, SameAlready PROVE IInv'  OBVIOUS
<1>1. PICK h : h = Head(files)  OBVIOUS
<1>2. PICK gone \in BOOLEAN, r \in {"ok", "failed", "newer"} :
        /\ Deletes(h, gone) /\ connected' \in {TRUE, ~(Failing(gone) /\ req.kind = "GET")}
        /\ Move(Left(h, gone), Prepared.tree) /\ FileDone(r)
  BY <1>1 DEF SameAlready
<1>3. /\ NextFile /\ UNCHANGED <<cancelXfer, canceled, silent>> /\ passed' = passed \cup {h}
      /\ IsFile(From, h.src) /\ IsFile(To, h.dst) /\ Same(h)
  BY <1>1 DEF SameAlready, File
<1>4. req' = req /\ was' = was  BY <1>2 DEF FileDone
<1>5. /\ req.kind \in {"GET", "PUT"} /\ req.delete \in BOOLEAN /\ IsTree(From) /\ IsTree(Prepared.tree)
      /\ h \in asked /\ canceled \in BOOLEAN /\ cancelXfer \in {0, 1}
      /\ h.src \in DOMAIN was /\ From[h.src] = was[h.src] /\ h.src \in DOMAIN From
      /\ \A q \in DOMAIN To : q \in DOMAIN Prepared.tree /\ Prepared.tree[q] = To[q]
  BY <1>1, <1>3, FileFacts DEF IsFile
<1> DEFINE f == Left(h, gone)
           t == Prepared.tree
<1>6. From' = f /\ To' = t /\ (IsTree(f) /\ IsTree(t) => IsTree(remote') /\ IsTree(local'))
  BY <1>2, <1>4, <1>5, MoveIs
<1>7. IsTree(f) /\ Shrinks
      /\ (deleted' = deleted \/ (deleted' = deleted \cup {h} /\ h.src \notin DOMAIN From'))
  BY <1>2, <1>5, <1>6, LeftIs
<1>8. \A q \in DOMAIN To : q \in DOMAIN To' /\ To'[q] = To[q]  BY <1>5, <1>6
<1>9. IsTree(t)  BY <1>5
<1> HIDE DEF f, t
<1>10. \A e : Keeps(e)  BY <1>2, <1>8, UnsentKeeps
<1>11. Looks(h)'
  <2>1. To[h.dst] = was[h.src] \/ <<To[h.dst], was[h.src]>> \in Alike  BY <1>3, <1>5 DEF Same
  <2>2. h.dst \in DOMAIN To' /\ To'[h.dst] = To[h.dst]  BY <1>3, <1>8 DEF IsFile
  <2> QED BY <2>1, <2>2, <1>4, <1>5 DEF Looks
<1>12. h \in passed' /\ Safe(h)'  BY <1>3, <1>11 DEF Safe
<1>13. connected' \in BOOLEAN
  BY <1>2, <1>5 DEF Failing
<1>14. /\ canceled' \in BOOLEAN /\ cancelXfer' \in {0, 1} /\ (canceled => canceled')
       /\ (canceled' => canceled) /\ ~(cancelXfer' > cancelXfer)
  BY <1>3, <1>5, NoCancelIs
<1> QED BY <1>1, <1>2, <1>3, <1>6, <1>7, <1>9, <1>10, <1>12, <1>13, <1>14, FileStep

LEMMA SkippedSilentlyInv == IInv /\ SkippedSilently => IInv'
<1> SUFFICES ASSUME IInv, SkippedSilently PROVE IInv'  OBVIOUS
<1>1. PICK h : h = Head(files)  OBVIOUS
<1>2. PICK gone \in BOOLEAN, r \in {"ok", "failed"} :
        /\ Deletes(h, gone) /\ connected' \in {TRUE, ~(Failing(gone) /\ req.kind = "GET")}
        /\ Move(Left(h, gone), To) /\ FileDone(r)
  BY <1>1 DEF SkippedSilently
<1>3. NextFile /\ UNCHANGED <<cancelXfer, canceled, passed>> /\ silent' = silent \cup {h}
  BY <1>1 DEF SkippedSilently, File
<1>4. req' = req  BY <1>2 DEF FileDone
<1>5. /\ req.kind \in {"GET", "PUT"} /\ req.delete \in BOOLEAN /\ IsTree(From) /\ IsTree(To)
      /\ canceled \in BOOLEAN /\ cancelXfer \in {0, 1}
  BY <1>1, <1>3, FileFacts
<1> DEFINE f == Left(h, gone)
<1>6. From' = f /\ To' = To /\ (IsTree(f) /\ IsTree(To) => IsTree(remote') /\ IsTree(local'))
  BY <1>2, <1>4, <1>5, MoveIs
<1>7. IsTree(f) /\ Shrinks
      /\ (deleted' = deleted \/ (deleted' = deleted \cup {h} /\ h.src \notin DOMAIN From'))
  BY <1>2, <1>5, <1>6, LeftIs
<1> HIDE DEF f
<1>8. \A e : Keeps(e)  BY <1>2, <1>6, UnsentKeeps
<1>9. h \in silent'  BY <1>3
<1>10. connected' \in BOOLEAN
  BY <1>2, <1>5 DEF Failing
<1>11. /\ canceled' \in BOOLEAN /\ cancelXfer' \in {0, 1} /\ (canceled => canceled')
       /\ (canceled' => canceled) /\ ~(cancelXfer' > cancelXfer)
  BY <1>3, <1>5, NoCancelIs
<1> QED BY <1>1, <1>2, <1>3, <1>5, <1>6, <1>7, <1>8, <1>9, <1>10, <1>11, FileStep

LEMMA NewerAlreadyInv == IInv /\ NewerAlready => IInv'
<1> SUFFICES ASSUME IInv, NewerAlready PROVE IInv'  OBVIOUS
<1>1. PICK h : h = Head(files)  OBVIOUS
<1>2. /\ NextFile /\ FileDone("newer") /\ passed' = passed \cup {h}
      /\ UNCHANGED <<remote, local, connected, cancelXfer, canceled, deleted, silent, req>>
  BY <1>1 DEF NewerAlready, File, FileDone
<1>3. From' = From /\ To' = To  BY <1>2 DEF From, To
<1>4. Shrinks /\ \A e : Keeps(e)  BY <1>2, <1>3, SameShrinks, UnsentKeeps
<1>5. /\ connected \in BOOLEAN /\ canceled \in BOOLEAN /\ cancelXfer \in {0, 1}
      /\ IsTree(remote) /\ IsTree(local)
  BY DEF IInv, TypeOK
<1>6. /\ canceled' \in BOOLEAN /\ cancelXfer' \in {0, 1} /\ (canceled => canceled')
      /\ (canceled' => canceled) /\ ~(cancelXfer' > cancelXfer)
  BY <1>2, <1>5, NoCancelIs
<1> QED BY <1>1, <1>2, <1>4, <1>5, <1>6, FileStep

LEMMA RefusesInv == IInv /\ Refuses => IInv'
<1> SUFFICES ASSUME IInv, Refuses PROVE IInv'  OBVIOUS
<1>1. PICK h : h = Head(files)  OBVIOUS
<1>2. /\ NextFile /\ FileDone("canceled") /\ canceled' = TRUE /\ cancelXfer' = 1
      /\ UNCHANGED <<remote, local, connected, passed, deleted, silent, req>>
  BY <1>1 DEF Refuses, File, FileDone
<1>3. From' = From /\ To' = To  BY <1>2 DEF From, To
<1>4. Shrinks /\ \A e : Keeps(e)  BY <1>2, <1>3, SameShrinks, UnsentKeeps
<1>5. connected' \in BOOLEAN /\ IsTree(remote') /\ IsTree(local')
  BY <1>2 DEF IInv, TypeOK
<1> QED BY <1>1, <1>2, <1>4, <1>5, FileStep

LEMMA NotStartedInv == IInv /\ NotStarted => IInv'
<1> SUFFICES ASSUME IInv, NotStarted PROVE IInv'  OBVIOUS
<1>1. PICK h : h = Head(files)  OBVIOUS
<1>2. /\ NextFile /\ FileDone("failed") /\ Move(From, Prepared.tree) /\ connected' \in {TRUE, ~named}
      /\ UNCHANGED <<cancelXfer, canceled, passed, deleted, silent, req>>
  BY DEF NotStarted, FileDone
<1>3. /\ req.kind \in {"GET", "PUT"} /\ IsTree(From) /\ IsTree(Prepared.tree)
      /\ \A q \in DOMAIN To : q \in DOMAIN Prepared.tree /\ Prepared.tree[q] = To[q]
      /\ canceled \in BOOLEAN /\ cancelXfer \in {0, 1}
  BY <1>1, <1>2, FileFacts
<1>4. From' = From /\ To' = Prepared.tree /\ IsTree(remote') /\ IsTree(local')
  BY <1>2, <1>3, MoveIs
<1>5. Shrinks /\ \A e : Keeps(e)  BY <1>2, <1>3, <1>4, SameShrinks, UnsentKeeps
<1>6. /\ canceled' \in BOOLEAN /\ cancelXfer' \in {0, 1} /\ (canceled => canceled')
      /\ (canceled' => canceled) /\ ~(cancelXfer' > cancelXfer)
  BY <1>2, <1>3, NoCancelIs
<1>7. connected' \in BOOLEAN  BY <1>2 DEF IInv, TypeOK
<1> QED BY <1>1, <1>2, <1>4, <1>5, <1>6, <1>7, FileStep

LEMMA BrokenInv == IInv /\ Broken => IInv'
<1> SUFFICES ASSUME IInv, Broken PROVE IInv'  OBVIOUS
<1>1. PICK h : h = Head(files)  OBVIOUS
<1>2. /\ NextFile /\ MayCancel /\ FileDone("failed") /\ connected' \in BOOLEAN
      /\ IsFile(From, h.src)
      /\ UNCHANGED <<passed, deleted, silent, req, was, asked, archived>>
  BY <1>1 DEF Broken, File, FileDone
<1>3. /\ req.kind \in {"GET", "PUT"} /\ IsTree(From) /\ IsTree(Prepared.tree)
      /\ h \in asked /\ h.dst \in Paths /\ canceled \in BOOLEAN /\ cancelXfer \in {0, 1}
      /\ From[h.src] \in Values /\ h.src \in DOMAIN From
      /\ \A q \in DOMAIN To : q \in DOMAIN Prepared.tree /\ Prepared.tree[q] = To[q]
  BY <1>1, <1>2, FileFacts DEF IsFile
<1>4. PICK c \in {Partial, From[h.src]} : Move(From, With(Prepared.tree, h.dst, c))
  BY <1>1 DEF Broken
<1> DEFINE t == With(Prepared.tree, h.dst, c)
<1>5. c \in Values  BY <1>3, <1>4 DEF Values
<1>6. From' = From /\ To' = t /\ (IsTree(t) => IsTree(remote') /\ IsTree(local'))
  BY <1>2, <1>3, <1>4, MoveIs
<1>7. IsTree(t) /\ \A e : e # h => Keeps(e)
  BY <1>2, <1>3, <1>5, <1>6, WriteKeeps
<1> HIDE DEF t
<1>8. Shrinks  BY <1>6, SameShrinks
<1>9. /\ canceled' \in BOOLEAN /\ cancelXfer' \in {0, 1} /\ (canceled => canceled')
      /\ (canceled' => canceled \/ cancelXfer' = 1) /\ (cancelXfer' > cancelXfer => canceled')
  BY <1>2, <1>3, MayCancelIs
<1> QED BY <1>1, <1>2, <1>3, <1>6, <1>7, <1>8, <1>9, FileStep

------------------------------------------------------------------------------
(* The other entries of a list *)

\* A step of the loop that is no transfer: it takes an entry or all of them off the list,
\* a file only if the batch has failed, and undoes nothing.
LEMMA LoopStep ==
  ASSUME IInv, pc = "files", files # <<>>,
         UNCHANGED <<cancelXfer, tar, items, links, n, recurse1, named, begun, passed, silent,
                     archived, canceled, forgot, req, calls, was, asked, deleted, stale>>,
         pc' \in {pc, "error"},
         IsTree(remote'), IsTree(local'), connected' \in BOOLEAN,
         result' \in Results, batchResult' \in Results,
         batchResult' = "ok" => batchResult = "ok",
         Shrinks, \A e : Keeps(e),
         \/ files' = Tail(files) /\ (Head(files).type = "-" => batchResult' # "ok")
         \/ files' = <<>> /\ batchResult' # "ok"
  PROVE  IInv'
<1> DEFINE h == Head(files)
<1>0. TypeOK /\ LoopOK /\ ListOK /\ SourceOK /\ CancelOK /\ DoneOK /\ SourceSafe  BY DEF IInv
<1>1. files \in Seq(Entries) /\ req.kind \in {"GET", "PUT"}
  BY <1>0 DEF TypeOK, LoopOK
<1>2. /\ Tail(files) \in Seq(Entries)
      /\ Range(files) = {h} \cup Range(Tail(files))
  BY <1>1, HeadAndTail
<1>3. Range(files') \subseteq Range(files) /\ files' \in Seq(Entries)
  BY <1>2, NoneIs
<1>4. TypeOK'
  BY <1>0, <1>3 DEF TypeOK
<1>5. LoopOK'
  BY <1>0, <1>1 DEF LoopOK
<1>6. ListOK'
  <2>1. \A e \in deleted' : e.type = "-" /\ e.src \notin DOMAIN From'
    BY <1>0 DEF ListOK, Shrinks
  <2> QED BY <1>0, <1>3, <2>1 DEF ListOK
<1>7. SourceOK'  BY <1>0, SourceStep
<1>8. CancelOK'
  BY <1>0, <1>1 DEF CancelOK
<1>9. DoneOK'
  <2>1. SUFFICES ASSUME batchResult' = "ok", pc' = pc,
                        NEW e \in asked \ (passed \cup silent), e.type = "-"
                 PROVE  Holds(e)' \/ Clash(e)' \/ Moved(e)' \/ e \in Range(files')
                        \/ e.item \in Range(items')
    BY DEF DoneOK
  <2>2. Holds(e) \/ Clash(e) \/ Moved(e) \/ e \in Range(files) \/ e.item \in Range(items)
    BY <2>1, <1>0 DEF DoneOK
  <2>3. Keeps(e) /\ (Moved(e) => Moved(e)')  BY StaysMoved
  <2>4. e \in Range(files) => e \in Range(files')  BY <2>1, <1>2
  <2> QED BY <2>2, <2>3, <2>4 DEF Keeps
<1>10. SourceSafe'
  BY <1>0, SafeStep
<1> QED BY <1>4, <1>5, <1>6, <1>7, <1>8, <1>9, <1>10 DEF IInv

LEMMA NotConnectedInv == IInv /\ NotConnected => IInv'
<1> SUFFICES ASSUME IInv, NotConnected PROVE IInv'  OBVIOUS
<1>1. /\ UNCHANGED <<cancelXfer, tar, items, links, n, recurse1, named, begun, passed, silent,
                     archived, canceled, forgot, req, calls, was, asked, deleted, stale>>
      /\ UNCHANGED <<remote, local, connected, pc>>
  BY DEF NotConnected, Quiet
<1>2. From' = From /\ To' = To  BY <1>1 DEF From, To
<1>3. Shrinks /\ \A e : Keeps(e)  BY <1>1, <1>2, SameShrinks, GrowsKeeps
<1>4. /\ pc = "files" /\ files # <<>> /\ files' = <<>> /\ batchResult' # "ok"
      /\ result' \in Results /\ batchResult' \in Results
      /\ IsTree(remote') /\ IsTree(local') /\ connected' \in BOOLEAN
  BY <1>1 DEF IInv, TypeOK, NotConnected, Results
<1> QED BY <1>1, <1>3, <1>4, LoopStep

LEMMA CannotPrepareInv == IInv /\ CannotPrepare => IInv'
<1> SUFFICES ASSUME IInv, CannotPrepare PROVE IInv'  OBVIOUS
<1>1. /\ UNCHANGED <<cancelXfer, tar, items, links, n, recurse1, named, begun, passed, silent,
                     archived, canceled, forgot, req, calls, was, asked, deleted, stale>>
      /\ UNCHANGED <<remote, local, connected, pc>>
  BY DEF CannotPrepare, Quiet
<1>2. From' = From /\ To' = To  BY <1>1 DEF From, To
<1>3. Shrinks /\ \A e : Keeps(e)  BY <1>1, <1>2, SameShrinks, GrowsKeeps
<1>4. /\ pc = "files" /\ files # <<>> /\ files' = Tail(files) /\ batchResult' = "failed"
      /\ result' = "ok" /\ IsTree(remote') /\ IsTree(local') /\ connected' \in BOOLEAN
  BY <1>1 DEF IInv, TypeOK, CannotPrepare
<1>5. result' \in Results /\ batchResult' \in Results  BY <1>4 DEF Results
<1> QED BY <1>1, <1>3, <1>4, <1>5, LoopStep

LEMMA CannotSetTypeInv == IInv /\ CannotSetType => IInv'
<1> SUFFICES ASSUME IInv, CannotSetType PROVE IInv'  OBVIOUS
<1>1. PICK h : h = Head(files)  OBVIOUS
<1>2. /\ UNCHANGED <<cancelXfer, tar, items, links, n, recurse1, named, begun, passed, silent,
                     archived, canceled, forgot, req, calls, was, asked, deleted, stale>>
      /\ NextFile /\ Move(From, Prepared.tree) /\ pc' = "error" /\ connected' \in BOOLEAN
      /\ result' = "failed" /\ batchResult' = "failed" /\ files' = <<>>
  BY DEF CannotSetType, Quiet
<1>3. /\ req.kind \in {"GET", "PUT"} /\ IsTree(From) /\ IsTree(Prepared.tree)
      /\ \A q \in DOMAIN To : q \in DOMAIN Prepared.tree /\ Prepared.tree[q] = To[q]
  BY <1>1, <1>2, FileFacts
<1>4. From' = From /\ To' = Prepared.tree /\ IsTree(remote') /\ IsTree(local')
  BY <1>2, <1>3, MoveIs
<1>5. Shrinks /\ \A e : Keeps(e)
  BY <1>2, <1>3, <1>4, SameShrinks, GrowsKeeps
<1>6. pc = "files" /\ files # <<>> /\ result' \in Results /\ batchResult' \in Results
  BY <1>2 DEF NextFile, Results
<1> QED BY <1>2, <1>4, <1>5, <1>6, LoopStep

LEMMA ListedDirectoryInv == IInv /\ ListedDirectory => IInv'
<1> SUFFICES ASSUME IInv, ListedDirectory PROVE IInv'  OBVIOUS
<1>1. PICK h : h = Head(files)  OBVIOUS
<1>2. /\ pc = "files" /\ files # <<>> /\ files' = Tail(files) /\ h.type = "d"
      /\ UNCHANGED <<cancelXfer, tar, items, links, n, recurse1, named, begun, passed, silent,
                     archived, canceled, forgot, req, calls, was, asked, deleted, stale>>
      /\ pc' = pc
  BY <1>1 DEF ListedDirectory, Quiet
<1>3. /\ h.dst \in Paths /\ h.dst \in Seq(Names) /\ IsTree(local) /\ IsTree(remote)
      /\ connected \in BOOLEAN /\ result \in Results /\ batchResult \in Results
      /\ req.kind \in {"GET", "PUT"}
  <2>1. files \in Seq(Entries)  BY DEF IInv, TypeOK
  <2>2. h \in Entries  BY <1>1, <1>2, <2>1, HeadAndTail
  <2>3. h.dst \in Paths /\ h.dst \in Seq(Names)  BY <2>2 DEF Entries, Paths
  <2> QED BY <1>2, <2>3 DEF IInv, TypeOK, LoopOK
<1>4. "ok" \in Results /\ "failed" \in Results  BY DEF Results
<1>5. CASE req.kind = "GET"
  <2>1. local' = MkDirs(local, h.dst).tree /\ result' = "ok"
        /\ UNCHANGED <<remote, batchResult, connected>>
    BY <1>1, <1>5 DEF ListedDirectory
  <2>2. From' = From /\ To = local /\ To' = local'
    BY <1>2, <1>5, <2>1 DEF From, To
  <2>3. IsTree(local') /\ \A q \in DOMAIN local : q \in DOMAIN local' /\ local'[q] = local[q]
    BY <1>3, <2>1, MkDirsTree
  <2>4. Shrinks /\ \A e : Keeps(e)
    BY <1>2, <2>2, <2>3, SameShrinks, GrowsKeeps
  <2> QED BY <1>1, <1>2, <1>3, <1>4, <2>1, <2>3, <2>4, LoopStep
<1>6. CASE /\ req.kind = "PUT" /\ (Has(remote, h.dst) => IsDir(remote, h.dst))
           /\ remote' = With(remote, h.dst, "d") /\ result' = "ok"
           /\ UNCHANGED <<local, batchResult, connected>>
  <2>1. From' = From /\ To = remote /\ To' = remote'
    BY <1>2, <1>6 DEF From, To
  <2>2. "d" \in Values  BY DEF Values
  <2>3. /\ IsTree(remote')
        /\ h.dst \in DOMAIN remote' /\ remote'[h.dst] = "d"
        /\ \A q \in DOMAIN remote : q \in DOMAIN remote' /\ (q # h.dst => remote'[q] = remote[q])
    BY <1>3, <1>6, <2>2, WithTree
  <2>4. h.dst \in DOMAIN remote => remote[h.dst] = "d"
    BY <1>3, <1>6 DEF Has, IsDir, Paths
  <2>5. \A q \in DOMAIN remote : q \in DOMAIN remote' /\ remote'[q] = remote[q]
    BY <2>3, <2>4
  <2>6. Shrinks /\ \A e : Keeps(e)
    BY <1>2, <2>1, <2>5, SameShrinks, GrowsKeeps
  <2> QED BY <1>1, <1>2, <1>3, <1>4, <1>6, <2>3, <2>6, LoopStep
<1>7. CASE /\ result' = "failed" /\ batchResult' = "failed"
           /\ connected' \in BOOLEAN /\ UNCHANGED <<local, remote>>
  <2>1. From' = From /\ To' = To  BY <1>2, <1>7 DEF From, To
  <2>2. Shrinks /\ \A e : Keeps(e)  BY <1>2, <2>1, SameShrinks, GrowsKeeps
  <2> QED BY <1>1, <1>2, <1>3, <1>4, <1>7, <2>2, LoopStep
<1> QED BY <1>1, <1>3, <1>5, <1>6, <1>7 DEF ListedDirectory

LEMMA ListedLinkInv == IInv /\ ListedLink => IInv'
<1> SUFFICES ASSUME IInv, ListedLink PROVE IInv'  OBVIOUS
<1>1. PICK h : h = Head(files)  OBVIOUS
<1>2. /\ pc = "files" /\ files # <<>> /\ files' = Tail(files) /\ h.type = "l"
      /\ UNCHANGED <<cancelXfer, tar, items, links, n, recurse1, named, begun, passed, silent,
                     archived, canceled, forgot, req, calls, was, asked, deleted, stale>>
      /\ UNCHANGED <<pc, local, batchResult>> /\ result' \in {"ok", result}
      /\ connected' \in {connected, req.kind = "GET"}
  BY <1>1 DEF ListedLink, Quiet
<1>3. /\ h.dst \in Paths /\ IsTree(local) /\ IsTree(remote)
      /\ connected' \in BOOLEAN /\ result' \in Results /\ batchResult \in Results
  <2>1. files \in Seq(Entries)  BY DEF IInv, TypeOK
  <2>2. h \in Entries  BY <1>1, <1>2, <2>1, HeadAndTail
  <2>3. h.dst \in Paths  BY <2>2 DEF Entries
  <2> QED BY <1>2, <2>3 DEF IInv, TypeOK, Results
<1>4. CASE req.kind = "PUT" /\ ~Has(remote, h.dst) /\ remote' = With(remote, h.dst, "l")
  <2>1. From' = From /\ To = remote /\ To' = remote'
    BY <1>2, <1>4 DEF From, To
  <2>2. "l" \in Values /\ h.dst \notin DOMAIN remote  BY <1>4 DEF Values, Has
  <2>3. /\ IsTree(remote')
        /\ \A q \in DOMAIN remote : q \in DOMAIN remote' /\ (q # h.dst => remote'[q] = remote[q])
    BY <1>3, <1>4, <2>2, WithTree
  <2>4. Shrinks /\ \A e : Keeps(e)
    BY <1>2, <2>1, <2>2, <2>3, SameShrinks, GrowsKeeps
  <2> QED BY <1>1, <1>2, <1>3, <2>3, <2>4, LoopStep
<1>5. CASE UNCHANGED remote
  <2>1. From' = From /\ To' = To  BY <1>2, <1>5 DEF From, To
  <2>2. Shrinks /\ \A e : Keeps(e)  BY <1>2, <2>1, SameShrinks, GrowsKeeps
  <2> QED BY <1>1, <1>2, <1>3, <1>5, <2>2, LoopStep
<1> QED BY <1>1, <1>4, <1>5 DEF ListedLink

------------------------------------------------------------------------------
(* Beginning and end *)

LEMMA InitInv == Init => IInv
<1> SUFFICES ASSUME Init PROVE IInv  OBVIOUS
<1>1. TypeOK  BY ConstantsAssumption, EmptySeq, FS_EmptySet DEF Init, TypeOK, Results
<1>2. Range(files) = {}  BY NoneIs DEF Init
<1>3. LoopOK /\ CancelOK /\ SourceSafe
  BY DEF Init, LoopOK, CancelOK, SourceSafe
<1>4. ListOK /\ SourceOK /\ DoneOK
  BY <1>2 DEF Init, ListOK, SourceOK, DoneOK, Idle
<1> QED BY <1>1, <1>3, <1>4 DEF IInv

\* Before a request nothing is canceled or deleted.
LEMMA StartsFrom ==
  ASSUME IInv, NEW r \in Requests, Starts(r)
  PROVE  /\ req' = r /\ calls' \in Nat /\ result' = "ok"
         /\ links' = {} /\ named' = TRUE /\ begun' = FALSE /\ passed' = {} /\ deleted' = {}
         /\ canceled' = FALSE /\ forgot' = FALSE
         /\ req' \in Requests \cup {Idle} /\ r.items \in Seq(Paths) /\ r.dst \in Seq(Names)
         /\ r.recurse \in BOOLEAN /\ \A p \in Range(r.items) : p \in Paths
<1>1. r.items \in Seq(Paths) /\ r.dst \in Seq(Names) /\ r.recurse \in BOOLEAN
  BY ConstantsAssumption
<1>2. \A p \in Range(r.items) : p \in Paths  BY <1>1, RangeIn
<1> QED BY <1>1, <1>2 DEF IInv, TypeOK, Starts

LEMMA GetInv == IInv /\ FTPGetFiles => IInv'
<1> SUFFICES ASSUME IInv, NEW r \in Requests, r.kind = "GET", Starts(r),
                    items' = r.items, cancelXfer' = 0, batchResult' = "ok",
                    pc' = (IF r.items = <<>> THEN "done" ELSE "items"),
                    was' = remote, silent' = {},
                    asked' = Listed(UNION {EntriesOf(remote, r.dst, item,
                                                     r.recurse /\ IsDir(remote, item)) :
                                             item \in Range(r.items)}),
                    files' = <<>>, n' = 0, recurse1' = FALSE, stale' = FALSE,
                    UNCHANGED <<remote, local, connected, tar>>
             PROVE  IInv'
  BY DEF FTPGetFiles
<1>1. /\ req' = r /\ calls' \in Nat /\ result' = "ok"
      /\ links' = {} /\ named' = TRUE /\ begun' = FALSE /\ passed' = {} /\ deleted' = {}
      /\ canceled' = FALSE /\ forgot' = FALSE
      /\ req' \in Requests \cup {Idle} /\ r.items \in Seq(Paths) /\ r.dst \in Seq(Names)
      /\ r.recurse \in BOOLEAN /\ \A p \in Range(r.items) : p \in Paths
  BY StartsFrom
<1>2. IsTree(remote) /\ IsTree(local)  BY DEF IInv, TypeOK
<1>3. \A e \in asked' : /\ e \in Entries /\ e.item \in Range(r.items)
                        /\ e.src \in DOMAIN remote \/ e = FileEntry(r.dst, e.item)
  <2>1. SUFFICES ASSUME NEW e \in asked'
                 PROVE  /\ e \in Entries /\ e.item \in Range(r.items)
                        /\ e.src \in DOMAIN remote \/ e = FileEntry(r.dst, e.item)
    OBVIOUS
  <2>2. PICK item \in Range(r.items) :
          e \in EntriesOf(remote, r.dst, item, r.recurse /\ IsDir(remote, item))
    BY <2>1 DEF Listed
  <2>3. PICK walk \in BOOLEAN : e \in EntriesOf(remote, r.dst, item, walk)
    BY <2>2, <1>1
  <2>4. item \in Paths  BY <1>1
  <2> QED BY <1>1, <1>2, <2>2, <2>3, <2>4, AskedIs
<1>4. pc' \in {"items", "done"} /\ (pc' = "items" => r.items # <<>>)
      /\ (pc' = "done" => r.items = <<>>)
  OBVIOUS
<1>5. TypeOK'
  <2>1. asked' \subseteq Entries  BY <1>3
  <2> QED BY <1>1, <1>2, <1>4, <2>1, EmptySeq, FS_EmptySet DEF IInv, TypeOK, Results
<1>6. LoopOK' /\ CancelOK' /\ SourceSafe'
  BY <1>1, <1>4 DEF LoopOK, CancelOK, SourceSafe
<1>7. Range(files') = {}  BY NoneIs
<1>8. ListOK'  BY <1>1, <1>3, <1>7 DEF ListOK
<1>9. SourceOK'  BY <1>1 DEF SourceOK, From
<1>10. DoneOK'
  BY <1>1, <1>3, <1>4 DEF DoneOK
<1> QED BY <1>5, <1>6, <1>8, <1>9, <1>10 DEF IInv

LEMMA PutInv == IInv /\ FTPPutFiles => IInv'
<1> SUFFICES ASSUME IInv, NEW r \in Requests, r.kind = "PUT", Starts(r),
                    cancelXfer' \in {0, cancelXfer}, stale' = (cancelXfer' > 0),
                    NEW fs \in PutLists(r), files' = fs, n' = Len(fs),
                    asked' = Listed(Range(fs) \cup
                               (IF r.recurse THEN UNION {EntriesOf(local, r.dst, item, TRUE) :
                                                           item \in Range(r.items)} ELSE {})),
                    silent' = asked' \ Range(fs),
                    IF r.recurse /\ fs = <<>> THEN pc' = "error" /\ batchResult' = "failed"
                                              ELSE pc' = "files" /\ batchResult' = "ok",
                    was' = local, items' = <<>>, recurse1' = r.recurse,
                    UNCHANGED <<remote, local, connected, tar>>
             PROVE  IInv'
  BY DEF FTPPutFiles
<1>1. /\ req' = r /\ calls' \in Nat /\ result' = "ok"
      /\ links' = {} /\ named' = TRUE /\ begun' = FALSE /\ passed' = {} /\ deleted' = {}
      /\ canceled' = FALSE /\ forgot' = FALSE
      /\ req' \in Requests \cup {Idle} /\ r.items \in Seq(Paths) /\ r.dst \in Seq(Names)
      /\ r.recurse \in BOOLEAN /\ \A p \in Range(r.items) : p \in Paths
  BY StartsFrom
<1>2. IsTree(remote) /\ IsTree(local) /\ cancelXfer \in {0, 1}  BY DEF IInv, TypeOK
<1>3. fs \in Seq(Entries) /\ Len(fs) \in Nat  BY <1>2, PutListIs, LenProperties
<1>4. \A e \in Range(fs) : e \in Entries  BY <1>3, RangeIn
<1>5. asked' \subseteq Entries
  <2>1. ASSUME NEW e \in asked', e \notin Range(fs) PROVE e \in Entries
    <3>1. PICK item \in Range(r.items) : e \in EntriesOf(local, r.dst, item, TRUE)
      BY <2>1 DEF Listed
    <3>2. item \in Paths  BY <1>1
    <3> QED BY <1>1, <1>2, <3>1, <3>2, AskedIs
  <2> QED BY <2>1, <1>4
<1>6. \A e \in Range(fs) : e.type # "d" => e \in asked'  BY DEF Listed
<1>7. pc' \in {"error", "files"} /\ batchResult' \in Results
  BY DEF Results
<1>8. stale' \in BOOLEAN /\ cancelXfer' \in {0, 1} /\ (~stale' => cancelXfer' = 0)
  <2>1. cancelXfer' \in {0, 1}  BY <1>2
  <2>2. stale' = TRUE \/ stale' = FALSE
    <3>1. cancelXfer' > 0 \/ ~(cancelXfer' > 0)  OBVIOUS
    <3>2. stale' <=> cancelXfer' > 0  OBVIOUS
    <3> QED OBVIOUS
  <2>3. ~(cancelXfer' > 0) => cancelXfer' = 0  BY <2>1
  <2> QED BY <2>1, <2>2, <2>3
<1>9. TypeOK'
  <2>1. silent' \subseteq asked'  OBVIOUS
  <2>2. "ok" \in Results /\ <<>> \in Seq(Paths) /\ IsFiniteSet({})
    BY EmptySeq, FS_EmptySet DEF Results
  <2>3. tar \in {"unknown", "yes", "no"} /\ connected \in BOOLEAN  BY DEF IInv, TypeOK
  <2> QED BY <1>1, <1>2, <1>3, <1>5, <1>7, <1>8, <2>1, <2>2, <2>3 DEF TypeOK
<1>10. LoopOK' /\ CancelOK' /\ SourceSafe'
  BY <1>1, <1>7, <1>8 DEF LoopOK, CancelOK, SourceSafe
<1>11. ListOK'  BY <1>1, <1>6 DEF ListOK
<1>12. SourceOK'  BY <1>1 DEF SourceOK, From
<1>13. DoneOK'  BY <1>7 DEF DoneOK
<1> QED BY <1>9, <1>10, <1>11, <1>12, <1>13 DEF IInv

LEMMA DeleteInv == IInv /\ FTPDelete => IInv'
<1> SUFFICES ASSUME IInv, NEW r \in Requests, r.kind = "DELE", Starts(r),
                    items' = r.items, pc' = "delete", batchResult' = "ok",
                    was' = remote, silent' = {},
                    asked' = {[item |-> p, src |-> p, dst |-> p, type |-> "-"] :
                                p \in Range(r.items)},
                    files' = <<>>, n' = 0, recurse1' = FALSE, stale' = FALSE,
                    UNCHANGED <<remote, local, connected, tar, cancelXfer>>
             PROVE  IInv'
  BY DEF FTPDelete
<1>1. /\ req' = r /\ calls' \in Nat /\ result' = "ok"
      /\ links' = {} /\ named' = TRUE /\ begun' = FALSE /\ passed' = {} /\ deleted' = {}
      /\ canceled' = FALSE /\ forgot' = FALSE
      /\ req' \in Requests \cup {Idle} /\ r.items \in Seq(Paths)
      /\ \A p \in Range(r.items) : p \in Paths
  BY StartsFrom
<1>2. asked' \subseteq Entries /\ \A e \in asked' : e.src \in Range(r.items)
  BY <1>1 DEF Entries
<1>3. TypeOK'  BY <1>1, <1>2, EmptySeq, FS_EmptySet DEF IInv, TypeOK, Results
<1>4. LoopOK' /\ CancelOK' /\ SourceSafe'
  BY <1>1 DEF LoopOK, CancelOK, SourceSafe
<1>5. Range(files') = {}  BY NoneIs
<1>6. ListOK' /\ SourceOK' /\ DoneOK'
  BY <1>1, <1>2, <1>5 DEF ListOK, SourceOK, DoneOK
<1> QED BY <1>3, <1>4, <1>6 DEF IInv

LEMMA ReturnInv == IInv /\ Return => IInv'
<1> SUFFICES ASSUME IInv, Return PROVE IInv'  OBVIOUS
<1>1. TypeOK'  BY EmptySeq, FS_EmptySet DEF IInv, TypeOK, Return, Results
<1>2. Range(files') = {}  BY NoneIs DEF Return
<1>3. LoopOK' /\ CancelOK' /\ SourceSafe'
  BY DEF Return, LoopOK, CancelOK, SourceSafe
<1>4. ListOK' /\ SourceOK' /\ DoneOK'
  BY <1>2 DEF Return, ListOK, SourceOK, DoneOK, Idle
<1> QED BY <1>1, <1>3, <1>4 DEF IInv

------------------------------------------------------------------------------
(* Archives *)

\* What tar makes of a tree.
LEMMA UnpackedIs ==
  ASSUME IsTree(local), IsTree(remote), req.dst \in Seq(Names),
         NEW parts, parts \subseteq DOMAIN remote, NEW cut
  PROVE  /\ IsTree(Unpacked(parts, cut))
         /\ \A q \in DOMAIN local \ {ArchiveTo(p) : p \in parts} :
              q \in DOMAIN Unpacked(parts, cut) /\ Unpacked(parts, cut)[q] = local[q]
<1> DEFINE made  == {ArchiveTo(p) : p \in parts}
           Ups(q) == {SubSeq(q, 1, i) : i \in 1 .. Len(q) - 1}
           above == UNION {Ups(q) : q \in made}
           Of(q) == SubSeq(q, Len(req.dst) + 1, Len(q))
           D == DOMAIN local \cup made \cup above
           t == Unpacked(parts, cut)
<1>1. t = [q \in D |->
             CASE q \in made /\ Of(q) \in cut -> Partial
               [] q \in made /\ Of(q) \notin cut -> remote[Of(q)]
               [] q \notin made /\ q \in DOMAIN local -> local[q]
               [] OTHER -> "d"]
  BY DEF Unpacked
<1>2. parts \subseteq Paths /\ IsFiniteSet(parts)
  BY FS_Subset DEF IsTree
<1>3. made \subseteq Paths
  BY <1>2, PathUnder DEF ArchiveTo
<1>4. IsFiniteSet(made)
  <2> DEFINE f == [p \in parts |-> ArchiveTo(p)]
  <2>1. \A y \in made : \E x \in parts : y = f[x]  OBVIOUS
  <2> HIDE DEF f, made
  <2> QED BY <1>2, <2>1, FiniteImage
<1>5. \A q \in made : IsFiniteSet(Ups(q)) /\ Ups(q) \subseteq Paths
  <2>1. SUFFICES ASSUME NEW q \in Paths PROVE IsFiniteSet(Ups(q)) /\ Ups(q) \subseteq Paths
    BY <1>3
  <2>2. q \in Seq(Names) /\ Len(q) \in Nat  BY PathIs
  <2>3. Ups(q) \subseteq Upward(q)  BY <2>2 DEF Upward
  <2> HIDE DEF Ups
  <2> QED BY <2>2, <2>3, UpwardPaths, FS_Subset
<1>6. IsFiniteSet(above) /\ above \subseteq Paths
  <2> DEFINE S == {Ups(q) : q \in made}
             g == [q \in made |-> Ups(q)]
  <2>1. \A y \in S : \E x \in made : y = g[x]  OBVIOUS
  <2>2. \A y \in S : IsFiniteSet(y) /\ y \subseteq Paths  BY <1>5
  <2>3. above = UNION S  OBVIOUS
  <2> HIDE DEF g, S, made, above
  <2>4. IsFiniteSet(S)  BY <1>4, <2>1, FiniteImage
  <2>5. IsFiniteSet(UNION S)  BY <2>2, <2>4, FS_UNION
  <2> QED BY <2>2, <2>3, <2>5
<1>7. IsFiniteSet(D) /\ D \subseteq Paths
  <2> HIDE DEF made, above
  <2>1. IsFiniteSet(DOMAIN local \cup made)  BY <1>4, FS_Union DEF IsTree
  <2>2. IsFiniteSet((DOMAIN local \cup made) \cup above)  BY <2>1, <1>6, FS_Union
  <2> QED BY <2>2, <1>3, <1>6 DEF IsTree
<1>8. \A q \in made : Of(q) \in DOMAIN remote
  <2>1. ASSUME NEW p \in parts PROVE Of(ArchiveTo(p)) = p
    <3>1. /\ p \in Seq(Names) /\ Len(p) \in Nat /\ Len(p) >= 1 /\ Len(req.dst) \in Nat
      BY <1>2, PathIs, LenProperties
    <3>2. ArchiveTo(p) = req.dst \o p /\ Len(ArchiveTo(p)) = Len(req.dst) + Len(p)
      BY <3>1, ConcatProperties DEF ArchiveTo
    <3>3. SubSeq(req.dst \o p, Len(req.dst) + 1, Len(req.dst) + Len(p)) = SubSeq(p, 1, Len(p))
      <4>1. /\ Len(req.dst) + 1 \in Len(req.dst) + 1 .. Len(req.dst) + Len(p)
            /\ Len(req.dst) + Len(p) \in Len(req.dst) + 1 .. Len(req.dst) + Len(p)
            /\ (Len(req.dst) + 1) - Len(req.dst) = 1 /\ (Len(req.dst) + Len(p)) - Len(req.dst) = Len(p)
        BY <3>1
      <4>2. \A j, k \in Len(req.dst) + 1 .. Len(req.dst) + Len(p) :
              SubSeq(req.dst \o p, j, k) = SubSeq(p, j - Len(req.dst), k - Len(req.dst))
        BY <3>1, SubSeqOfConcat2
      <4> QED BY <4>1, <4>2
    <3>4. SubSeq(p, 1, Len(p)) = p  BY <3>1, SubSeqFull
    <3> QED BY <3>2, <3>3, <3>4
  <2> QED BY <2>1
<1> HIDE DEF made, above, Of, D
<1>9. \A q \in D : t[q] \in Values
  <2>1. SUFFICES ASSUME NEW q \in D PROVE t[q] \in Values  OBVIOUS
  <2>2. CASE q \in made
    <3>1. remote[Of(q)] \in Values  BY <1>8, <2>2 DEF IsTree, Values
    <3>2. t[q] = Partial \/ t[q] = remote[Of(q)]  BY <1>1, <2>2
    <3> QED BY <3>1, <3>2 DEF Values
  <2>3. CASE q \notin made /\ q \in DOMAIN local
    <3>1. t[q] = local[q]  BY <1>1, <2>3
    <3> QED BY <2>3, <3>1 DEF IsTree, Values
  <2>4. CASE q \notin made /\ q \notin DOMAIN local
    <3>1. t[q] = "d"  BY <1>1, <2>4
    <3> QED BY <3>1 DEF Values
  <2> QED BY <2>2, <2>3, <2>4
<1>10. DOMAIN t = D /\ t = [q \in D |-> t[q]]  BY <1>1
<1> HIDE DEF t
<1>11. t \in [D -> Values]  BY <1>9, <1>10
<1>12. IsTree(t)  BY <1>7, <1>10, <1>11 DEF IsTree, Values
<1>13. \A q \in DOMAIN local \ made : q \in DOMAIN t /\ t[q] = local[q]
  BY <1>1, <1>10 DEF D, t
<1> QED BY <1>12, <1>13 DEF t, made

\* What an archive may have overwritten clashes with it.
LEMMA UnpacksKeeps ==
  ASSUME IsTree(local), IsTree(remote), req.dst \in Seq(Names), req.kind = "GET",
         Head(items) \in DOMAIN remote, Unpacks, UNCHANGED <<remote, req, was, asked>>
  PROVE  IsTree(local') /\ Shrinks /\ \A e : Keeps(e)
<1>1. PICK parts \in SUBSET {p \in Archived : Fits(p)} :
        \E cut \in {{}} \cup {{p} : p \in {q \in parts : IsFile(remote, q)}} :
          local' = Unpacked(parts, cut)
  BY DEF Unpacks
<1>2. PICK cut : local' = Unpacked(parts, cut)  BY <1>1
<1>3. parts \subseteq DOMAIN remote /\ parts \subseteq Archived
  BY <1>1 DEF Archived, Below
<1>4. /\ IsTree(local')
      /\ \A q \in DOMAIN local \ {ArchiveTo(p) : p \in parts} :
           q \in DOMAIN local' /\ local'[q] = local[q]
  BY <1>2, <1>3, UnpackedIs
<1>5. From' = From /\ To = local /\ To' = local'  BY DEF From, To
<1>6. archived \subseteq archived' /\ {ArchiveTo(p) : p \in parts} \subseteq archived'
  BY <1>3 DEF Unpacks
<1>7. ASSUME NEW e PROVE Keeps(e)
  <2>1. Clash(e) => Clash(e)'  BY <1>6 DEF Clash
  <2>2. CASE e.dst \in {ArchiveTo(p) : p \in parts}
    <3>1. Clash(e)'  BY <2>2, <1>6 DEF Clash
    <3> QED BY <3>1 DEF Keeps
  <2>3. CASE e.dst \notin {ArchiveTo(p) : p \in parts}
    <3>1. e.dst \in DOMAIN To => e.dst \in DOMAIN To' /\ To'[e.dst] = To[e.dst]
      BY <2>3, <1>4, <1>5
    <3> QED BY <2>1, <3>1 DEF Keeps, Holds, Looks
  <2> QED BY <2>2, <2>3
<1> QED BY <1>4, <1>5, <1>7, SameShrinks

\* What is true when an item is taken up.
LEMMA ItemFacts ==
  ASSUME IInv, pc \in {"items", "walk"}
  PROVE  /\ req.kind = "GET" /\ files = <<>> /\ Range(files) = {} /\ items # <<>>
         /\ items \in Seq(Paths) /\ Head(items) \in Paths /\ Tail(items) \in Seq(Paths)
         /\ Range(items) = {Head(items)} \cup Range(Tail(items))
         /\ IsTree(local) /\ IsTree(remote) /\ req.dst \in Seq(Names) /\ req.recurse \in BOOLEAN
         /\ From = remote /\ To = local /\ ~stale
         /\ canceled \in BOOLEAN /\ forgot \in BOOLEAN /\ cancelXfer \in {0, 1}
         /\ connected \in BOOLEAN
         /\ \A q \in DOMAIN remote : q \in DOMAIN was
         /\ \A p \in Paths : IsDir(remote, p) => p \in DOMAIN remote
<1>1. /\ req.kind = "GET" /\ files = <<>> /\ items # <<>> /\ items \in Seq(Paths)
      /\ IsTree(local) /\ IsTree(remote) /\ ~stale /\ req \in Requests \cup {Idle}
      /\ canceled \in BOOLEAN /\ forgot \in BOOLEAN /\ cancelXfer \in {0, 1} /\ connected \in BOOLEAN
  BY DEF IInv, TypeOK, LoopOK, CancelOK
<1>2. From = remote /\ To = local  BY <1>1 DEF From, To
<1>3. \A q \in DOMAIN remote : q \in DOMAIN was  BY <1>1, <1>2 DEF IInv, SourceOK
<1>4. \A p \in Paths : IsDir(remote, p) => p \in DOMAIN remote  BY DEF IsDir, Paths
<1>5. req.dst \in Seq(Names) /\ req.recurse \in BOOLEAN  BY <1>1, ReqFields
<1> QED BY <1>1, <1>2, <1>3, <1>4, <1>5, HeadAndTail, NoneIs

LEMMA TarFailsInv == IInv /\ TarFails => IInv'
<1> SUFFICES ASSUME IInv, TarFails PROVE IInv'  OBVIOUS
<1>0. TypeOK /\ LoopOK /\ ListOK /\ SourceOK /\ CancelOK /\ DoneOK /\ SourceSafe  BY DEF IInv
<1>1. /\ pc = "items" /\ Directory /\ pc' = "walk" /\ connected' \in BOOLEAN
      /\ UNCHANGED <<remote, items, files, links, n, recurse1, named, begun, result,
                     batchResult, passed, silent, req, calls, was, asked, deleted, stale>>
  BY DEF TarFails, Tarable, Quiet
<1>2. /\ req.kind = "GET" /\ files = <<>> /\ items # <<>> /\ Head(items) \in Paths
      /\ IsTree(local) /\ IsTree(remote) /\ req.dst \in Seq(Names)
      /\ From = remote /\ To = local /\ ~stale
      /\ canceled \in BOOLEAN /\ forgot \in BOOLEAN /\ cancelXfer \in {0, 1}
      /\ \A p \in Paths : IsDir(remote, p) => p \in DOMAIN remote
  BY <1>1, ItemFacts
<1>3. Head(items) \in DOMAIN remote /\ req.recurse  BY <1>1, <1>2 DEF Directory
<1>4. /\ tar' \in {"unknown", "yes", "no"} /\ cancelXfer' \in {0, 1}
      /\ canceled' \in BOOLEAN /\ forgot' \in BOOLEAN
      /\ (canceled' /\ ~forgot' => cancelXfer' = 1) /\ (cancelXfer' = 1 => canceled')
      /\ IsTree(local') /\ Shrinks /\ \A e : Keeps(e)
  <2>1. CASE /\ tar' \in {tar, IF tar = "unknown" THEN "no" ELSE tar}
             /\ cancelXfer' \in {0, cancelXfer}
             /\ forgot' = (forgot \/ (canceled /\ cancelXfer' = 0))
             /\ UNCHANGED <<local, archived, canceled>>
    <3>1. tar' \in {"unknown", "yes", "no"}  BY <1>0, <2>1 DEF TypeOK
    <3>2. From' = From /\ To' = To  BY <1>1, <2>1 DEF From, To
    <3>3. Shrinks /\ \A e : Keeps(e)  BY <1>1, <2>1, <3>2, SameShrinks, GrowsKeeps
    <3>4. (forgot' <=> forgot \/ (canceled /\ cancelXfer' = 0)) /\ forgot' \in BOOLEAN
      BY <2>1
    <3>5. (canceled /\ ~forgot => cancelXfer = 1) /\ (cancelXfer = 1 => canceled)
      BY <1>0, <1>1 DEF CancelOK
    <3> QED BY <1>2, <2>1, <3>1, <3>3, <3>4, <3>5
  <2>2. CASE tar' = "yes" /\ Unpacks /\ CanceledInArchive
    <3>1. IsTree(local') /\ Shrinks /\ \A e : Keeps(e)
      BY <1>1, <1>2, <1>3, <2>2, UnpacksKeeps
    <3>2. /\ cancelXfer' \in {0, 1} /\ (canceled' <=> canceled \/ cancelXfer' = 1)
          /\ canceled' \in BOOLEAN /\ (forgot' <=> forgot \/ canceled) /\ forgot' \in BOOLEAN
      BY <2>2 DEF CanceledInArchive
    <3> QED BY <2>2, <3>1, <3>2
  <2> QED BY <2>1, <2>2 DEF TarFails
<1>5. TypeOK'  BY <1>0, <1>1, <1>4 DEF TypeOK
<1>6. LoopOK'
  BY <1>0, <1>1, <1>2, <1>3 DEF LoopOK, Directory, IsDir
<1>7. ListOK'
  <2>1. \A e \in deleted' : e.type = "-" /\ e.src \notin DOMAIN From'
    BY <1>0, <1>1, <1>4 DEF ListOK, Shrinks
  <2> QED BY <1>0, <1>1, <2>1 DEF ListOK
<1>8. SourceOK'  BY <1>0, <1>1, <1>4, SourceStep
<1>9. CancelOK'  BY <1>0, <1>1, <1>2, <1>4 DEF CancelOK
<1>10. DoneOK'
  <2>1. \A e : Moved(e) => Moved(e)'  BY <1>1, StaysMoved
  <2> QED BY <1>0, <1>1, <1>4, <2>1 DEF DoneOK, Keeps
<1>11. SourceSafe'  BY <1>0, <1>1, <1>4, SafeStep
<1> QED BY <1>5, <1>6, <1>7, <1>8, <1>9, <1>10, <1>11 DEF IInv

LEMMA TarBringsInv == IInv /\ TarBrings => IInv'
<1> SUFFICES ASSUME IInv, TarBrings PROVE IInv'  OBVIOUS
<1>0. TypeOK /\ LoopOK /\ ListOK /\ SourceOK /\ CancelOK /\ DoneOK /\ SourceSafe  BY DEF IInv
<1>1. /\ pc = "items" /\ Directory /\ Unpacks /\ CanceledInArchive
      /\ tar' = "yes" /\ items' = Tail(items) /\ pc' = AfterItem
      /\ silent' = silent \cup {e \in asked : e.item = Head(items)}
      /\ UNCHANGED <<remote, connected, files, links, n, recurse1, named, begun, result,
                     batchResult, passed, req, calls, was, asked, deleted, stale>>
  BY DEF TarBrings, Tarable, Quiet
<1>2. /\ req.kind = "GET" /\ files = <<>> /\ Range(files) = {} /\ Head(items) \in Paths
      /\ Tail(items) \in Seq(Paths) /\ Range(items) = {Head(items)} \cup Range(Tail(items))
      /\ IsTree(local) /\ IsTree(remote) /\ req.dst \in Seq(Names) /\ ~stale
      /\ From = remote /\ To = local /\ canceled \in BOOLEAN
      /\ \A p \in Paths : IsDir(remote, p) => p \in DOMAIN remote
  BY <1>1, ItemFacts
<1>3. Head(items) \in DOMAIN remote  BY <1>1, <1>2 DEF Directory
<1>4. IsTree(local') /\ Shrinks /\ \A e : Keeps(e)
  BY <1>1, <1>2, <1>3, UnpacksKeeps
<1>5. /\ cancelXfer' \in {0, 1} /\ (canceled' <=> canceled \/ cancelXfer' = 1)
      /\ canceled' \in BOOLEAN /\ (forgot' <=> forgot \/ canceled) /\ forgot' \in BOOLEAN
  BY <1>1 DEF CanceledInArchive
<1>6. /\ pc' \in {"items", "done"} /\ (pc' = "items" => items' # <<>>)
      /\ (pc' = "done" => items' = <<>>)
  BY <1>1 DEF AfterItem
<1>7. TypeOK'
  <2>1. silent' \subseteq asked  BY <1>0, <1>1 DEF TypeOK
  <2> QED BY <1>0, <1>1, <1>2, <1>4, <1>5, <1>6, <2>1 DEF TypeOK
<1>8. LoopOK'  BY <1>0, <1>1, <1>2, <1>6 DEF LoopOK
<1>9. ListOK'
  <2>1. \A e \in deleted' : e.type = "-" /\ e.src \notin DOMAIN From'
    BY <1>0, <1>1, <1>4 DEF ListOK, Shrinks
  <2> QED BY <1>0, <1>1, <2>1 DEF ListOK
<1>10. SourceOK'  BY <1>0, <1>1, <1>4, SourceStep
<1>11. CancelOK'  BY <1>0, <1>1, <1>2, <1>5, <1>6 DEF CancelOK
<1>12. DoneOK'
  <2>1. SUFFICES ASSUME batchResult = "ok", NEW e \in asked \ (passed \cup silent'), e.type = "-"
                 PROVE  Holds(e)' \/ Clash(e)' \/ Moved(e)' \/ e \in Range(files)
                        \/ e.item \in Range(items')
    BY <1>1, <1>6 DEF DoneOK
  <2>2. Holds(e) \/ Clash(e) \/ Moved(e) \/ e.item \in Range(items)
    BY <2>1, <1>0, <1>1, <1>2 DEF DoneOK
  <2>3. Keeps(e) /\ (Moved(e) => Moved(e)')  BY <1>1, <1>4, StaysMoved
  <2>4. e.item # Head(items)  BY <2>1, <1>1
  <2> QED BY <2>2, <2>3, <2>4, <1>1, <1>2 DEF Keeps
<1>13. SourceSafe'
  <2>1. silent \subseteq silent' /\ passed \subseteq passed'  BY <1>1
  <2> QED BY <1>0, <1>1, <1>4, <2>1, SafeStep
<1> QED BY <1>7, <1>8, <1>9, <1>10, <1>11, <1>12, <1>13 DEF IInv

------------------------------------------------------------------------------
(* The items of a download *)

\* What is asked of an item is listed, or set apart when the list lacks it; what is not
\* there any more has been moved.
LEMMA ItemStep ==
  ASSUME IInv, pc \in {"items", "walk"}, NEW fs \in Seq(Entries), ItemListed(fs),
         cancelXfer' \in {0, 1}, connected' \in BOOLEAN, recurse1' \in BOOLEAN,
         named' \in BOOLEAN, canceled' \in BOOLEAN, forgot' \in BOOLEAN,
         cancelXfer' = 1 => canceled', cancelXfer' = 0 /\ canceled' => forgot',
         \A e \in Range(fs) : e.src \in DOMAIN remote \/ e = FileEntry(req.dst, e.item),
         \A e \in asked : e.item = Head(items) /\ e \notin Range(fs)
                          /\ e.src \notin DOMAIN remote => e.src \in DOMAIN was
  PROVE  IInv'
<1>0. TypeOK /\ LoopOK /\ ListOK /\ SourceOK /\ CancelOK /\ DoneOK /\ SourceSafe  BY DEF IInv
<1>1. /\ req.kind = "GET" /\ files = <<>> /\ Range(files) = {} /\ items # <<>>
      /\ Tail(items) \in Seq(Paths) /\ Range(items) = {Head(items)} \cup Range(Tail(items))
      /\ From = remote /\ To = local /\ ~stale
      /\ \A q \in DOMAIN remote : q \in DOMAIN was
  BY ItemFacts
<1>2. /\ items' = Tail(items) /\ begun' = TRUE /\ n' = Len(fs) /\ result' = "ok"
      /\ asked' = asked \cup Listed(Range(fs))
      /\ silent' = silent \cup {e \in asked : e.item = Head(items) /\ e.src \in DOMAIN remote
                                              /\ e \notin Range(fs)}
      /\ UNCHANGED <<remote, local, tar, req, batchResult, calls, was, passed, archived,
                     deleted, stale>>
      /\ \/ cancelXfer' > 0 /\ files' = <<>> /\ links' = {} /\ pc' = "canceled"
         \/ ~(cancelXfer' > 0) /\ files' = fs /\ links' = LinksOf(fs) /\ pc' = "files"
  BY DEF ItemListed
<1>3. /\ \A e \in Range(fs) : e \in Entries
      /\ Len(fs) \in Nat /\ IsFiniteSet(LinksOf(fs))
      /\ LinksOf(fs) \subseteq Range(fs) /\ \A e \in LinksOf(fs) : e.type = "l"
  <2>1. LinksOf(fs) \subseteq Range(fs) /\ \A e \in LinksOf(fs) : e.type = "l"
    BY DEF LinksOf
  <2> QED BY <2>1, RangeIn, LenProperties, FiniteRange
<1>4. /\ \A e \in Range(fs) : e.type # "d" => e \in asked'
      /\ asked \subseteq asked' /\ asked' \subseteq asked \cup Range(fs)
  BY <1>2 DEF Listed
<1>5. /\ files' \in Seq(Entries) /\ \A e \in Range(files') : e \in Range(fs)
      /\ links' \subseteq asked' /\ IsFiniteSet(links') /\ \A e \in links' : e.type = "l"
  BY <1>2, <1>3, <1>4, NoneIs, FS_EmptySet
<1>6. From' = From /\ To' = To /\ Shrinks
  <2>1. From' = From /\ To' = To  BY <1>2 DEF From, To
  <2> QED BY <2>1, SameShrinks
<1>7. \A e : Keeps(e)
  <2>1. \A e : Clash(e) => Clash(e)'  BY <1>2, <1>4 DEF Clash
  <2> QED BY <1>2, <1>6, <2>1 DEF Keeps, Holds, Looks
<1>8. TypeOK'
  <2>1. /\ asked' \subseteq Entries /\ passed' \subseteq asked' /\ silent' \subseteq asked'
        /\ deleted' \subseteq asked'
    BY <1>0, <1>2, <1>3, <1>4 DEF TypeOK
  <2>2. result' \in Results  BY <1>2 DEF Results
  <2>3. pc' \in {"files", "canceled"}  BY <1>2
  <2> QED BY <1>0, <1>1, <1>2, <1>3, <1>5, <2>1, <2>2, <2>3 DEF TypeOK
<1>9. LoopOK'  BY <1>0, <1>1, <1>2 DEF LoopOK
<1>10. ListOK'
  <2>1. \A e \in deleted' : e.type = "-" /\ e.src \notin DOMAIN From'
    BY <1>0, <1>2, <1>6 DEF ListOK
  <2>2. \A e \in asked' : e.src \in DOMAIN was \/ e = FileEntry(req.dst, e.item)
    BY <1>0, <1>1, <1>4 DEF ListOK
  <2> QED BY <1>2, <1>4, <1>5, <2>1, <2>2 DEF ListOK
<1>11. SourceOK'  BY <1>0, <1>2, <1>6, SourceStep
<1>12. CancelOK'
  <2>1. cancelXfer' > 0 => cancelXfer' = 1  OBVIOUS
  <2>2. ~(cancelXfer' > 0) => cancelXfer' = 0  OBVIOUS
  <2> QED BY <1>0, <1>1, <1>2, <2>1, <2>2 DEF CancelOK
<1>13. DoneOK'
  <2>1. SUFFICES ASSUME batchResult = "ok", files' = fs,
                        NEW e \in asked' \ (passed \cup silent'), e.type = "-"
                 PROVE  Holds(e)' \/ Clash(e)' \/ Moved(e)' \/ e \in Range(files')
                        \/ e.item \in Range(items')
    BY <1>2 DEF DoneOK
  <2>2. CASE e \in Range(fs)  BY <2>1, <2>2
  <2>3. CASE e \notin Range(fs)
    <3>1. e \in asked /\ e \notin silent /\ e \notin passed  BY <2>1, <2>3, <1>2, <1>4
    <3>2. Holds(e) \/ Clash(e) \/ Moved(e) \/ e.item \in Range(items)
      BY <2>1, <3>1, <1>0, <1>1 DEF DoneOK
    <3>3. Keeps(e) /\ (Moved(e) => Moved(e)')  BY <1>2, <1>7, StaysMoved
    <3>4. CASE e.item = Head(items)
      <4>1. e.src \notin DOMAIN remote  BY <2>1, <2>3, <3>1, <3>4, <1>2
      <4>2. e.src \in DOMAIN was \ DOMAIN From  BY <2>3, <3>1, <3>4, <4>1, <1>1
      <4>3. PICK d \in deleted : d.src = e.src  BY <4>2, <1>0, <1>1 DEF SourceOK
      <4>4. CASE d = e
        <5>1. e \in deleted \ silent /\ e \notin passed  BY <3>1, <4>3, <4>4
        <5>2. Holds(e) \/ Clash(e)  BY <5>1, <1>0 DEF SourceSafe
        <5> QED BY <5>2, <3>3 DEF Keeps
      <4>5. CASE d # e
        <5>1. Moved(e)  BY <4>3, <4>5 DEF Moved
        <5> QED BY <5>1, <3>3
      <4> QED BY <4>4, <4>5
    <3>5. CASE e.item # Head(items)
      BY <3>2, <3>3, <3>5, <1>1, <1>2 DEF Keeps
    <3> QED BY <3>4, <3>5
  <2> QED BY <2>2, <2>3
<1>14. SourceSafe'
  <2>1. silent \subseteq silent' /\ passed \subseteq passed'  BY <1>2
  <2> QED BY <1>0, <1>2, <1>7, <2>1, SafeStep
<1> QED BY <1>8, <1>9, <1>10, <1>11, <1>12, <1>13, <1>14 DEF IInv

\* A cancellation that is pending, or forgotten, stays what it is.
LEMMA PendingIs ==
  ASSUME IInv, pc \in {"items", "walk"}, UNCHANGED <<cancelXfer, canceled, forgot>>
  PROVE  /\ cancelXfer' \in {0, 1} /\ canceled' \in BOOLEAN /\ forgot' \in BOOLEAN
         /\ (cancelXfer' = 1 => canceled') /\ (cancelXfer' = 0 /\ canceled' => forgot')
<1>1. canceled \in BOOLEAN /\ forgot \in BOOLEAN /\ cancelXfer \in {0, 1}  BY ItemFacts
<1>2. (canceled /\ ~forgot => cancelXfer = 1) /\ (cancelXfer = 1 => canceled)
  BY DEF IInv, CancelOK
<1> QED BY <1>1, <1>2

\* A directory that is there was there when the request began, and so was what was asked of it.
LEMMA AskedOfDirectory ==
  ASSUME IInv, pc \in {"items", "walk"}, Head(items) \in DOMAIN remote
  PROVE  \A e \in asked : e.item = Head(items) => e.src \in DOMAIN was
<1>1. /\ req.kind = "GET" /\ \A q \in DOMAIN remote : q \in DOMAIN was  BY ItemFacts
<1>2. \A e \in asked : e.src \in DOMAIN was \/ e = FileEntry(req.dst, e.item)
  BY <1>1 DEF IInv, ListOK
<1>3. ASSUME NEW e \in asked, e.item = Head(items) PROVE e.src \in DOMAIN was
  <2>1. CASE e = FileEntry(req.dst, e.item)
    <3>1. FileEntry(req.dst, e.item).src = e.item  BY DEF FileEntry
    <3>2. e.src = Head(items)  BY <1>3, <2>1, <3>1
    <3> QED BY <1>1, <3>2
  <2> QED BY <1>2, <2>1
<1> QED BY <1>3

LEMMA GetNameInv == IInv /\ GetName => IInv'
<1> SUFFICES ASSUME IInv, GetName PROVE IInv'  OBVIOUS
<1> DEFINE item == Head(items)
           e1   == FileEntry(req.dst, item)
<1>1. /\ pc \in {"items", "walk"} /\ recurse1' = FALSE /\ named' = TRUE
      /\ connected' \in {connected, connected /\ ~req.recurse}
      /\ UNCHANGED <<cancelXfer, canceled, forgot>>
      /\ ItemListed(<<e1>>)
  BY FileEntryIs DEF GetName
<1>2. /\ item \in Paths /\ req.dst \in Seq(Names) /\ connected \in BOOLEAN /\ req.recurse \in BOOLEAN
      /\ req.kind = "GET" /\ \A q \in DOMAIN remote : q \in DOMAIN was
  BY <1>1, ItemFacts
<1>3. e1 \in Entries /\ e1.item = item  BY <1>2, EntryIs DEF FileEntry
<1>4. <<e1>> \in Seq(Entries) /\ Range(<<e1>>) = {e1}  BY <1>3, NoneIs, OneAndMore
<1>5. \A e \in Range(<<e1>>) : e = FileEntry(req.dst, e.item)  BY <1>3, <1>4
<1>6. \A e \in asked : e.item = item /\ e \notin Range(<<e1>>) => e.src \in DOMAIN was
  <2>1. \A e \in asked : e.src \in DOMAIN was \/ e = FileEntry(req.dst, e.item)
    BY <1>2 DEF IInv, ListOK
  <2> QED BY <1>4, <2>1
<1>7. /\ cancelXfer' \in {0, 1} /\ canceled' \in BOOLEAN /\ forgot' \in BOOLEAN
      /\ (cancelXfer' = 1 => canceled') /\ (cancelXfer' = 0 /\ canceled' => forgot')
  BY <1>1, PendingIs
<1>8. connected' \in BOOLEAN /\ recurse1' \in BOOLEAN /\ named' \in BOOLEAN  BY <1>1, <1>2
<1> HIDE DEF e1
<1> QED BY <1>1, <1>4, <1>5, <1>6, <1>7, <1>8, ItemStep

\* A list of what is in the directory, or nothing of it, keeps the invariant.
LEMMA WalkStep ==
  ASSUME IInv, ToWalk, NEW fs, ListIn(remote, fs), ItemListed(fs),
         cancelXfer' \in {0, 1}, connected' \in {connected, FALSE}, recurse1' = TRUE,
         named' \in BOOLEAN, canceled' \in BOOLEAN, forgot' \in BOOLEAN,
         cancelXfer' = 1 => canceled', cancelXfer' = 0 /\ canceled' => forgot'
  PROVE  IInv'
<1>1. pc \in {"items", "walk"}  BY DEF ToWalk
<1>2. connected \in BOOLEAN /\ Head(items) \in DOMAIN remote
  <2>1. IsDir(remote, Head(items))  BY DEF ToWalk, Directory, IInv, LoopOK
  <2> QED BY <1>1, <2>1, ItemFacts
<1>3. \A e \in asked : e.item = Head(items) => e.src \in DOMAIN was
  BY <1>1, <1>2, AskedOfDirectory
<1>4. fs \in Seq(Entries) /\ \A e \in Range(fs) : e.src \in DOMAIN remote  BY DEF ListIn
<1>5. connected' \in BOOLEAN /\ recurse1' \in BOOLEAN  BY <1>2
<1> QED BY <1>1, <1>3, <1>4, <1>5, ItemStep

LEMMA WalkItemInv == IInv /\ WalkItem => IInv'
<1> SUFFICES ASSUME IInv, WalkItem PROVE IInv'  OBVIOUS
<1> DEFINE item == Head(items)
<1>1. ToWalk /\ recurse1' = TRUE /\ connected' \in {connected, FALSE} /\ pc \in {"items", "walk"}
  BY DEF WalkItem, ToWalk
<1>2. /\ item \in Paths /\ req.dst \in Seq(Names) /\ IsTree(remote) /\ canceled \in BOOLEAN
      /\ forgot \in BOOLEAN
  BY <1>1, ItemFacts
<1>3. item \in DOMAIN remote
  <2>1. IsDir(remote, item)  BY <1>1 DEF ToWalk, Directory, IInv, LoopOK
  <2> QED BY <1>1, <2>1, ItemFacts
<1>4. ASSUME NEW o \in Walks(remote, item),
             cancelXfer' \in {0, 1}, canceled' \in {canceled, TRUE}, cancelXfer' = 1 => canceled',
             forgot' = (forgot \/ (canceled' /\ cancelXfer' = 0)),
             \/ named' = TRUE /\ ItemListed(ListOf(remote, req.dst, item, o))
             \/ named' = FALSE /\ \E k \in 0 .. Len(o) :
                  ItemListed(SubSeq(ListOf(remote, req.dst, item, o), 1, k))
      PROVE  IInv'
  <2>1. o \in Seq(Below(remote, item))  BY <1>2, <1>4, WalksAreLists
  <2>2. /\ ListIn(remote, ListOf(remote, req.dst, item, o))
        /\ \A k \in 0 .. Len(o) : ListIn(remote, SubSeq(ListOf(remote, req.dst, item, o), 1, k))
    BY <1>2, <2>1, ListIs
  <2>3. PICK fs : ListIn(remote, fs) /\ ItemListed(fs)  BY <1>4, <2>2
  <2>4. /\ canceled' \in BOOLEAN /\ named' \in BOOLEAN /\ forgot' \in BOOLEAN
        /\ (cancelXfer' = 0 /\ canceled' => forgot')
    BY <1>2, <1>4
  <2> QED BY <1>1, <1>4, <2>3, <2>4, WalkStep
<1>5. ASSUME NEW fs \in NoWalk(item), named' = FALSE, UNCHANGED <<cancelXfer, canceled, forgot>>,
             ItemListed(fs)
      PROVE  IInv'
  <2>1. CASE fs = <<>>
    BY <1>1, <1>5, <2>1, NoneIs, PendingIs, WalkStep
  <2>2. CASE fs # <<>>
    <3> DEFINE e1 == [item |-> item, src |-> item, dst |-> (req.dst \o <<Last(item)>>) \o item,
                      type |-> "-"]
    <3>1. fs = <<e1>>
      <4>1. Entry(remote, req.dst, item, item, FALSE) = FileEntry(req.dst, item)
        BY FileEntryIs
      <4>2. fs = <<[FileEntry(req.dst, item) EXCEPT !.dst = req.dst \o <<Last(item)>> \o item]>>
        BY <1>5, <2>2, <4>1 DEF NoWalk
      <4>3. \A x : [FileEntry(req.dst, item) EXCEPT !.dst = x]
                  = [item |-> item, src |-> item, dst |-> x, type |-> "-"]
        BY DEF FileEntry
      <4> QED BY <4>2, <4>3
    <3>2. e1 \in Entries
      <4>1. req.dst \o <<Last(item)>> \in Paths  BY <1>2, LastIs
      <4>2. req.dst \o <<Last(item)>> \in Seq(Names)  BY <4>1, PathIs
      <4>3. (req.dst \o <<Last(item)>>) \o item \in Paths  BY <1>2, <4>2, PathUnder
      <4> QED BY <1>2, <4>3 DEF Entries
    <3>3. e1.src \in DOMAIN remote  BY <1>3
    <3> HIDE DEF e1
    <3>4. ListIn(remote, <<e1>>)  BY <3>2, <3>3, NoneIs, OneAndMore DEF ListIn
    <3> QED BY <1>1, <1>5, <3>1, <3>4, PendingIs, WalkStep
  <2> QED BY <2>1, <2>2
<1> QED BY <1>4, <1>5 DEF WalkItem

LEMMA WalkUninitialisedInv == IInv /\ WalkUninitialised => IInv'
<1> SUFFICES ASSUME IInv, WalkUninitialised PROVE IInv'  OBVIOUS
<1>1. /\ ToWalk /\ connected' \in {connected, FALSE} /\ named' = FALSE /\ recurse1' = TRUE
      /\ pc \in {"items", "walk"}
  BY DEF WalkUninitialised, ToWalk
<1>2. CASE UNCHANGED <<cancelXfer, canceled, forgot>> /\ ItemListed(<<>>)
  BY <1>1, <1>2, NoneIs, PendingIs, WalkStep
<1>3. CASE /\ pc' = "crashed"
           /\ UNCHANGED <<remote, local, cancelXfer, items, files, links, n, begun, tar, result,
                          batchResult, passed, silent, archived, canceled, forgot>>
           /\ Quiet
  <2>0. TypeOK /\ LoopOK /\ ListOK /\ SourceOK /\ CancelOK /\ DoneOK /\ SourceSafe  BY DEF IInv
  <2>1. /\ UNCHANGED <<remote, local, cancelXfer, items, files, links, n, begun, tar, result,
                       batchResult, passed, silent, archived, canceled, forgot>>
        /\ UNCHANGED <<req, calls, was, asked, deleted, stale>>
    BY <1>3 DEF Quiet
  <2>2. connected' \in BOOLEAN /\ req.kind = "GET"  BY <1>1, ItemFacts
  <2>3. From' = From /\ To' = To  BY <2>1 DEF From, To
  <2>4. TypeOK'  BY <1>1, <1>3, <2>0, <2>1, <2>2 DEF TypeOK
  <2>5. LoopOK' /\ CancelOK'  BY <1>3, <2>0, <2>1, <2>2 DEF LoopOK, CancelOK
  <2>6. ListOK'  BY <2>0, <2>1, <2>3 DEF ListOK
  <2>7. SourceOK'  BY <2>0, <2>1, <2>3 DEF SourceOK
  <2>8. DoneOK'  BY <1>3 DEF DoneOK
  <2>9. \A e : Keeps(e)  BY <2>1, <2>3, GrowsKeeps
  <2>10. SourceSafe'  BY <2>0, <2>1, <2>9, SafeStep
  <2> QED BY <2>4, <2>5, <2>6, <2>7, <2>8, <2>10 DEF IInv
<1> QED BY <1>2, <1>3 DEF WalkUninitialised

------------------------------------------------------------------------------
(* Links, and deletion *)

\* The links of a list replace what has their names, which only what clashes with them
\* can notice.
LEMMA FilesDoneInv == IInv /\ FilesDone => IInv'
<1> SUFFICES ASSUME IInv, FilesDone PROVE IInv'  OBVIOUS
<1> DEFINE Places(ls) == {e.dst : e \in {l \in ls : CanHold(local, l.dst)}}
<1>0. TypeOK /\ LoopOK /\ ListOK /\ SourceOK /\ CancelOK /\ DoneOK /\ SourceSafe  BY DEF IInv
<1>1. /\ pc = "files" /\ files = <<>> /\ links' = {}
      /\ pc' = (IF req.kind = "GET" /\ items # <<>> THEN "items" ELSE "done")
      /\ connected' \in {connected, FALSE} \cup {connected /\ ~(recurse1 /\ req.kind = "GET" /\ req.delete)}
      /\ UNCHANGED <<remote, cancelXfer, tar, items, files, n, recurse1, named, begun, result,
                     batchResult, passed, silent, archived, canceled, forgot>>
      /\ UNCHANGED <<req, calls, was, asked, deleted, stale>>
  BY DEF FilesDone, Quiet
<1>2. PICK told \in SUBSET links :
        local' = [p \in (DOMAIN local \ Places(links)) \cup Places(told) |->
                    IF p \in Places(told) THEN "l" ELSE local[p]]
  BY DEF FilesDone
<1>3. PICK gone : gone = Places(links)  OBVIOUS
<1>4. PICK made : made = Places(told)  OBVIOUS
<1>5. /\ DOMAIN local' = (DOMAIN local \ gone) \cup made
      /\ \A p \in DOMAIN local' : local'[p] = IF p \in made THEN "l" ELSE local[p]
  BY <1>2, <1>3, <1>4
<1>6. /\ req.kind \in {"GET", "PUT"} /\ IsTree(local) /\ IsTree(remote)
      /\ links \subseteq asked /\ asked \subseteq Entries /\ IsFiniteSet(links)
      /\ (req.kind = "PUT" => links = {}) /\ \A e \in links : e.type = "l"
      /\ items \in Seq(Paths) /\ connected \in BOOLEAN
  BY <1>0, <1>1 DEF TypeOK, LoopOK, ListOK
<1>7. \A p \in gone \cup made : \E l \in links : p = l.dst /\ l.type = "l" /\ l \in asked /\ p \in Paths
  <2>1. \A p \in gone \cup made : \E l \in links : p = l.dst  BY <1>3, <1>4
  <2>2. \A l \in links : l.type = "l" /\ l \in asked /\ l.dst \in Paths  BY <1>6 DEF Entries
  <2> QED BY <2>1, <2>2
<1>8. IsFiniteSet(made)
  <2> DEFINE f == [l \in links |-> l.dst]
  <2>1. \A y \in made : \E x \in links : y = f[x]  BY <1>7
  <2> HIDE DEF f
  <2> QED BY <1>6, <2>1, FiniteImage
<1> HIDE DEF Places
<1>9. IsTree(local')
  <2>1. IsFiniteSet(DOMAIN local \ gone)  BY <1>6, FS_Subset DEF IsTree
  <2>2. IsFiniteSet(DOMAIN local')  BY <1>5, <1>8, <2>1, FS_Union
  <2>3. \A p \in DOMAIN local' : local'[p] \in Values
    BY <1>5, <1>6 DEF IsTree, Values
  <2>4. local' = [p \in DOMAIN local' |-> local'[p]]
    BY <1>2
  <2>5. local' \in [DOMAIN local' -> Values]  BY <2>3, <2>4
  <2>6. DOMAIN local' \subseteq Paths  BY <1>5, <1>6, <1>7 DEF IsTree
  <2> QED BY <2>2, <2>5, <2>6 DEF IsTree, Values
<1>10. ASSUME req.kind = "PUT"
       PROVE  Shrinks /\ \A e \in asked : e.type = "-" => Keeps(e)
  <2>1. gone = {} /\ made = {}  BY <1>6, <1>7, <1>10
  <2>2. DOMAIN local' = DOMAIN local /\ \A p \in DOMAIN local : local'[p] = local[p]
    BY <1>5, <2>1
  <2>3. From = local /\ From' = local' /\ To' = To  BY <1>1, <1>10 DEF From, To
  <2> QED BY <1>1, <2>2, <2>3, GrowsKeeps DEF Shrinks
<1>11. ASSUME req.kind = "GET"
       PROVE  Shrinks /\ \A e \in asked : e.type = "-" => Keeps(e)
  <2>1. From' = From /\ To = local /\ To' = local'  BY <1>1, <1>11 DEF From, To
  <2>2. ASSUME NEW e \in asked, e.type = "-" PROVE Keeps(e)
    <3>1. Clash(e) => Clash(e)'  BY <1>1 DEF Clash
    <3>2. CASE e.dst \in gone \cup made
      <4>1. PICK l \in asked : l.dst = e.dst /\ l.type = "l"  BY <1>7, <3>2
      <4>2. Clash(e)'  BY <1>1, <2>2, <4>1 DEF Clash
      <4> QED BY <4>2 DEF Keeps
    <3>3. CASE e.dst \notin gone \cup made
      <4>1. e.dst \in DOMAIN To => e.dst \in DOMAIN To' /\ To'[e.dst] = To[e.dst]
        BY <1>5, <2>1, <3>3
      <4> QED BY <1>1, <3>1, <4>1 DEF Keeps, Holds, Looks
    <3> QED BY <3>2, <3>3
  <2> QED BY <2>1, <2>2, SameShrinks
<1>12. Shrinks /\ \A e \in asked : e.type = "-" => Keeps(e)  BY <1>6, <1>10, <1>11
<1>13. TypeOK'
  <2>1. connected' \in BOOLEAN  BY <1>1, <1>6
  <2> QED BY <1>0, <1>1, <1>9, <2>1, FS_EmptySet DEF TypeOK
<1>14. LoopOK'  BY <1>0, <1>1, <1>6 DEF LoopOK
<1>15. ListOK'
  <2>1. \A e \in deleted' : e.type = "-" /\ e.src \notin DOMAIN From'
    BY <1>0, <1>1, <1>12 DEF ListOK, Shrinks
  <2> QED BY <1>0, <1>1, <2>1 DEF ListOK
<1>16. SourceOK'  BY <1>0, <1>1, <1>12, SourceStep
<1>17. CancelOK'
  BY <1>0, <1>1, <1>6 DEF CancelOK, LoopOK, TypeOK
<1>18. DoneOK'
  <2>1. SUFFICES ASSUME batchResult = "ok", NEW e \in asked \ (passed \cup silent), e.type = "-"
                 PROVE  Holds(e)' \/ Clash(e)' \/ Moved(e)' \/ e.item \in Range(items)
    BY <1>1 DEF DoneOK
  <2>2. Holds(e) \/ Clash(e) \/ Moved(e) \/ e \in Range(files) \/ e.item \in Range(items)
    BY <2>1, <1>0, <1>1 DEF DoneOK
  <2>3. Keeps(e) /\ (Moved(e) => Moved(e)')  BY <1>1, <1>12, <2>1, StaysMoved
  <2>4. Range(files) = {}  BY <1>1, NoneIs
  <2> QED BY <2>2, <2>3, <2>4 DEF Keeps
<1>19. SourceSafe'
  <2>1. \A e \in deleted : e \in asked /\ e.type = "-"  BY <1>0 DEF TypeOK, ListOK
  <2>2. \A e \in deleted : Keeps(e)  BY <1>12, <2>1
  <2> QED BY <1>0, <1>1, <2>2, SafeStep
<1> QED BY <1>13, <1>14, <1>15, <1>16, <1>17, <1>18, <1>19 DEF IInv

LEMMA DeleteItemInv == IInv /\ DeleteItem => IInv'
<1> SUFFICES ASSUME IInv, DeleteItem PROVE IInv'  OBVIOUS
<1> DEFINE p == Head(items)
<1>0. TypeOK /\ LoopOK /\ ListOK /\ SourceOK /\ CancelOK /\ DoneOK /\ SourceSafe  BY DEF IInv
<1>1. /\ pc = "delete" /\ items # <<>>
      /\ UNCHANGED <<local, cancelXfer, tar, files, links, n, recurse1, named, begun, result, pc,
                     passed, archived, canceled, forgot>>
      /\ UNCHANGED <<req, calls, was, asked, deleted, stale>>
  BY DEF DeleteItem, Quiet
<1>2. /\ req.kind = "DELE" /\ items \in Seq(Paths) /\ ~canceled /\ IsTree(remote)
      /\ connected \in BOOLEAN /\ req.recurse \in BOOLEAN /\ deleted = {} /\ batchResult \in Results
      /\ silent \subseteq asked /\ asked \subseteq Entries
  <2>1. req \in Requests \cup {Idle}  BY <1>0 DEF TypeOK
  <2> QED BY <1>0, <1>1, <2>1, ReqFields DEF TypeOK, LoopOK, CancelOK
<1>3. /\ p \in Paths /\ Tail(items) \in Seq(Paths)
      /\ Range(items) = {p} \cup Range(Tail(items))
  BY <1>1, <1>2, HeadAndTail
<1>4. \/ /\ remote' = Without(remote, p) /\ items' = Tail(items)
         /\ UNCHANGED <<batchResult, connected, silent>>
      \/ /\ items' = Tail(items) /\ batchResult' = "failed"
         /\ connected' \in {TRUE, ~req.recurse} /\ UNCHANGED <<remote, silent>>
      \/ /\ items' = Tail(items) /\ silent' = silent \cup {e \in asked : e.src = p}
         /\ UNCHANGED <<remote, batchResult, connected>>
      \/ connected' = FALSE /\ items' = <<>> /\ batchResult' = "lost" /\ UNCHANGED <<remote, silent>>
  BY DEF DeleteItem
<1>5. /\ IsTree(remote') /\ items' \in Seq(Paths) /\ connected' \in BOOLEAN
      /\ batchResult' \in Results /\ silent \subseteq silent' /\ silent' \subseteq asked
  <2>1. IsTree(Without(remote, p)) /\ <<>> \in Seq(Paths)
    BY <1>2, WithoutTree, EmptySeq
  <2> HIDE DEF p
  <2> QED BY <1>2, <1>3, <1>4, <2>1 DEF Results
<1>6. batchResult' = "ok" =>
        /\ batchResult = "ok" /\ items' = Tail(items)
        /\ \/ DOMAIN remote' = DOMAIN remote \ {p}
           \/ remote' = remote /\ \A e \in asked : e.src = p => e \in silent'
  BY <1>2, <1>4, WithoutTree
<1> HIDE DEF p
<1>7. TypeOK'  BY <1>0, <1>1, <1>5 DEF TypeOK
<1>8. LoopOK'  BY <1>0, <1>1, <1>2 DEF LoopOK
<1>9. ListOK'  BY <1>0, <1>1, <1>2 DEF ListOK
<1>10. CancelOK'  BY <1>0, <1>1, <1>2 DEF CancelOK
<1>11. DoneOK'
  <2>1. SUFFICES ASSUME batchResult' = "ok", NEW e \in asked \ silent', e.src \in DOMAIN remote'
                 PROVE  e.src \in Range(items')
    BY <1>1 DEF DoneOK
  <2>2. e.src \in DOMAIN remote /\ e.src # p  BY <1>6, <2>1
  <2>3. e.src \in Range(items)  BY <1>0, <1>1, <1>5, <1>6, <2>1, <2>2 DEF DoneOK
  <2> QED BY <1>3, <1>6, <2>1, <2>2, <2>3
<1>12. SourceOK' /\ SourceSafe'  BY <1>1, <1>2 DEF SourceOK, SourceSafe
<1> QED BY <1>7, <1>8, <1>9, <1>10, <1>11, <1>12 DEF IInv

------------------------------------------------------------------------------
(* The theorems *)

LEMMA StutterInv == IInv /\ UNCHANGED vars => IInv'
BY DEF IInv, TypeOK, LoopOK, ListOK, SourceOK, CancelOK, DoneOK, SourceSafe, vars, IsTree,
       From, To, Holds, Looks, Moved, Clash, IsDir

LEMMA NextInv == IInv /\ [Next]_vars => IInv'
BY GetInv, PutInv, DeleteInv, TarBringsInv, TarFailsInv, GetNameInv, WalkItemInv,
   WalkUninitialisedInv, NotConnectedInv, ListedDirectoryInv, ListedLinkInv, CannotPrepareInv,
   CannotSetTypeInv, TransferredInv, SplicesInv, SameAlreadyInv, NewerAlreadyInv,
   SkippedSilentlyInv, RefusesInv, NotStartedInv, BrokenInv, FilesDoneInv, DeleteItemInv,
   ReturnInv, StutterInv DEF Next

\* The invariant of the batches: where each entry of a request is, and what its source and
\* the flag of a cancellation have become.
THEOREM Invariance == Spec => []IInv
BY InitInv, NextInv, PTL DEF Spec

\* A source that FTPGetFiles3 or FTPPutFiles4 has deleted is at its destination to the
\* request's end, itself or something that looked like it by size and time (io_get.c:213,
\* io_put.c:421), whatever files and links came later.  Set apart, as in the code's own
\* behaviour, are destinations that two entries share, and the sources deleted after a file
\* was skipped without a word or resumed from something else.
THEOREM SourcesSafe == Spec => []SourceSafe
<1>1. IInv => SourceSafe  BY DEF IInv
<1> QED BY <1>1, Invariance, PTL

\* FTPGetFiles3, FTPPutFiles4 and FTPDelete return kNoErr only when every file that their
\* names stood for has been delivered, passed over or deleted.  Set apart are canceled
\* requests and the entries in `silent': archives, what a walk has not seen, what was
\* skipped or spliced, and directories that a recursive FTPDelete leaves.
THEOREM AllDelivered == Spec => []Delivered
<1>1. IInv => Delivered
  <2> SUFFICES ASSUME IInv PROVE Delivered  OBVIOUS
  <2>1. ASSUME pc \in {"done", "canceled"}, batchResult = "ok", ~canceled, ~stale,
               NEW e \in asked \ (passed \cup silent), e.type = "-"
        PROVE  Holds(e) \/ Clash(e) \/ Moved(e)
    <3>1. pc = "done" /\ files = <<>> /\ items = <<>>
      BY <2>1 DEF IInv, CancelOK, LoopOK
    <3>2. Range(files) = {} /\ Range(items) = {}  BY <3>1, NoneIs
    <3> QED BY <2>1, <3>1, <3>2 DEF IInv, DoneOK
  <2>2. ASSUME pc = "delete", items = <<>>, batchResult = "ok", NEW e \in asked \ silent
        PROVE  e.src \notin DOMAIN remote
    <3>1. Range(items) = {}  BY <2>2, NoneIs
    <3> QED BY <2>2, <3>1 DEF IInv, DoneOK
  <2> QED BY <2>1, <2>2 DEF Delivered
<1> QED BY <1>1, Invariance, PTL

\* Of a request that the application has canceled, FTPGetFiles3 and FTPPutFiles4 touch no
\* file any more, unless the library has cleared the flag unseen: one that was set while an
\* archive or a listing was on its way is cleared by the next.
THEOREM NothingAfterCancel == Spec => CanceledStops
<1>1. IInv /\ [Next]_vars => [canceled /\ canceled' /\ ~forgot' => UNCHANGED <<remote, local>>]_vars
  <2> SUFFICES ASSUME IInv, Next, canceled, canceled', ~forgot' PROVE UNCHANGED <<remote, local>>
    OBVIOUS
  <2>1. pc # "delete" /\ (pc = "files" => forgot)  BY DEF IInv, CancelOK
  <2>2. CASE FTPGetFiles \/ FTPPutFiles \/ FTPDelete \/ Return
    BY <2>2 DEF FTPGetFiles, FTPPutFiles, FTPDelete, Return
  <2>3. CASE TarBrings \/ TarFails
    BY <2>3 DEF TarBrings, TarFails, CanceledInArchive
  <2>4. CASE GetName \/ WalkItem \/ WalkUninitialised
    BY <2>4 DEF GetName, WalkItem, WalkUninitialised, ItemListed
  <2>5. CASE NotConnected \/ ListedDirectory \/ ListedLink \/ CannotPrepare \/ CannotSetType
             \/ FilesDone
    BY <2>1, <2>5 DEF NotConnected, ListedDirectory, ListedLink, CannotPrepare, CannotSetType,
          NextFile, FilesDone
  <2>6. CASE Transferred \/ Splices \/ SameAlready \/ NewerAlready \/ SkippedSilently \/ Refuses
             \/ NotStarted \/ Broken
    BY <2>1, <2>6 DEF Transferred, Splices, SameAlready, NewerAlready, SkippedSilently, Refuses,
          NotStarted, Broken, File, NextFile, FileDone
  <2>7. CASE DeleteItem  BY <2>1, <2>7 DEF DeleteItem
  <2> QED BY <2>2, <2>3, <2>4, <2>5, <2>6, <2>7 DEF Next
<1> QED BY <1>1, Invariance, PTL DEF Spec, CanceledStops
==============================================================================
