---------------------------- MODULE FileInfoList ----------------------------
(***************************************************************************)
(* The doubly linked lists of src/libncftp/linelist.c: FTPLineList and     *)
(* FTPFileInfoList have the same nodes, pointers and counter; the second   *)
(* can be laid out as a vector, sorted, and linked again.                  *)
(***************************************************************************)
EXTENDS Naturals, Sequences, FiniteSets, SequencesExt

CONSTANTS
  Nodes,      \* the addresses malloc() can return
  NULL,       \* the null pointer
  Files       \* what a node is about: records of name, depth and mdtm

ASSUME NodesAssumption == IsFiniteSet(Nodes) /\ NULL \notin Nodes
ASSUME FilesAssumption == Files \subseteq [name : Nat, depth : Nat, mdtm : Nat]

VARIABLES
  list,      \* the FTPFileInfoList: first, last, nFileInfos, sortKey, sortOrder
  next,      \* the next field of every node
  prev,      \* the prev field of every node
  info,      \* the file of every node
  used,      \* the nodes that are allocated
  vec,       \* list->vec, when vectorized
  mode,      \* "list", or "vec" when list->vec is in use
  order      \* history: the nodes in the order the operations put them

vars == <<list, next, prev, info, used, vec, mode, order>>

Pointers == Nodes \cup {NULL}

\* The keys and orders of the callers: by name or time, ascending or descending
\* ('s' is like 't'), or breadth first, which is asked for with order '?'.
Orderings == ({"n", "t"} \X {"a", "d"}) \cup {<<"b", "?">>}

Empty == [first |-> NULL, last |-> NULL, n |-> 0, sortKey |-> "", sortOrder |-> ""]

\* InitFileInfoList.
Init ==
  /\ list = Empty
  /\ next \in [Nodes -> {NULL}] /\ prev = next
  /\ \E f \in Files : info = [x \in Nodes |-> f]
  /\ used = {}
  /\ vec = <<>> /\ mode = "list"
  /\ order = <<>>

\* Mutant of AddFileInfo: the last node is not linked to the new one.
AddUnlinked(x, f) ==
  /\ mode = "list" /\ x \notin used
  /\ used' = used \cup {x}
  /\ info' = [info EXCEPT ![x] = f]
  /\ next' = [next EXCEPT ![x] = NULL]
  /\ prev' = [prev EXCEPT ![x] = list.last]
  /\ list' = [list EXCEPT !.first = IF @ = NULL THEN x ELSE @, !.last = x, !.n = @ + 1]
  /\ order' = Append(order, x)
  /\ UNCHANGED <<vec, mode>>

\* AddFileInfo, AddLine: a node, perhaps one that was freed, goes to the end.
AddFileInfo(x, f) ==
  /\ mode = "list" /\ x \notin used
  /\ used' = used \cup {x}
  /\ info' = [info EXCEPT ![x] = f]
  /\ IF list.first = NULL
       THEN /\ list' = [list EXCEPT !.first = x, !.last = x, !.n = 1]
            /\ next' = [next EXCEPT ![x] = NULL]
            /\ prev' = [prev EXCEPT ![x] = NULL]
       ELSE /\ list' = [list EXCEPT !.last = x, !.n = @ + 1]
            /\ next' = [next EXCEPT ![x] = NULL, ![list.last] = x]
            /\ prev' = [prev EXCEPT ![x] = list.last]
  /\ order' = Append(order, x)
  /\ UNCHANGED <<vec, mode>>

\* Mutant of Unlinked: the wrong neighbour becomes the first node.
UnlinkedSwapped(x) ==
  [list EXCEPT !.first = IF @ = x THEN prev[x] ELSE @,
               !.last = IF @ = x THEN prev[x] ELSE @,
               !.n = @ - 1]

Unlinked(x) ==
  [list EXCEPT !.first = IF @ = x THEN next[x] ELSE @,
               !.last = IF @ = x THEN prev[x] ELSE @,
               !.n = @ - 1]

\* RemoveFileInfo, RemoveLine.
RemoveFileInfo(x) ==
  /\ mode = "list" /\ x \in used
  /\ list' = Unlinked(x)
  /\ prev' = IF next[x] = NULL THEN prev ELSE [prev EXCEPT ![next[x]] = prev[x]]
  /\ next' = IF prev[x] = NULL THEN next ELSE [next EXCEPT ![prev[x]] = next[x]]
  /\ used' = used \ {x}
  /\ order' = RemoveAt(order, CHOOSE i \in 1..Len(order) : order[i] = x)
  /\ UNCHANGED <<info, vec, mode>>

\* The nodes met by following next from the first until it is null.
Chain(s) ==
  /\ IF s = <<>> THEN list.first = NULL
     ELSE list.first = s[1] /\ next[s[Len(s)]] = NULL
  /\ \A i \in 1..(Len(s) - 1) : next[s[i]] = s[i + 1]
Walk == CHOOSE s \in SeqOf(Nodes, Cardinality(Nodes)) : Chain(s)

VectorizeFileInfoList ==
  /\ mode = "list"
  /\ vec' = Walk
  /\ mode' = "vec"
  /\ UNCHANGED <<list, next, prev, info, used, order>>

\* The comparison functions that SortFileInfoList gives to qsort(): a file of
\* a later time comes first in ascending order, and 'b' knows no order.
Precedes(key, ord, a, b) ==
  CASE key = "n" -> IF ord = "a" THEN a.name < b.name ELSE a.name > b.name
    [] key = "t" -> IF ord = "a" THEN a.mdtm > b.mdtm ELSE a.mdtm < b.mdtm
    [] key = "b" -> a.depth < b.depth \/ (a.depth = b.depth /\ a.name < b.name)

Sorted(key, ord, s) ==
  \A i, j \in 1..Len(s) : i < j => ~Precedes(key, ord, info[s[j]], info[s[i]])

Sorts(key, ord) == {s \in SetToSeqs({vec[i] : i \in 1..Len(vec)}) : Sorted(key, ord, s)}

\* SortFileInfoList: a vector that was sorted by the same key is left as it is,
\* or reversed.
SortFileInfoList(key, ord) ==
  /\ mode = "vec"
  /\ \/ list.sortKey = key /\ list.sortOrder = ord /\ UNCHANGED vec
     \/ list.sortKey = key /\ list.sortOrder # ord /\ vec' = Reverse(vec)
     \/ list.sortKey # key /\ vec' \in Sorts(key, ord)
  /\ list' = [list EXCEPT !.sortKey = key, !.sortOrder = ord]
  /\ order' = vec'
  /\ UNCHANGED <<next, prev, info, used, mode>>

\* UnvectorizeFileInfoList: the nodes are linked again in the vector's order,
\* whose last entry is followed by a null pointer.
UnvectorizeFileInfoList ==
  /\ mode = "vec"
  /\ LET n == list.n
         at(x) == CHOOSE i \in 1..n : vec[i] = x
         In == {vec[i] : i \in 1..n}
     IN /\ list' = [list EXCEPT !.first = IF n > 0 THEN vec[1] ELSE NULL,
                                !.last = IF n > 0 THEN vec[n] ELSE @]
        /\ next' = [x \in Nodes |-> IF x \in In THEN (IF at(x) < n THEN vec[at(x) + 1] ELSE NULL)
                                                ELSE next[x]]
        /\ prev' = [x \in Nodes |-> IF x \in In THEN (IF at(x) > 1 THEN vec[at(x) - 1] ELSE NULL)
                                                ELSE prev[x]]
  /\ vec' = <<>> /\ mode' = "list"
  /\ UNCHANGED <<info, used, order>>

\* DisposeFileInfoListContents frees what a walk from the first node meets.
DisposeFileInfoListContents ==
  /\ used' = used \ {Walk[i] : i \in 1..Len(Walk)}
  /\ list' = Empty
  /\ vec' = <<>> /\ mode' = "list"
  /\ order' = <<>>
  /\ UNCHANGED <<next, prev, info>>

Next ==
  \/ \E x \in Nodes, f \in Files : AddFileInfo(x, f)
  \/ \E x \in Nodes : RemoveFileInfo(x)
  \/ VectorizeFileInfoList
  \/ \E o \in Orderings : SortFileInfoList(o[1], o[2])
  \/ UnvectorizeFileInfoList
  \/ DisposeFileInfoListContents

Spec == Init /\ [][Next]_vars

-----------------------------------------------------------------------------
(* Properties.                                                              *)

\* The state is well formed.
TypeOK ==
  /\ list \in [first : Pointers, last : Pointers, n : Nat,
               sortKey : {"", "n", "t", "b"}, sortOrder : {"", "a", "d", "?"}]
  /\ next \in [Nodes -> Pointers] /\ prev \in [Nodes -> Pointers]
  /\ info \in [Nodes -> Files]
  /\ used \subseteq Nodes
  /\ vec \in Seq(Nodes) /\ mode \in {"list", "vec"}
  /\ order \in Seq(Nodes)

\* While the list is linked, both chains of pointers and the two ends agree
\* with each other and with the order the operations have put the nodes in,
\* whichever freed addresses came back; the counter counts them, and nothing
\* that is allocated has fallen off the list.
Linked ==
  mode = "list" =>
    /\ list.n = Len(order)
    /\ IF order = <<>> THEN list.first = NULL /\ list.last = NULL
       ELSE /\ list.first = order[1] /\ list.last = order[Len(order)]
            /\ prev[order[1]] = NULL /\ next[order[Len(order)]] = NULL
    /\ \A i \in 1..(Len(order) - 1) :
         next[order[i]] = order[i + 1] /\ prev[order[i + 1]] = order[i]

\* Nothing leaks: what is allocated is what is on the list, each node once.
NothingLost ==
  /\ used = {order[i] : i \in 1..Len(order)}
  /\ \A i, j \in 1..Len(order) : order[i] = order[j] => i = j

\* The links are those of one list, which holds all that is allocated.
Inv == TypeOK /\ Linked /\ NothingLost

\* The list as its user sees it, by walking it or its vector.
Contents == LET nodes == IF mode = "vec" THEN vec ELSE Walk
            IN [i \in 1..Len(nodes) |-> info[nodes[i]]]

S == INSTANCE FileSeq WITH files <- Contents, count <- list.n
\* The linked structure implements the sequence of files: walking it gives the
\* files in order, and nFileInfos of them, after any mixture of additions, removals
\* and sorts.
IsSequence == S!Spec
=============================================================================
