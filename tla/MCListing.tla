----------------------------- MODULE MCListing ------------------------------
(* A directory with files whose names share a beginning, a hidden file, a  *)
(* socket, a link, an empty directory and a directory within a directory.  *)
EXTENDS Listing

A == <<"a">>
AB == <<"a", "b">>
B == <<"b">>
H == <<".", "h">>

SmallTree ==
  (<<A>> :> "-") @@ (<<AB>> :> "d") @@ (<<B>> :> "d") @@ (<<H>> :> "-") @@ (<<<<"s">>>> :> "s")
    @@ (<<AB, A>> :> "-") @@ (<<AB, AB>> :> "d") @@ (<<AB, B>> :> "l") @@ (<<AB, AB, A>> :> "-")

SomeCwd == <<"/", "c">>
SomePatterns ==
  {<<"*">>, <<"a", "*">>, <<"a", "b", "/", "*">>, <<"a", "b", "/", "a", "*">>, <<"s", "b", "*">>, A}

SomeDirLists == {<<Dot>>, <<AB, A>>, <<B, AB>>, <<AB, AB \o <<Sep>> \o AB>>}

Base ==
  [headers |-> "plain", names |-> "paths", dots |-> TRUE, foreign |-> FALSE, takesFlags |-> TRUE,
   lines |-> "unix", microsoft |-> FALSE, now |-> 25, age |-> 0]

(* How names are printed matters to globs alone, the rest to the others.   *)
GlobServers ==
  {[Base EXCEPT !.names = n, !.foreign = f, !.takesFlags = t] :
     n \in {"paths", "bare", "contents"}, f \in BOOLEAN, t \in BOOLEAN}
ListServers ==
  {[Base EXCEPT !.headers = h, !.dots = d, !.foreign = f, !.microsoft = m, !.now = c[1], !.age = c[2]] :
     h \in {"plain", "dot", "absolute"}, d \in BOOLEAN, f \in BOOLEAN, m \in BOOLEAN,
     c \in {<<25, 0>>, <<25, 3>>, <<25, 9>>, <<30, -1>>, <<23, -1>>}}
DosServers == {[Base EXCEPT !.lines = "dos", !.dots = d, !.microsoft = m] : d \in BOOLEAN, m \in BOOLEAN}
SomeServers == GlobServers \cup ListServers \cup DosServers
=============================================================================
