----------------------------- MODULE MCBatches -----------------------------
(* Batches with a handful of files on either side, names that clash, links, an empty   *)
(* directory, a file where a directory should be made, and one that looks like another. *)
EXTENDS Batches

TreeOf(pairs) == [p \in {pairs[i][1] : i \in DOMAIN pairs} |->
                    pairs[CHOOSE i \in DOMAIN pairs : pairs[i][1] = p][2]]

Server == TreeOf(<< <<<<"a">>, "d">>, <<<<"a", "x">>, "r1">>, <<<<"a", "l">>, "l">>,
                    <<<<"a", "s">>, "d">>, <<<<"b">>, "d">>, <<<<"b", "x">>, "r2">>,
                    <<<<"c">>, "d">>, <<<<"c", "a">>, "d">>, <<<<"c", "a", "x">>, "l">> >>)
Here == TreeOf(<< <<<<"dst">>, "d">>, <<<<"dst", "a">>, "d">>, <<<<"dst", "a", "x">>, "s1">>,
                  <<<<"s">>, "d">>, <<<<"s", "x">>, "s1">>, <<<<"s", "l">>, "l">>,
                  <<<<"s", "t">>, "d">>, <<<<"s", "t", "y">>, "s2">>, <<<<"b">>, "r2">> >>)
Bare == [p \in {q \in DOMAIN Here : q[1] # "dst"} |-> Here[p]]
SomeNames == {"a", "b", "c", "dst", "l", "s", "t", "x", "y", "z"}
SomeRemote == {Server}
SomeLocal  == {Here, Bare}
SomeContents == {"r1", "r2", "s1", "s2"}
SomeAlike == {<<c, c>> : c \in SomeContents} \cup {<<"s1", "r1">>, <<"r1", "s1">>}

Get(what, dst, recurse) ==
  {[kind |-> "GET", items |-> what, dst |-> dst, recurse |-> recurse, resume |-> r,
    delete |-> d, ascii |-> FALSE] : r, d \in BOOLEAN}
Put(what, dst, recurse) ==
  {[q EXCEPT !.kind = "PUT"] : q \in Get(what, dst, recurse)}
Dele(what, recurse) == [Idle EXCEPT !.kind = "DELE", !.items = what, !.recurse = recurse]

OneMore == {r \in Put(<<<<"s", "x">>>>, <<"b">>, FALSE) : r.resume /\ r.delete}
SomeRequests ==
  UNION {Get(<<<<"a">>, <<"b">>>>, <<"dst">>, TRUE), Get(<<<<"a">>, <<"c", "a">>>>, <<"dst">>, TRUE),
         Get(<<<<"b">>>>, <<>>, TRUE),
         {[g EXCEPT !.ascii = TRUE] : g \in {h \in Get(<<<<"b">>>>, <<"dst">>, TRUE) : h.resume}},
         Get(<<<<"a", "x">>, <<"b", "x">>>>, <<"dst">>, FALSE),
         Put(<<<<"s">>>>, <<"b">>, TRUE), Put(<<<<"z">>>>, <<>>, TRUE),
         Put(<<<<"s", "x">>, <<"s", "t", "y">>>>, <<"b">>, FALSE),
         {Dele(<<<<"a", "x">>, <<"b", "x">>>>, FALSE), Dele(<<<<"a", "s">>, <<"b">>>>, TRUE)},
         OneMore}
=============================================================================
