----------------------------- MODULE MCTreeWalk -----------------------------
(* TreeWalk with trees of up to six entries, three deep.                        *)
EXTENDS TreeWalk

a == <<"a">>
b == <<"b">>
cc == <<"c", "c">>

Deep == << <<a>>, <<cc>>, <<a, a>>, <<a, b>>, <<a, b, cc>>, <<b>> >>
DeepTypes == <<"d", "-", "l", "d", "-", "d">>
Wide == << <<a>>, <<a, cc>>, <<a, cc, a>>, <<a, a>>, <<b>> >>
WideTypes == <<"d", "d", "-", "d", "p">>
Loop == << <<a>>, <<b>> >>
LoopTypes == <<"loop", "-">>

TreeOf(paths, types) ==
  [p \in Range(paths) |-> types[SelectInSeq(paths, LAMBDA q : q = p)]]

SomeTrees == {TreeOf(Deep, DeepTypes), TreeOf(Wide, WideTypes), TreeOf(Loop, LoopTypes)}

SomeStarts == {<<"/">>, <<".">>, <<"a">>, <<"a", "/", "b">>, <<"b">>}

Own == [size |-> 0, autoGrow |-> "grow"]
GivenBuffers == {Own, [size |-> 6, autoGrow |-> "fail"], [size |-> 6, autoGrow |-> "continue"]}
==============================================================================
