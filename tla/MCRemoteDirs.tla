---------------------------- MODULE MCRemoteDirs ----------------------------
(* A small instance of RemoteDirs: the session starts below the root, in /h,  *)
(* with /h/a and /h/a/a there or not, and is given relative and absolute      *)
(* paths to them.                                                             *)
EXTENDS RemoteDirs

BelowRoot == <<"h">>
BelowDirs == {<<>>, <<"h">>, <<"h", "a">>, <<"h", "a", "a">>}
BelowPaths == {<<"a">>, <<"a", "a">>, <<"", "h", "a", "a">>, <<"..">>, <<"">>, <<"a", "">>}
=============================================================================
