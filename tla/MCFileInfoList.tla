--------------------------- MODULE MCFileInfoList ---------------------------
(* A small instance of FileInfoList: three files that each key sorts          *)
(* differently.                                                             *)
EXTENDS FileInfoList

File(name, depth, mdtm) == [name |-> name, depth |-> depth, mdtm |-> mdtm]
SmallFiles == {File(1, 2, 1), File(2, 1, 1), File(3, 1, 2)}
=============================================================================
