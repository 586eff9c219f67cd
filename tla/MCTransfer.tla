----------------------------- MODULE MCTransfer -----------------------------
(* Transfer with a source of no, one or two lines, and the servers that differ in what *)
(* the decisions are made from.                                                *)
EXTENDS Transfer

Grows == <<0, 1, 2>>

Able == [mlst |-> FALSE, size |-> TRUE, sizeA |-> TRUE, mdtm |-> TRUE,
         rest |-> TRUE, restA |-> TRUE, over |-> TRUE]

SomeServers ==
  {Able, [Able EXCEPT !.mlst = TRUE, !.over = FALSE],
   [Able EXCEPT !.sizeA = FALSE, !.restA = FALSE, !.over = FALSE],
   [Able EXCEPT !.size = FALSE, !.mdtm = FALSE, !.rest = FALSE]}
==============================================================================
