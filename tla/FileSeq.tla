------------------------------ MODULE FileSeq ------------------------------
(***************************************************************************)
(* What a FTPFileInfoList promises: a sequence of files and their number,  *)
(* grown at its end, from which any one element can be taken, and whose    *)
(* elements a sort only puts in another order.                             *)
(***************************************************************************)
EXTENDS Naturals, Sequences, SequencesExt

CONSTANT Files

VARIABLES
  files,     \* what its user meets from the first to the last
  count      \* nFileInfos

Init == files = <<>> /\ count = 0

Add == \E f \in Files : files' = Append(files, f) /\ count' = count + 1

RemoveOne == \E i \in 1..Len(files) : files' = RemoveAt(files, i) /\ count' = count - 1

\* Each element of s is at one place of t.
Permuted(s, t) ==
  \E p \in [1..Len(s) -> 1..Len(s)] :
    /\ \A i, j \in 1..Len(s) : p[i] = p[j] => i = j
    /\ t = [i \in 1..Len(s) |-> s[p[i]]]

Sort == Permuted(files, files') /\ UNCHANGED count

Dispose == files' = <<>> /\ count' = 0

Next == Add \/ RemoveOne \/ Sort \/ Dispose

Spec == Init /\ [][Next]_<<files, count>>
=============================================================================
