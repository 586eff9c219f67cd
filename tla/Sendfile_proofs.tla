--------------------------- MODULE Sendfile_proofs ---------------------------
(* Proofs about Sendfile: for a file, buffers, and signals and changes in any *)
(* number, the socket is given the file's blocks in order, and the call       *)
(* returns what it did.  A resumed upload is no exception: it begins with     *)
(* the first block all the same.                                              *)
EXTENDS Sendfile, TLAPS

InKernel == {"kernelLoop", "sendfile", "kernelSelect"}
InUser   == {"userLoop", "read", "writeLoop", "write", "writeSelect"}

TypeOK ==
  /\ pc \in InKernel \cup InUser \cup {"done"}
  /\ off \in Nat /\ pos \in Nat
  /\ ntoread \in Int /\ ntowrite \in Nat /\ twrote \in Nat
  /\ buf \in Seq(Int) /\ sent \in Seq(Int) /\ current \in Nat
  /\ result \in {-1, 0, 1} /\ osize \in Nat
  /\ size \in Nat /\ room \in Nat

\* What has been counted is what has been sent.
Counted == SentInOrder /\ Len(sent) = twrote /\ current <= twrote

\* sendfile's loop has the kernel's offset for its place in the file ...
KernelPlace ==
  pc \in InKernel =>
    off = twrote /\ pos = 0 /\ ntowrite = 0 /\ ntoread = FileSize - off

\* ... and the other the descriptor's position, less what is still in the buffer.
UserPlace ==
  pc \in InUser =>
    /\ pos = twrote + ntowrite /\ ntoread = FileSize - pos
    /\ ntowrite <= Len(buf)
    /\ \A i \in 1 .. ntowrite : buf[Len(buf) - ntowrite + i] = twrote + i - 1
    /\ pc \in {"userLoop", "read"} => ntowrite = 0

Outcome ==
  /\ pc # "done" => result = 1 /\ osize = 0
  /\ result = 0 => twrote >= FileSize /\ osize = twrote
  /\ result = -1 => osize \in {0, twrote}

IInv == TypeOK /\ Counted /\ KernelPlace /\ UserPlace /\ Outcome

-----------------------------------------------------------------------------
\* Blocks that follow on what has been sent leave it in order.
LEMMA SentOn ==
  ASSUME NEW s \in Seq(Int), NEW t \in Seq(Int),
         \A i \in 1 .. Len(s) : s[i] = i - 1,
         \A i \in 1 .. Len(t) : t[i] = Len(s) + i - 1
  PROVE  /\ s \o t \in Seq(Int) /\ Len(s \o t) = Len(s) + Len(t)
         /\ \A i \in 1 .. Len(s \o t) : (s \o t)[i] = i - 1
<1>1. s \o t \in Seq(Int) /\ Len(s \o t) = Len(s) + Len(t)
  OBVIOUS
<1>2. ASSUME NEW i \in 1 .. Len(s \o t)
      PROVE  (s \o t)[i] = i - 1
  <2>1. CASE i <= Len(s)
    BY <1>1, <2>1
  <2>2. CASE i > Len(s)
    <3>1. (s \o t)[i] = t[i - Len(s)] /\ i - Len(s) \in 1 .. Len(t)
      BY <1>1, <2>2
    <3> QED
      BY <3>1
  <2> QED
    BY <1>1, <2>1, <2>2
<1> QED
  BY <1>1, <1>2

\* A run of blocks.
LEMMA BlocksAre ==
  ASSUME NEW from \in Nat, NEW n \in Nat
  PROVE  /\ Blocks(from, n) \in Seq(Int) /\ Len(Blocks(from, n)) = n
         /\ \A i \in 1 .. n : Blocks(from, n)[i] = from + i - 1
BY DEF Blocks

LEMMA LesserIs ==
  ASSUME NEW i \in Int, NEW j \in Int
  PROVE  LesserOf(i, j) \in Int /\ LesserOf(i, j) <= i /\ LesserOf(i, j) <= j
BY DEF LesserOf

\* A number of blocks that is no more than either.
LEMMA AtMost ==
  ASSUME NEW i \in Int, NEW j \in Int, NEW n \in 1 .. LesserOf(i, j)
  PROVE  n \in Nat /\ n >= 1 /\ n <= i /\ n <= j
BY DEF LesserOf

\* At first nothing has been sent.
LEMMA InitInv == Init => IInv
BY SizesAssumption DEF Init, IInv, TypeOK, Counted, SentInOrder, KernelPlace, UserPlace,
     Outcome, InKernel, InUser

\* The end of the loop around sendfile: what has been counted is the offset.
LEMMA FallBackInv ==
  ASSUME IInv, pc \in InKernel, NEW e, NEW n, n \in {twrote, off}, FallBack(e, n),
         UNCHANGED <<off, pos, ntoread, ntowrite, buf, sent>>,
         twrote' \in {twrote, off}, current' \in {current, off},
         size' \in Nat, room' \in Nat
  PROVE  IInv'
<1>1. twrote' = twrote /\ n = twrote /\ off = twrote
  BY DEF IInv, KernelPlace
<1>2. TypeOK'
  BY <1>1 DEF IInv, TypeOK, FallBack, Finish, outcome, InKernel, InUser
<1>3. Counted'
  BY <1>1 DEF IInv, TypeOK, Counted, SentInOrder
<1>4. KernelPlace' /\ UserPlace' /\ Outcome'
  BY <1>1, SizesAssumption
     DEF IInv, TypeOK, KernelPlace, UserPlace, Outcome, FallBack, Finish, outcome,
         InKernel, InUser
<1> QED
  BY <1>2, <1>3, <1>4 DEF IInv

\* The end of the other: with nothing left to read or write, all has been sent.
LEMMA UserBreakInv ==
  ASSUME IInv, pc \in InUser, UserBreak,
         UNCHANGED <<off, pos, ntoread, ntowrite, twrote, buf, current, sent>>,
         size' \in Nat, room' \in Nat
  PROVE  IInv'
<1>1. TypeOK'
  BY DEF IInv, TypeOK, UserBreak, Finish, InKernel, InUser
<1>2. Counted'
  BY DEF IInv, TypeOK, Counted, SentInOrder
<1>3. KernelPlace' /\ UserPlace' /\ Outcome'
  BY SizesAssumption
     DEF IInv, TypeOK, KernelPlace, UserPlace, Outcome, UserBreak, Finish, InKernel, InUser
<1> QED
  BY <1>1, <1>2, <1>3 DEF IInv

\* Steps that neither read nor write, in the loop they are in.
LEMMA IdleInv ==
  ASSUME IInv, UNCHANGED <<progress, outcome>>,
         \/ pc' = pc
         \/ pc \in InKernel /\ pc' \in InKernel
         \/ pc \in {"writeLoop", "write", "writeSelect"} /\ pc' \in {"writeLoop", "write", "writeSelect"}
         \/ pc = "userLoop" /\ pc' = "read"
         \/ pc = "writeLoop" /\ ntowrite = 0 /\ pc' = "userLoop",
         size' \in Nat, room' \in Nat
  PROVE  IInv'
<1>1. TypeOK'
  BY DEF IInv, TypeOK, progress, outcome, InKernel, InUser
<1>2. Counted'
  BY DEF IInv, TypeOK, Counted, SentInOrder, progress
<1>3. KernelPlace' /\ UserPlace' /\ Outcome'
  BY DEF IInv, TypeOK, KernelPlace, UserPlace, Outcome, progress, outcome, InKernel, InUser
<1> QED
  BY <1>1, <1>2, <1>3 DEF IInv

-----------------------------------------------------------------------------
\* The steps that move data.

LEMMA SendsInv == IInv /\ SendfileSends => IInv'
<1> SUFFICES ASSUME IInv, SendfileSends PROVE IInv'
  OBVIOUS
<1>1. PICK n \in 1 .. LesserOf(room, LesserOf(ntoread, size - off)) :
        /\ sent' = sent \o Blocks(off, n)
        /\ off' = off + n /\ room' = room - n
        /\ ntoread' = ntoread - n /\ twrote' = twrote + n
  BY DEF SendfileSends
<1>2. n \in Nat /\ n <= room /\ n <= ntoread
  <2>1. room \in Int /\ ntoread \in Int /\ size - off \in Int
    BY DEF IInv, TypeOK
  <2>2. LesserOf(ntoread, size - off) \in Int /\ LesserOf(ntoread, size - off) <= ntoread
    BY <2>1, LesserIs
  <2>3. n \in Nat /\ n <= room /\ n <= LesserOf(ntoread, size - off)
    BY <2>1, <2>2, AtMost
  <2> QED
    BY <2>1, <2>2, <2>3
<1>3. pc = "sendfile" /\ pc' = "kernelLoop"
      /\ UNCHANGED <<pos, ntowrite, buf, current, result, osize, size>>
  BY DEF SendfileSends, outcome
<1>4. off = twrote /\ Len(sent) = twrote /\ off \in Nat
  BY <1>3 DEF IInv, TypeOK, KernelPlace, Counted, InKernel
<1>5. /\ sent' \in Seq(Int) /\ Len(sent') = Len(sent) + n
      /\ \A i \in 1 .. Len(sent') : sent'[i] = i - 1
  <2> DEFINE t == Blocks(off, n)
  <2>1. t \in Seq(Int) /\ Len(t) = n /\ \A i \in 1 .. n : t[i] = off + i - 1
    BY <1>2, <1>4, BlocksAre
  <2> HIDE DEF t
  <2>2. sent \in Seq(Int) /\ \A i \in 1 .. Len(sent) : sent[i] = i - 1
    BY DEF IInv, TypeOK, Counted, SentInOrder
  <2>3. /\ sent \o t \in Seq(Int) /\ Len(sent \o t) = Len(sent) + Len(t)
        /\ \A i \in 1 .. Len(sent \o t) : (sent \o t)[i] = i - 1
    BY <1>4, <2>1, <2>2, SentOn
  <2>4. sent' = sent \o t
    BY <1>1 DEF t
  <2> QED
    BY <2>1, <2>3, <2>4
<1>6. TypeOK'
  BY <1>1, <1>2, <1>3, <1>5 DEF IInv, TypeOK, InKernel, InUser
<1>7. Counted'
  BY <1>1, <1>2, <1>3, <1>4, <1>5 DEF IInv, TypeOK, Counted, SentInOrder
<1>8. KernelPlace' /\ UserPlace' /\ Outcome'
  BY <1>1, <1>2, <1>3, SizesAssumption
     DEF IInv, TypeOK, KernelPlace, UserPlace, Outcome, InKernel, InUser
<1> QED
  BY <1>6, <1>7, <1>8 DEF IInv

LEMMA ReadInv == IInv /\ UserRead => IInv'
<1> SUFFICES ASSUME IInv, UserRead PROVE IInv'
  OBVIOUS
<1> DEFINE n == LesserOf(BufSize, size - pos)
<1>1. CASE n > 0 /\ buf' = Blocks(pos, n) /\ pos' = pos + n
           /\ ntoread' = ntoread - n /\ ntowrite' = n /\ pc' = "writeLoop"
           /\ UNCHANGED <<flag, outcome>>
  <2>1. pc = "read" /\ UNCHANGED <<off, twrote, current, sent, size, room>>
    BY DEF UserRead, world
  <2>2. n \in Nat
    <3>1. BufSize \in Int /\ size - pos \in Int
      BY SizesAssumption DEF IInv, TypeOK
    <3>2. n \in Int
      BY <3>1, LesserIs
    <3> QED
      BY <1>1, <3>2
  <2>3. buf' \in Seq(Int) /\ Len(buf') = n /\ \A i \in 1 .. n : buf'[i] = pos + i - 1
    BY <1>1, <2>2, BlocksAre DEF IInv, TypeOK
  <2> HIDE DEF n
  <2>4. TypeOK'
    BY <1>1, <2>1, <2>2, <2>3 DEF IInv, TypeOK, outcome, InKernel, InUser
  <2>5. Counted'
    BY <2>1 DEF IInv, Counted, SentInOrder
  <2>6. KernelPlace' /\ Outcome'
    BY <1>1, <2>1 DEF IInv, KernelPlace, Outcome, outcome, InKernel
  <2>7. UserPlace'
    BY <1>1, <2>1, <2>2, <2>3, SizesAssumption DEF IInv, TypeOK, UserPlace, InUser
  <2> QED
    BY <2>4, <2>5, <2>6, <2>7 DEF IInv
<1>2. CASE n <= 0 /\ UserBreak /\ UNCHANGED <<buf, pos, ntoread, ntowrite>>
  BY <1>2, UserBreakInv DEF UserRead, InUser, world, IInv, TypeOK
<1> QED
  BY <1>1, <1>2 DEF UserRead

LEMMA WriteInv == IInv /\ UserWrite => IInv'
<1> SUFFICES ASSUME IInv, UserWrite PROVE IInv'
  OBVIOUS
<1> DEFINE first == Len(buf) - ntowrite
<1>1. PICK n \in 1 .. LesserOf(room, ntowrite) :
        /\ sent' = sent \o SubSeq(buf, first + 1, first + n)
        /\ ntowrite' = ntowrite - n /\ room' = room - n
        /\ twrote' = twrote + n /\ current' = twrote + n
  BY DEF UserWrite
<1>2. n \in Nat /\ n >= 1 /\ n <= room /\ n <= ntowrite
  <2>1. room \in Int /\ ntowrite \in Int
    BY DEF IInv, TypeOK
  <2> QED
    BY <2>1, AtMost
<1>3. pc = "write" /\ pc' = "writeLoop" /\ UNCHANGED <<off, pos, ntoread, buf, result, osize, size>>
  BY DEF UserWrite, outcome
<1>4. /\ pos = twrote + ntowrite /\ ntoread = FileSize - pos /\ ntowrite <= Len(buf)
      /\ \A i \in 1 .. ntowrite : buf[first + i] = twrote + i - 1
  BY <1>3 DEF IInv, UserPlace, InUser
<1>5. first \in Nat /\ first + n <= Len(buf) /\ buf \in Seq(Int) /\ ntowrite \in Nat
      /\ twrote \in Nat
  BY <1>2, <1>4 DEF IInv, TypeOK
<1> HIDE DEF first
<1>6. /\ sent' \in Seq(Int) /\ Len(sent') = Len(sent) + n
      /\ \A i \in 1 .. Len(sent') : sent'[i] = i - 1
  <2> DEFINE t == SubSeq(buf, first + 1, first + n)
  <2>1. t \in Seq(Int) /\ Len(t) = n
    BY <1>2, <1>5
  <2>2. \A i \in 1 .. Len(t) : t[i] = twrote + i - 1
    <3> TAKE i \in 1 .. Len(t)
    <3>1. t[i] = buf[first + i]
      BY <1>2, <1>5, <2>1
    <3>2. i \in 1 .. ntowrite
      BY <1>2, <1>5, <2>1
    <3> QED
      BY <1>4, <3>1, <3>2
  <2> HIDE DEF t
  <2>3. /\ sent \in Seq(Int) /\ Len(sent) = twrote
        /\ \A i \in 1 .. Len(sent) : sent[i] = i - 1
    BY DEF IInv, TypeOK, Counted, SentInOrder
  <2>4. /\ sent \o t \in Seq(Int) /\ Len(sent \o t) = Len(sent) + Len(t)
        /\ \A i \in 1 .. Len(sent \o t) : (sent \o t)[i] = i - 1
    BY <2>1, <2>2, <2>3, SentOn
  <2>5. sent' = sent \o t
    BY <1>1 DEF t
  <2> QED
    BY <2>1, <2>4, <2>5
<1>7. TypeOK'
  BY <1>1, <1>2, <1>3, <1>5, <1>6 DEF IInv, TypeOK, InKernel, InUser
<1>8. Counted'
  BY <1>1, <1>2, <1>5, <1>6 DEF IInv, TypeOK, Counted, SentInOrder
<1>9. KernelPlace' /\ Outcome'
  BY <1>3 DEF IInv, TypeOK, KernelPlace, Outcome, InKernel
<1>10. UserPlace'
  <2>1. pos' = twrote' + ntowrite' /\ ntoread' = FileSize - pos' /\ ntowrite' <= Len(buf')
    BY <1>1, <1>2, <1>3, <1>4, <1>5
  <2>2. ASSUME NEW i \in 1 .. ntowrite'
        PROVE  buf'[Len(buf') - ntowrite' + i] = twrote' + i - 1
    <3>1. n + i \in 1 .. ntowrite
      BY <1>1, <1>2, <1>5
    <3>2. buf[first + (n + i)] = twrote + (n + i) - 1
      BY <1>4, <3>1
    <3>3. Len(buf') - ntowrite' + i = first + (n + i)
      BY <1>1, <1>2, <1>3, <1>5 DEF first
    <3> QED
      BY <1>1, <1>2, <1>3, <1>5, <3>2, <3>3
  <2> QED
    BY <1>3, <2>1, <2>2 DEF UserPlace
<1> QED
  BY <1>7, <1>8, <1>9, <1>10 DEF IInv

-----------------------------------------------------------------------------
\* Every step of every process.
LEMMA NextInv == IInv /\ [Next]_vars => IInv'
<1> SUFFICES ASSUME IInv, [Next]_vars PROVE IInv'
  OBVIOUS
<1> USE DEF world
<1>0. size \in Nat /\ room \in Nat
  BY DEF IInv, TypeOK
<1>1. CASE KernelLoop
  <2>1. CASE ntoread <= 0 /\ Finish(0, twrote)
    <3>1. pc = "kernelLoop" /\ UNCHANGED <<progress, size, room>>
      BY <1>1 DEF KernelLoop
    <3>2. TypeOK' /\ KernelPlace' /\ UserPlace' /\ Outcome'
      BY <2>1, <3>1, SizesAssumption
         DEF IInv, TypeOK, KernelPlace, UserPlace, Outcome, Finish, progress, InKernel, InUser
    <3>3. Counted'
      BY <3>1 DEF IInv, Counted, SentInOrder, progress
    <3> QED
      BY <3>2, <3>3 DEF IInv
  <2>2. CASE FallBack(oerrno, twrote)
    BY <1>0, <1>1, <2>2, FallBackInv DEF KernelLoop, progress, InKernel
  <2>3. CASE pc' = "sendfile" /\ UNCHANGED <<oerrno, outcome>>
    BY <1>0, <1>1, <2>3, IdleInv DEF KernelLoop, InKernel
  <2> QED
    BY <1>1, <2>1, <2>2, <2>3 DEF KernelLoop
<1>2. CASE SendfileSends
  BY <1>2, SendsInv
<1>3. CASE SendfileFails
  <2>1. CASE pc' = "kernelSelect" /\ UNCHANGED <<flag, outcome>>
    BY <1>0, <1>3, <2>1, IdleInv DEF SendfileFails, InKernel
  <2>2. CASE \E e \in {"EINVAL", "none", "EPIPE", "EAGAIN"} : FallBack(e, twrote)
    BY <1>0, <1>3, <2>2, FallBackInv DEF SendfileFails, progress, InKernel
  <2> QED
    BY <1>3, <2>1, <2>2 DEF SendfileFails
<1>4. CASE KernelSelect
  <2>1. CASE pc' = "kernelLoop" /\ UNCHANGED <<flag, oerrno, outcome>>
    <3>1. twrote = off /\ pc = "kernelSelect" /\ twrote' = off /\ current' = off
      BY <1>4 DEF KernelSelect, IInv, KernelPlace, InKernel
    <3> QED
      BY <1>4, <2>1, <3>1
         DEF KernelSelect, IInv, TypeOK, Counted, SentInOrder, KernelPlace, UserPlace, Outcome,
             outcome, InKernel, InUser
  <2>2. CASE FallBack(oerrno, off)
    BY <1>0, <1>4, <2>2, FallBackInv DEF KernelSelect, InKernel
  <2> QED
    BY <1>4, <2>1, <2>2 DEF KernelSelect
<1>5. CASE UserLoop
  <2>1. CASE UserBreak /\ UNCHANGED ntowrite
    BY <1>0, <1>5, <2>1, UserBreakInv DEF UserLoop, InUser
  <2>2. CASE ntowrite' = 0 /\ Finish(-1, twrote)
    <3>1. ntowrite = 0 /\ pc = "userLoop"
      BY <1>5 DEF UserLoop, IInv, UserPlace, InUser
    <3> QED
      BY <1>5, <2>2, <3>1
         DEF UserLoop, IInv, TypeOK, Counted, SentInOrder, KernelPlace, UserPlace, Outcome,
             Finish, InKernel, InUser
  <2>3. CASE ntowrite' = 0 /\ pc' = "read" /\ UNCHANGED <<flag, outcome>>
    <3>1. ntowrite = 0 /\ pc = "userLoop"
      BY <1>5 DEF UserLoop, IInv, UserPlace, InUser
    <3> QED
      BY <1>0, <1>5, <2>3, <3>1, IdleInv DEF UserLoop, progress
  <2> QED
    BY <1>5, <2>1, <2>2, <2>3 DEF UserLoop
<1>6. CASE UserRead
  BY <1>6, ReadInv
<1>7. CASE UserReadFails
  BY <1>7 DEF UserReadFails, IInv, TypeOK, Counted, SentInOrder, KernelPlace, UserPlace,
              Outcome, progress, InKernel, InUser
<1>8. CASE WriteLoop
  <2>1. CASE UserBreak
    BY <1>0, <1>8, <2>1, UserBreakInv DEF WriteLoop, progress, InUser
  <2>2. CASE ~UserBreak
    BY <1>0, <1>8, <2>2, IdleInv DEF WriteLoop
  <2> QED
    BY <2>1, <2>2
<1>9. CASE UserWrite
  BY <1>9, WriteInv
<1>10. CASE UserWriteFails
  <2>1. CASE UserBreak
    BY <1>0, <1>10, <2>1, UserBreakInv DEF UserWriteFails, progress, InUser
  <2>2. CASE ~UserBreak
    BY <1>0, <1>10, <2>2, IdleInv DEF UserWriteFails
  <2> QED
    BY <2>1, <2>2
<1>11. CASE WriteSelect
  <2>1. CASE UserBreak
    BY <1>0, <1>11, <2>1, UserBreakInv DEF WriteSelect, progress, InUser
  <2>2. CASE ~UserBreak
    BY <1>0, <1>11, <2>2, IdleInv DEF WriteSelect
  <2> QED
    BY <2>1, <2>2
<1>12. CASE Environment
  <2>1. ASSUME NEW s \in Raised, Signal(s) PROVE IInv'
    BY <1>0, <2>1, IdleInv DEF Signal
  <2>2. ASSUME NEW s \in Raised, SignalInCall(s) PROVE IInv'
    <3>1. CASE pc = "sendfile" /\ FallBack("EINTR", twrote) /\ UNCHANGED <<twrote, current>>
      BY <1>0, <2>2, <3>1, FallBackInv DEF SignalInCall, InKernel
    <3>2. CASE pc = "kernelSelect" /\ FallBack(oerrno, off) /\ twrote' = off /\ current' = off
      BY <1>0, <2>2, <3>2, FallBackInv DEF SignalInCall, InKernel
    <3>3. CASE pc = "write" /\ pc' = "writeLoop" /\ UNCHANGED <<oerrno, outcome, twrote, current>>
      BY <1>0, <2>2, <3>3, IdleInv DEF SignalInCall, progress
    <3>4. CASE pc = "writeSelect" /\ UserBreak /\ UNCHANGED <<oerrno, twrote, current>>
      BY <1>0, <2>2, <3>4, UserBreakInv DEF SignalInCall, InUser
    <3> QED
      BY <2>2, <3>1, <3>2, <3>3, <3>4 DEF SignalInCall
  <2>3. CASE PeerReads
    BY <1>0, <2>3, IdleInv, SizesAssumption DEF PeerReads
  <2>4. CASE PeerLeaves
    BY <1>0, <2>4, IdleInv DEF PeerLeaves
  <2>5. CASE FileChanges
    <3>1. size' \in Nat
      BY <2>5, SizesAssumption DEF FileChanges
    <3> QED
      BY <1>0, <2>5, <3>1, IdleInv DEF FileChanges
  <2> QED
    BY <1>12, <2>1, <2>2, <2>3, <2>4, <2>5 DEF Environment
<1>13. CASE UNCHANGED vars
  BY <1>0, <1>13, IdleInv DEF vars
<1> QED
  BY <1>1, <1>2, <1>3, <1>4, <1>5, <1>6, <1>7, <1>8, <1>9, <1>10, <1>11, <1>12, <1>13
     DEF Next, DoSendfile

-----------------------------------------------------------------------------
\* The steps keep the places, the count and the blocks in agreement.
(* DoSendfile's counters, its two places in the file and what has been sent  *)
(* agree in every reachable state.                                            *)
THEOREM Invariant == Spec => []IInv
BY InitInv, NextInv, PTL DEF Spec

\* Through short writes, waits, signals and the change from sendfile to read and
\* write (io_sendfile.c:589-760), the socket is given the file's blocks from the first
\* on, in order, none twice and none left out.
(* Whatever is sent first by sendfile and then by read and write, with short  *)
(* writes, signals and changes of the file's length, is the file's beginning. *)
THEOREM InOrder == Spec => []SentInOrder
<1>1. IInv => SentInOrder
  BY DEF IInv, Counted
<1> QED
  BY <1>1, Invariant, PTL

\* DoSendfile returns 0 only when all of the file has been handed over, and *osize and
\* the progress meter do not claim more than has been.
(* DoSendfile's result and *osize are what it has done.                       *)
THEOREM TrueResult == Spec => []ResultTrue
<1>1. IInv => ResultTrue
  BY DEF IInv, TypeOK, Counted, Outcome, ResultTrue
<1> QED
  BY <1>1, Invariant, PTL
==============================================================================
