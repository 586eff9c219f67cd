------------------------------ MODULE Sendfile ------------------------------
(***************************************************************************)
(* The upload of a large binary file with sendfile() (io_sendfile.c), as   *)
(* FTPPutOneF calls it (io_put.c): the loop around the kernel's sendfile,  *)
(* the loop of read and write it falls back to, the signals that interrupt *)
(* either, and the waits for a socket that takes nothing.  The build is    *)
(* the one for Linux; FTPPutOneF leaves userSpaceModeOnly,                 *)
(* sendfileModeOnly, nonBlockingInput and handleSIGINT at 0, so that the   *)
(* branches for them are not taken.                                        *)
(*                                                                         *)
(* The unit of data is a block; a block of the file is its offset.  The    *)
(* peer takes blocks when it likes, may go away, and another process may   *)
(* change the length of the file while it is sent.                         *)
(***************************************************************************)
EXTENDS Integers, Sequences

CONSTANTS
  FileSize,      \* blocks of the file when FTPPutOneF looks at it
  StartPoints,   \* the offsets an upload may be resumed at
  BufSize,       \* blocks one read returns at most
  Room,          \* blocks the socket takes while the peer reads nothing
  MaxSignals,    \* bound on the signals
  MaxChanges     \* bound on the changes of the file's length

ASSUME SizesAssumption ==
  /\ FileSize \in Nat \ {0} /\ BufSize \in Nat \ {0} /\ Room \in Nat \ {0}
  /\ MaxSignals \in Nat /\ MaxChanges \in Nat
  /\ StartPoints \subseteq 0 .. FileSize - 1

VARIABLES
  pc,          \* where DoSendfile is
  startPoint,  \* where the server was told (REST) the data goes
  nonblock,    \* nonBlockingOutput: there is a progress meter
  timer,       \* what ends a wait in a blocking call: SO_SNDTIMEO, alarm, nothing
  able,        \* whether the kernel can sendfile this file at all
  rung,        \* the alarm has rung
  flag,        \* gSendfileInProgress
  oerrno,      \* errno of the last sendfile
  off,         \* the offset the kernel keeps for sendfile
  pos,         \* the descriptor's own position, which read uses
  ntoread, ntowrite, twrote,
  buf,         \* the blocks of the last read
  result, osize, current,  \* what the call returns, *osize, dspip->current
  sent,        \* every block handed to the socket, in order
  size,        \* the file's length now
  room, gone,  \* what the socket still takes; the peer has gone
  signals, changes

call == <<startPoint, nonblock, timer, able>>
outcome == <<result, osize>>
world == <<size, room, gone, signals, changes>>
progress == <<off, pos, ntoread, ntowrite, twrote, buf, current, sent>>
vars == <<pc, call, rung, flag, oerrno, progress, outcome, world>>

LesserOf(i, j) == IF i <= j THEN i ELSE j
Blocks(from, n) == [i \in 1 .. n |-> from + i - 1]
Raised == {"SIGALRM", "SIGURG"}

-----------------------------------------------------------------------------
(* FTPPutOneF's call: the position of the file is left alone when the      *)
(* upload resumes, and the parameters are zero but for the ones set here.  *)

Init ==
  /\ startPoint \in StartPoints
  /\ nonblock \in BOOLEAN
  /\ timer \in IF nonblock THEN {"none"} ELSE {"none", "SO_SNDTIMEO", "alarm"}
  /\ able \in BOOLEAN
  /\ rung = FALSE
  /\ pc = "kernelLoop"
  /\ flag = "0" /\ oerrno = "none"
  /\ off = 0 /\ pos = 0
  /\ ntoread = FileSize /\ ntowrite = 0 /\ twrote = 0
  /\ buf = <<>> /\ sent = <<>> /\ current = 0
  /\ result = 1 /\ osize = 0
  /\ size = FileSize /\ room = Room /\ gone = FALSE
  /\ signals = 0 /\ changes = 0

(* The common end: the alarm is stopped, the handlers are put back.        *)
Finish(r, count) ==
  /\ result' = r /\ osize' = count
  /\ flag' = "0" /\ pc' = "done"

-----------------------------------------------------------------------------
(* The loop around sendfile.                                               *)

(* Out of the loop: the other loop is entered when nothing has been sent,  *)
(* whatever the reason, and forgets a signal that was the reason.          *)
FallBackAfterSome(error, count) ==
  oerrno' = error /\ flag' = "1" /\ pc' = "userLoop" /\ UNCHANGED outcome

FallBack(error, count) ==
  /\ oerrno' = error
  /\ IF ntoread = FileSize
     THEN flag' = "1" /\ pc' = "userLoop" /\ UNCHANGED outcome
     ELSE Finish(-1, count)

KernelLoop ==
  /\ pc = "kernelLoop"
  /\ \/ ntoread <= 0 /\ Finish(0, twrote) /\ UNCHANGED oerrno
     \/ ntoread > 0 /\ flag \in Raised /\ FallBack(oerrno, twrote)
     \/ /\ ntoread > 0 /\ flag \notin Raised
        /\ flag' = "1" /\ pc' = "sendfile"
        /\ UNCHANGED <<oerrno, outcome>>
  /\ UNCHANGED <<call, rung, progress, world>>

(* sendfile takes some blocks and moves off, not the file's position.      *)
SendfileSends ==
  /\ pc = "sendfile" /\ able /\ ~gone
  /\ \E n \in 1 .. LesserOf(room, LesserOf(ntoread, size - off)) :
       /\ sent' = sent \o Blocks(off, n)
       /\ off' = off + n
       /\ room' = room - n
       /\ ntoread' = ntoread - n
       /\ twrote' = twrote + n
  /\ oerrno' = "none" /\ pc' = "kernelLoop"
  /\ UNCHANGED <<call, rung, flag, pos, ntowrite, buf, current, outcome, size, gone, signals, changes>>

(* The ways it fails: the file cannot be sent this way, the file has ended *)
(* before its time (errno is not set), the peer has gone (SIGPIPE's        *)
(* handler notes no more than EPIPE says), nothing fits.                   *)
SendfileFails ==
  /\ pc = "sendfile"
  /\ \/ ~able /\ FallBack("EINVAL", twrote)
     \/ able /\ ~gone /\ off >= size /\ FallBack("none", twrote)
     \/ able /\ gone /\ FallBack("EPIPE", twrote)
     \/ /\ able /\ ~gone /\ off < size /\ room = 0
        /\ \/ nonblock /\ flag \in Raised /\ FallBack("EAGAIN", twrote)
           \/ /\ nonblock /\ flag \notin Raised
              /\ oerrno' = "EAGAIN" /\ pc' = "kernelSelect"
              /\ UNCHANGED <<flag, outcome>>
           \/ ~nonblock /\ timer = "SO_SNDTIMEO" /\ FallBack("EAGAIN", twrote)
  /\ UNCHANGED <<call, rung, progress, world>>

(* With a socket that does not block, wait until it takes more.  What has  *)
(* been written is then counted as the offset.                             *)
KernelSelect ==
  /\ pc = "kernelSelect"
  /\ twrote' = off /\ current' = off
  /\ \/ /\ room > 0 \/ gone
        /\ pc' = "kernelLoop"
        /\ UNCHANGED <<flag, oerrno, outcome>>
     \/ room = 0 /\ ~gone /\ FallBack(oerrno, off)
  /\ UNCHANGED <<call, rung, off, pos, ntoread, ntowrite, buf, sent, world>>

-----------------------------------------------------------------------------
(* The loop of read and write.                                             *)

Interrupted ==
  \/ flag \in Raised
  \/ oerrno = "EPIPE"
  \/ oerrno = "EINTR" /\ timer = "alarm"

UserBreakForgets == Finish(IF ntoread > 0 THEN -1 ELSE 0, twrote)

UserBreak == Finish(IF ntoread > 0 \/ ntowrite > 0 THEN -1 ELSE 0, twrote)

UserLoop ==
  /\ pc = "userLoop"
  /\ \/ ntoread <= 0 /\ UserBreak /\ UNCHANGED ntowrite
     \/ /\ ntoread > 0 /\ ntowrite' = 0
        /\ IF Interrupted
           THEN Finish(-1, twrote)
           ELSE pc' = "read" /\ UNCHANGED <<flag, outcome>>
  /\ UNCHANGED <<call, rung, oerrno, off, pos, ntoread, twrote, buf, current, sent, world>>

UserRead ==
  /\ pc = "read"
  /\ LET n == LesserOf(BufSize, size - pos) IN
     \/ /\ n > 0
        /\ buf' = Blocks(pos, n) /\ pos' = pos + n
        /\ ntoread' = ntoread - n /\ ntowrite' = n
        /\ pc' = "writeLoop"
        /\ UNCHANGED <<flag, outcome>>
     \/ n <= 0 /\ UserBreak /\ UNCHANGED <<buf, pos, ntoread, ntowrite>>
  /\ UNCHANGED <<call, rung, oerrno, off, twrote, current, sent, world>>

(* A read that fails ends the call on the spot: *osize, the handlers, the  *)
(* alarm and gSendfileInProgress stay as they are.                         *)
UserReadFails ==
  /\ pc = "read"
  /\ result' = -1 /\ pc' = "done"
  /\ UNCHANGED <<call, rung, flag, oerrno, progress, osize, world>>

WriteLoop ==
  /\ pc = "writeLoop"
  /\ \/ ntowrite = 0 /\ pc' = "userLoop" /\ UNCHANGED <<flag, outcome>>
     \/ ntowrite > 0 /\ Interrupted /\ UserBreak
     \/ ntowrite > 0 /\ ~Interrupted /\ pc' = "write" /\ UNCHANGED <<flag, outcome>>
  /\ UNCHANGED <<call, rung, oerrno, progress, world>>

UserWrite ==
  /\ pc = "write" /\ ~gone
  /\ \E n \in 1 .. LesserOf(room, ntowrite) :
       LET first == Len(buf) - ntowrite IN
       /\ sent' = sent \o SubSeq(buf, first + 1, first + n)
       /\ ntowrite' = ntowrite - n
       /\ twrote' = twrote + n /\ current' = twrote + n
       /\ room' = room - n
  /\ pc' = "writeLoop"
  /\ UNCHANGED <<call, rung, flag, oerrno, off, pos, ntoread, buf, outcome, size, gone, signals, changes>>

UserWriteFails ==
  /\ pc = "write"
  /\ \/ gone /\ UserBreak
     \/ /\ ~gone /\ room = 0 /\ (nonblock \/ timer = "SO_SNDTIMEO")
        /\ pc' = "writeSelect"
        /\ UNCHANGED <<flag, outcome>>
  /\ UNCHANGED <<call, rung, oerrno, progress, world>>

WriteSelectForever ==
  /\ pc = "writeSelect" /\ (room > 0 \/ gone)
  /\ pc' = "writeLoop"
  /\ UNCHANGED <<call, rung, flag, outcome, oerrno, progress, world>>

WriteSelect ==
  /\ pc = "writeSelect"
  /\ \/ (room > 0 \/ gone) /\ pc' = "writeLoop" /\ UNCHANGED <<flag, outcome>>
     \/ room = 0 /\ ~gone /\ UserBreak
  /\ UNCHANGED <<call, rung, oerrno, progress, world>>

-----------------------------------------------------------------------------
(* Signals.  The handlers only note a signal, and only while the flag says *)
(* that data is sent.  One that comes during a blocked call also ends that *)
(* call: sendfile and the selects fail, write is called again.             *)

Noted(s) == IF flag = "1" THEN s ELSE flag

Blocked ==
  /\ room = 0 /\ ~gone
  /\ \/ pc = "sendfile" /\ able /\ off < size /\ ~nonblock
     \/ pc = "write" /\ ~nonblock
     \/ pc \in {"kernelSelect", "writeSelect"}

Comes(s) ==
  /\ pc # "done"
  /\ signals < MaxSignals /\ signals' = signals + 1
  /\ s = "SIGALRM" => timer = "alarm" /\ ~rung
  /\ rung' = (rung \/ s = "SIGALRM")

Signal(s) ==
  /\ Comes(s) /\ ~Blocked
  /\ flag' = Noted(s)
  /\ UNCHANGED <<pc, call, oerrno, progress, outcome, size, room, gone, changes>>

SignalInCall(s) ==
  /\ Comes(s) /\ Blocked
  /\ \/ /\ pc = "sendfile" /\ FallBack("EINTR", twrote)
        /\ UNCHANGED <<twrote, current>>
     \/ /\ pc = "kernelSelect" /\ FallBack(oerrno, off)
        /\ twrote' = off /\ current' = off
     \/ /\ pc = "write" /\ flag' = Noted(s) /\ pc' = "writeLoop"
        /\ UNCHANGED <<oerrno, outcome, twrote, current>>
     \/ /\ pc = "writeSelect" /\ UserBreak
        /\ UNCHANGED <<oerrno, twrote, current>>
  /\ UNCHANGED <<call, off, pos, ntoread, ntowrite, buf, sent, size, room, gone, changes>>

(* The rest of the world: the peer reads or goes away, the file changes.   *)

PeerReads ==
  /\ ~gone /\ room < Room /\ room' = Room
  /\ UNCHANGED <<pc, call, rung, flag, oerrno, progress, outcome, size, gone, signals, changes>>

PeerLeaves ==
  /\ ~gone /\ gone' = TRUE
  /\ UNCHANGED <<pc, call, rung, flag, oerrno, progress, outcome, size, room, signals, changes>>

FileChanges ==
  /\ changes < MaxChanges /\ changes' = changes + 1
  /\ \E n \in 0 .. FileSize + BufSize : n # size /\ size' = n
  /\ UNCHANGED <<pc, call, rung, flag, oerrno, progress, outcome, room, gone, signals>>

-----------------------------------------------------------------------------
DoSendfile ==
  \/ KernelLoop \/ SendfileSends \/ SendfileFails \/ KernelSelect
  \/ UserLoop \/ UserRead \/ UserReadFails
  \/ WriteLoop \/ UserWrite \/ UserWriteFails \/ WriteSelect

Environment ==
  /\ pc # "done"
  /\ \/ \E s \in Raised : Signal(s) \/ SignalInCall(s)
     \/ PeerReads \/ PeerLeaves \/ FileChanges

Next == DoSendfile \/ Environment

Spec == Init /\ [][Next]_vars

(* The process runs; the peer need not read, nor any signal come.          *)
FairSpec == Spec /\ WF_vars(DoSendfile)

-----------------------------------------------------------------------------
(* Whatever the mixture of short writes, waits, signals and the change     *)
(* from sendfile, which keeps an offset, to read, which has the            *)
(* descriptor's: the socket is given the file's blocks in order, none      *)
(* twice and none left out.                                                *)
SentInOrder == \A i \in 1 .. Len(sent) : sent[i] = i - 1

(* 0 is returned only when all blocks the file had at the start were given *)
(* to the socket, and *osize and the progress meter never claim more than  *)
(* was; *osize is exact.                                                   *)
ResultTrue ==
  /\ current <= Len(sent)
  /\ result = 0 => Len(sent) >= FileSize /\ osize = Len(sent)
  /\ result = -1 => osize \in {0, Len(sent)}

(* With a wait that times out, in select or by SO_SNDTIMEO, the call       *)
(* returns although the peer may stop reading for ever.                    *)
Returns == (nonblock \/ timer = "SO_SNDTIMEO") ~> (pc = "done")

(* io_put.c:478 says that sendfile() starts from the offset to resume at   *)
(* without seeking: what is sent for a resumed upload begins there.        *)
StartsAtOffset == result = 0 => sent[1] = startPoint
=============================================================================
