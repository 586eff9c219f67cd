----------------------------- MODULE FtpSession -----------------------------
(***************************************************************************)
(* One FTP session as libncftp runs it: the library's thread issues        *)
(* commands on the control connection and moves files over a data          *)
(* connection (src/libncftp/rcmd.c, ftp.c, io_get.c, io_put.c), while the  *)
(* server, the network and the progress callback act on their own.         *)
(*                                                                         *)
(* The library's side follows the C code, one action per stretch of code   *)
(* between two points where it blocks (a reply, a connect, an accept, a    *)
(* select on the data socket).  The server is external: it is the RFC 959  *)
(* server the code's comments describe, free to be slow, to refuse, to     *)
(* fail in mid-transfer and to hang up.                                    *)
(***************************************************************************)
EXTENDS Naturals, Sequences

CONSTANTS
  Kinds,         \* the library calls made: "CMD", "CHECK", "RETR", "STOR"
  Types,         \* transfer types asked for: subset of {"A", "I"}
  Starts,        \* resume points asked for, in blocks
  FileBlocks,    \* the length of every file, in blocks
  MaxOps,        \* bound: the number of library calls made
  PortModes,     \* values of cip->dataPortMode at login: "PORT", "PASV", "FALLBACK"
  PASVTries,     \* cip->maxNumberOfSuccessivePASVAttempts
  UseAPPE        \* cip->hasAPPE # kCommandNotAvailable

ASSUME KindsAssumption == Kinds \subseteq {"CMD", "CHECK", "RETR", "STOR"}
ASSUME TypesAssumption == Types \subseteq {"A", "I"}
ASSUME SizesAssumption == /\ FileBlocks \in Nat
                          /\ MaxOps \in Nat
                          /\ Starts \subseteq 0..FileBlocks
ASSUME ModeAssumption == /\ PortModes \subseteq {"PORT", "PASV", "FALLBACK"}
                         /\ PASVTries \in Nat \ {0}
                         /\ UseAPPE \in BOOLEAN

VARIABLES
  pc,         \* where the library's thread is; "idle" between two calls
  cip,        \* the fields of the FTPConnectionInfo that a session shares
  op,         \* the library call in progress, or the last one
  cmdQ,       \* commands written to the control connection, not yet read
  repQ,       \* replies in the control socket, not yet read by SReadline
  link,       \* the data connection, seen from between the two ends
  wire,       \* blocks written to the data connection and not yet read
  srv,        \* the server's session
  abandoned   \* history: ways the library has left a reply unread

vars == <<pc, cip, op, cmdQ, repQ, link, wire, srv, abandoned>>
net == <<cmdQ, repQ, link, wire>>

Verbs == {"CMD", "TYPE", "PORT", "PASV", "REST", "RETR", "STOR", "APPE",
          "ABOR", "QUIT"}
Transfers == {"RETR", "STOR", "APPE"}

\* A reply is tagged with the command it answers; the library never sees tags.
Command == [verb : Verbs, type : {"A", "I"}, off : Nat, op : Nat]
Reply == [code : {1, 2, 3, 4, 5, 421}, verb : Verbs, op : Nat]

Aborting == {"abort1", "abort2", "abortReply", "abortReply2"}
Starting == {"type", "open", "rest", "start", "rest0", "appe"}
Simple == {"cmd", "check", "check1", "check0"}
Awaiting == Starting \cup Simple \cup { "abortReply", "abortReply2", "final", "quit"}
PCs == Awaiting \cup {"idle", "connect", "accept", "xfer", "eofwait",
                      "abort1", "abort2"}

-----------------------------------------------------------------------------
(* The library's fields after FTPOpenHost has connected and logged in.      *)

FreshCip(mode, hasPASV, hasREST) ==
  [ctrlSocket |-> "open", ctrlSrl |-> <<>>, dataSocket |-> "closed",
   dataPortMode |-> mode, hasPASV |-> hasPASV, hasREST |-> hasREST,
   curTransferType |-> "A",
   startPoint |-> 0, cancelXfer |-> FALSE, canceling |-> FALSE,
   canceled |-> FALSE, dataTimedOut |-> FALSE, errNo |-> "none"]

FreshSrv(rest) ==
  [state |-> "ready", type |-> "A", rest |-> rest, off |-> 0, port |-> 0,
   job |-> [verb |-> "CMD", op |-> 0, off |-> 0], blocks |-> 0]

Init ==
  /\ pc = "idle"
  /\ \E mode \in PortModes, pasv \in {"unknown", "available"} :
       cip = FreshCip(mode, pasv, "unknown")
  /\ op = [no |-> 0, kind |-> "CMD", type |-> "A", start |-> 0, cmd |-> "CMD",
           result |-> "ok", blocks |-> 0, tries |-> 0]
  /\ cmdQ = <<>> /\ repQ = <<>> /\ link = "none" /\ wire = 0
  /\ \E r \in BOOLEAN : srv = FreshSrv(r)
  /\ abandoned = {}

-----------------------------------------------------------------------------
(* What the library reads and writes.                                       *)

\* FTPSendCommandStr: the command line goes to the control socket.
Send(verb, off) ==
  cmdQ' = Append(cmdQ, [verb |-> verb, type |-> op'.type, off |-> off, op |-> op'.no])

\* Something to read: in SReadline's buffer, or in the socket select() sees.
SocketReadable == repQ # <<>> \/ srv.state = "gone"
HaveReply == cip.ctrlSrl # <<>> \/ repQ # <<>>
NextReply == IF cip.ctrlSrl # <<>> THEN Head(cip.ctrlSrl) ELSE Head(repQ)

\* SReadline hands out the next line: one it has buffered, or the first of
\* the chunk of lines a read() of the socket returns.
Receive(c) ==
  \/ /\ cip.ctrlSrl # <<>>
     /\ cip' = [c EXCEPT !.ctrlSrl = Tail(cip.ctrlSrl)]
     /\ UNCHANGED repQ
  \/ /\ cip.ctrlSrl = <<>>
     /\ \E n \in 1..Len(repQ) :
          /\ cip' = [c EXCEPT !.ctrlSrl = SubSeq(repQ, 2, n)]
          /\ repQ' = SubSeq(repQ, n + 1, Len(repQ))

\* GetResponse returns kNoErr at p with a code for which Cond holds.
GetResponse(p, Codes, c) ==
  /\ pc = p
  /\ cip.ctrlSocket = "open"
  /\ HaveReply
  /\ cip.dataTimedOut => SocketReadable
  /\ NextReply.code \in Codes \ {421}
  /\ Receive(c)

\* CloseDataConnection, as the other end of the data connection sees it.
Unlinked == IF cip.dataSocket \in {"listen", "open"}
              THEN CASE link \in {"up", "half"} ->
                          IF srv.state \in {"opening", "xfer"} THEN "cut" ELSE "none"
                     [] link \in {"fin", "reset"} -> "none"
                     [] OTHER -> link
              ELSE link
ClosedNot(c) == c                                           \* mutant of Closed
Closed(c) == [c EXCEPT !.dataSocket = "closed"]
LinkBecomes(l) == link' = l /\ wire' = IF l = "none" THEN 0 ELSE wire
CloseLink == LinkBecomes(Unlinked)

\* The call returns to the application.
Return(result) == pc' = "idle" /\ op' = [op EXCEPT !.result = result]

-----------------------------------------------------------------------------
(* Simple commands: FTPCmd and RCmd send one command and read one reply.    *)

NewOp(kind, type, start) ==
  /\ pc = "idle"
  /\ cip.ctrlSocket = "open"
  /\ op.no < MaxOps
  /\ op' = [no |-> op.no + 1, kind |-> kind, type |-> type, start |-> start,
            cmd |-> kind, result |-> "ok", blocks |-> 0, tries |-> PASVTries]

FTPCmd ==
  /\ "CMD" \in Kinds
  /\ NewOp("CMD", "A", 0)
  /\ Send("CMD", 0)
  /\ pc' = "cmd"
  /\ UNCHANGED <<cip, repQ, link, wire, srv, abandoned>>

CmdReply ==
  \E ok \in BOOLEAN :
    /\ GetResponse("cmd", IF ok THEN {2} ELSE {1, 3, 4, 5}, cip)
    /\ Return(IF ok THEN "ok" ELSE "err")
    /\ UNCHANGED <<cmdQ, link, wire, srv, abandoned>>

\* FTPSetStartOffset learns whether the server has REST: a success says yes,
\* a reply of "unimplemented" says no, any other refusal says nothing.
LearnREST(ok) == IF ok THEN {"available"} ELSE {"unavailable", cip.hasREST}

\* FTPCheckForRestartModeAvailability: REST 1, and REST 0 to take it back.  The
\* outcomes of TYPE and of the REST 0 are not looked at.
FTPCheckForRestart ==
  /\ "CHECK" \in Kinds /\ cip.hasREST = "unknown"
  /\ NewOp("CHECK", "I", 0)
  /\ IF cip.curTransferType = "I" THEN Send("REST", 1) /\ pc' = "check1"
                                  ELSE Send("TYPE", 0) /\ pc' = "check"
  /\ UNCHANGED <<cip, repQ, link, wire, srv, abandoned>>

CheckTypeReply ==
  \E ok \in BOOLEAN :
    /\ GetResponse("check", IF ok THEN {2} ELSE {1, 3, 4, 5},
                   [cip EXCEPT !.curTransferType = IF ok THEN "I" ELSE @])
    /\ UNCHANGED op
    /\ Send("REST", 1)
    /\ pc' = "check1"
    /\ UNCHANGED <<link, wire, srv, abandoned>>

CheckREST1Reply ==
  \E ok \in BOOLEAN : \E has \in LearnREST(ok) :
    /\ GetResponse("check1", IF ok THEN {1, 2, 3} ELSE {4, 5},
                   [cip EXCEPT !.hasREST = has])
    /\ IF ok THEN UNCHANGED op /\ Send("REST", 0) /\ pc' = "check0"
             ELSE Return("ok") /\ UNCHANGED cmdQ
    /\ UNCHANGED <<link, wire, srv, abandoned>>

CheckREST0Reply ==
  \E ok \in BOOLEAN : \E has \in LearnREST(ok) :
    /\ GetResponse("check0", IF ok THEN {1, 2, 3} ELSE {4, 5},
                   [cip EXCEPT !.hasREST = has])
    /\ Return("ok")
    /\ UNCHANGED <<cmdQ, link, wire, srv, abandoned>>

CheckReply == CheckTypeReply \/ CheckREST1Reply \/ CheckREST0Reply

-----------------------------------------------------------------------------
(* FTPStartDataCmd3: TYPE, PORT or PASV, REST, then the transfer command.   *)

\* OpenDataConnection's choice between PORT and PASV.
UsesPORT == cip.hasPASV = "unavailable" \/ cip.dataPortMode = "PORT"

\* The flags FTPStartDataCmd3 resets, and OpenDataConnection's first close.
Reset(c) == [c EXCEPT !.cancelXfer = FALSE, !.canceled = FALSE,
                      !.dataSocket = "closed"]
SendOpen == Send(IF UsesPORT THEN "PORT" ELSE "PASV", 0)

\* FTPSetTransferType sends TYPE only when the cached type is another one.
FTPStartDataCmd ==
  \E kind \in Kinds \cap Transfers, type \in Types, start \in Starts :
    /\ NewOp(kind, type, start)
    /\ \/ /\ cip.curTransferType # type
          /\ Send("TYPE", 0)
          /\ pc' = "type"
          /\ UNCHANGED <<cip, link, wire>>
       \/ /\ cip.curTransferType = type
          /\ SendOpen
          /\ pc' = "open"
          /\ cip' = Reset(cip)
          /\ CloseLink
    /\ UNCHANGED <<repQ, srv, abandoned>>

\* done: FTPEndDataCmd(cip, 0) closes the data connection and reads nothing.
StartFails == Return("err") /\ CloseLink /\ UNCHANGED <<cmdQ, srv>>

TypeAccepted ==
  /\ GetResponse("type", {2}, [Reset(cip) EXCEPT !.curTransferType = op.type])
  /\ UNCHANGED op
  /\ SendOpen
  /\ pc' = "open"
  /\ CloseLink
  /\ UNCHANGED <<srv, abandoned>>

TypeRefused ==
  /\ GetResponse("type", {1, 3, 4, 5}, cip)
  /\ Return("err")
  /\ UNCHANGED <<cmdQ, link, wire, srv, abandoned>>

TypeReply == TypeAccepted \/ TypeRefused

\* The REST command, when a start point is asked for, or the transfer command.
SendRestOrCommand ==
  /\ UNCHANGED op
  /\ \/ op.start # 0 /\ Send("REST", op.start) /\ pc' = "rest"
     \/ op.start = 0 /\ Send(op.kind, 0) /\ pc' = "start"

\* Any failure of PASV, the loss of the session included, marks it unavailable.
PASVRefused(c) ==
  [c EXCEPT !.hasPASV = IF pc = "open" /\ ~UsesPORT THEN "unavailable" ELSE @]

PORTAccepted ==
  /\ UsesPORT
  /\ GetResponse("open", {2}, [cip EXCEPT !.dataSocket = "listen",
                                          !.dataPortMode = "PORT",
                                          !.startPoint = 0])
  /\ SendRestOrCommand
  /\ UNCHANGED <<link, wire, srv, abandoned>>

PASVAccepted ==
  /\ ~UsesPORT
  /\ GetResponse("open", {2}, [cip EXCEPT !.startPoint = 0])
  /\ NextReply.verb = "PASV"
  /\ pc' = "connect"
  /\ UNCHANGED <<op, cmdQ, link, wire, srv, abandoned>>

\* A 2xx reply that names no port leaves servDataAddr at the server's control
\* address, so the connect() reaches a second control connection ("bogus").
PASVNamesNoPort ==
  /\ ~UsesPORT
  /\ GetResponse("open", {2}, [cip EXCEPT !.dataSocket = "bogus",
                                          !.hasPASV = "available",
                                          !.startPoint = 0])
  /\ NextReply.verb # "PASV"
  /\ SendRestOrCommand
  /\ UNCHANGED <<link, wire, srv, abandoned>>

OpenRefused ==
  /\ GetResponse("open", {1, 3, 4, 5}, PASVRefused(cip))
  /\ IF ~UsesPORT /\ cip.dataPortMode = "FALLBACK"
       THEN /\ UNCHANGED <<pc, op, link, wire, srv>>
            /\ Send("PORT", 0)
       ELSE StartFails
  /\ UNCHANGED abandoned

OpenReply == PORTAccepted \/ PASVAccepted \/ PASVNamesNoPort \/ OpenRefused

\* SConnect to the port the server named.
Connected ==
  /\ pc = "connect"
  /\ srv.state = "ready" /\ srv.port = op.no
  /\ cip' = [cip EXCEPT !.dataSocket = "open", !.hasPASV = "available"]
  /\ link' = "up" /\ wire' = 0
  /\ SendRestOrCommand
  /\ UNCHANGED <<repQ, srv, abandoned>>

\* The connect times out or is refused: the loop asks for another port until
\* the attempts are used up.
ConnectAgain ==
  /\ pc = "connect" /\ op.tries > 1
  /\ op' = [op EXCEPT !.tries = @ - 1]
  /\ Send("PASV", 0)
  /\ pc' = "open"
  /\ UNCHANGED <<cip, repQ, link, wire, srv, abandoned>>

ConnectFails ==
  /\ pc = "connect" /\ op.tries = 1 /\ cip.dataPortMode # "FALLBACK"
  /\ StartFails
  /\ UNCHANGED <<cip, repQ, abandoned>>

\* FALLBACK goes back to tryPort2, which sends PORT if PASV has never worked.
ConnectFallsBack ==
  /\ pc = "connect" /\ op.tries = 1
  /\ cip.dataPortMode = "FALLBACK" /\ cip.hasPASV = "unknown"
  /\ cip' = [cip EXCEPT !.hasPASV = "unavailable"]
  /\ UNCHANGED op
  /\ Send("PORT", 0)
  /\ pc' = "open"
  /\ UNCHANGED <<repQ, link, wire, srv, abandoned>>

\* If PASV has worked before, the loop is entered with no attempt left, and its
\* new, unconnected socket is what OpenDataConnection returns.
ConnectExhausted ==
  /\ pc = "connect" /\ op.tries = 1
  /\ cip.dataPortMode = "FALLBACK" /\ cip.hasPASV = "available"
  /\ cip' = [cip EXCEPT !.dataSocket = "unconnected"]
  /\ SendRestOrCommand
  /\ UNCHANGED <<repQ, link, wire, srv, abandoned>>

Connect ==
  Connected \/ ConnectAgain \/ ConnectFails \/ ConnectFallsBack \/ ConnectExhausted

\* Mutant of RestReply: the start point stays when the server refuses REST.
RestIgnored ==
  /\ GetResponse("rest", {1, 2, 3, 4, 5}, [cip EXCEPT !.startPoint = op.start])
  /\ UNCHANGED op
  /\ Send(op.cmd, 0)
  /\ pc' = "start"
  /\ UNCHANGED <<link, wire, srv, abandoned>>

\* FTPSetStartOffset's outcome decides where the transfer starts, and with a
\* server that lacks REST turns STOR into APPE.
RestReply ==
  \E ok \in BOOLEAN : \E has \in LearnREST(ok) :
    LET append == ~ok /\ op.kind = "STOR" /\ UseAPPE IN
    /\ GetResponse("rest", IF ok THEN {1, 2, 3} ELSE {4, 5},
                   [cip EXCEPT !.startPoint = IF ok \/ append THEN op.start ELSE 0,
                               !.hasREST = has])
    /\ op' = [op EXCEPT !.cmd = IF append THEN "APPE" ELSE op.kind]
    /\ Send(op'.cmd, IF append THEN op.start ELSE 0)
    /\ pc' = "start"
    /\ UNCHANGED <<link, wire, srv, abandoned>>

\* FTPInitIOTimer, when the transfer proper begins.
Begun(c) == [c EXCEPT !.dataTimedOut = FALSE]

\* A refused STOR with a start point is tried again as REST 0 and APPE.
RetryAsAPPE == /\ pc = "start" /\ op.cmd = "STOR"
               /\ UseAPPE /\ cip.startPoint # 0

StartThenAccept(p) ==
  /\ cip.dataPortMode = "PORT"
  /\ GetResponse(p, {1, 2}, cip)
  /\ pc' = "accept"
  /\ UNCHANGED <<op, cmdQ, link, wire, srv, abandoned>>

StartThenTransfer(p) ==
  /\ cip.dataPortMode # "PORT"
  /\ GetResponse(p, {1, 2}, Begun(cip))
  /\ pc' = "xfer"
  /\ UNCHANGED <<op, cmdQ, link, wire, srv, abandoned>>

StartRetried(p) ==
  /\ RetryAsAPPE
  /\ GetResponse(p, {3, 4, 5}, cip)
  /\ op' = [op EXCEPT !.cmd = "APPE"]
  /\ Send("REST", 0)
  /\ pc' = "rest0"
  /\ UNCHANGED <<link, wire, srv, abandoned>>

StartRefused(p) ==
  /\ ~RetryAsAPPE
  /\ GetResponse(p, {3, 4, 5}, Closed(cip))
  /\ StartFails
  /\ UNCHANGED abandoned

StartReply ==
  \E p \in {"start", "appe"} :
    \/ StartThenAccept(p) \/ StartThenTransfer(p)
    \/ StartRetried(p) \/ StartRefused(p)

\* Mutant of Rest0Reply: the REST 0 is sent without reading its reply.
Rest0Unread ==
  /\ pc = "rest0"
  /\ UNCHANGED op
  /\ Send("APPE", op.start)
  /\ pc' = "appe"
  /\ UNCHANGED <<cip, repQ, link, wire, srv, abandoned>>

Rest0Reply ==
  /\ GetResponse("rest0", {1, 2, 3, 4, 5}, cip)
  /\ UNCHANGED op
  /\ Send("APPE", op.start)
  /\ pc' = "appe"
  /\ UNCHANGED <<link, wire, srv, abandoned>>

Accepted ==
  /\ pc = "accept" /\ link \in {"up", "fin", "reset"}
  /\ cip' = [Begun(cip) EXCEPT !.dataSocket = "open"]
  /\ pc' = "xfer"
  /\ UNCHANGED <<op, net, srv, abandoned>>

\* The failure of AcceptDataConnection returns before the transfer's final
\* reply is read, and FTPEndDataCmd(cip, 0) does not read it either.
AcceptFails ==
  /\ pc = "accept"
  /\ cip' = Closed(cip)
  /\ abandoned' = abandoned \cup {"accept"}
  /\ StartFails
  /\ UNCHANGED repQ

Accept == Accepted \/ AcceptFails

-----------------------------------------------------------------------------
(* The transfer loops of FTPGetOneF and FTPPutOneF, and FTPEndDataCmd.      *)

\* Mutant of EndDataCmd: a transfer that has failed already is not read out.
EndDataCmdUnread(c, result) ==
  /\ cip' = Closed(c)
  /\ CloseLink
  /\ pc' = IF result = "err" THEN "idle" ELSE "final"
  /\ op' = [op EXCEPT !.result = result]
  /\ UNCHANGED <<cmdQ, repQ, srv, abandoned>>

\* FTPEndDataCmd(cip, 1): close the data connection, then read the reply.
EndDataCmd(c, result) ==
  /\ cip' = Closed(c)
  /\ CloseLink
  /\ pc' = "final"
  /\ op' = [op EXCEPT !.result = result]
  /\ UNCHANGED <<cmdQ, repQ, srv, abandoned>>

\* The server would not start where asked, and undoing the local seek fails.
UndoSeekFails ==
  /\ pc = "xfer"
  /\ op.blocks = 0 /\ op.start # 0 /\ cip.startPoint = 0
  /\ Return("err")
  /\ abandoned' = abandoned \cup {"seek"}
  /\ UNCHANGED <<cip, net, srv>>

\* Whether WaitForRemoteInput / WaitForRemoteOutput and the read or write that
\* follows find data, end of file or a broken connection.
CanReadAny == link \in {"up", "fin"} /\ cip.dataSocket = "open"    \* mutant
CanRead == link \in {"up", "fin"} /\ cip.dataSocket = "open" /\ wire > 0
AtEof == \/ link = "fin" /\ cip.dataSocket = "open" /\ wire = 0
         \/ cip.dataSocket = "bogus"
Broken == \/ link = "reset" /\ cip.dataSocket = "open"
          \/ cip.dataSocket \in {"bogus", "unconnected"}
\* What is in flight may take longer than xferTimeout to arrive.
Silent == cip.dataSocket \in {"open", "bogus"}

GetBlock ==
  /\ pc = "xfer" /\ op.kind = "RETR"
  /\ \/ CanRead /\ wire' = wire - 1
     \/ cip.dataSocket = "bogus" /\ op.blocks < FileBlocks /\ UNCHANGED wire
  /\ op' = [op EXCEPT !.blocks = @ + 1]
  /\ UNCHANGED <<pc, cip, cmdQ, repQ, link, srv, abandoned>>

\* Mutant of GetEnds: the timeout is taken for the end of the file.
GetTimesOutOk ==
  /\ pc = "xfer" /\ op.kind = "RETR"
  /\ \/ AtEof /\ EndDataCmd(cip, "ok")
     \/ Broken /\ EndDataCmd(cip, "err")
     \/ Silent /\ EndDataCmd(cip, "ok")

GetEnds ==
  /\ pc = "xfer" /\ op.kind = "RETR"
  /\ \/ AtEof /\ EndDataCmd(cip, "ok")
     \/ Broken /\ EndDataCmd(cip, "err")
     \/ CanRead /\ EndDataCmd(cip, "err")       \* the local write fails
     \/ Silent /\ EndDataCmd([cip EXCEPT !.dataTimedOut = TRUE], "err")

PutBlock ==
  /\ pc = "xfer" /\ op.kind = "STOR"
  /\ op.blocks < FileBlocks - cip.startPoint
  /\ \/ link = "up" /\ cip.dataSocket = "open" /\ wire' = wire + 1
     \/ cip.dataSocket = "bogus" /\ UNCHANGED wire
  /\ op' = [op EXCEPT !.blocks = @ + 1]
  /\ UNCHANGED <<pc, cip, cmdQ, repQ, link, srv, abandoned>>

\* All is written, or the local read fails: shutdown() the writing side.
PutEnds ==
  /\ pc = "xfer" /\ op.kind = "STOR"
  /\ \/ op.blocks = FileBlocks - cip.startPoint /\ UNCHANGED op
     \/ op' = [op EXCEPT !.result = "err"]
  /\ link' = IF cip.dataSocket = "open" /\ link = "up" THEN "half" ELSE link
  /\ pc' = "eofwait"
  /\ UNCHANGED <<cip, cmdQ, repQ, wire, srv, abandoned>>

PutBreaks ==
  /\ pc = "xfer" /\ op.kind = "STOR"
  /\ \/ (Broken \/ AtEof) /\ EndDataCmd(cip, "err")
     \/ Silent /\ EndDataCmd([cip EXCEPT !.dataTimedOut = TRUE], "err")

\* FTPPutOneF waits for the server to close the data connection, to be able
\* to time out a small put; the outcome of the put does not depend on it.
PutDone ==
  /\ pc = "eofwait"
  /\ \/ (Broken \/ link = "fin") /\ EndDataCmd(cip, op.result)
     \/ Silent /\ EndDataCmd([cip EXCEPT !.dataTimedOut = TRUE], op.result)
     \/ Silent /\ EndDataCmd([cip EXCEPT !.cancelXfer = TRUE], op.result)

FinalReply ==
  \E ok \in BOOLEAN :
    /\ GetResponse("final", IF ok THEN {2} ELSE {1, 3, 4, 5}, cip)
    /\ Return(IF ok THEN op.result ELSE "err")
    /\ UNCHANGED <<cmdQ, link, wire, srv, abandoned>>

-----------------------------------------------------------------------------
(* FTPAbortDataTransfer, when the progress callback has set cancelXfer.     *)

Abort ==
  /\ pc = "xfer"
  /\ cip' = [cip EXCEPT !.cancelXfer = TRUE, !.canceling = TRUE]
  /\ op' = [op EXCEPT !.result = "err"]
  /\ Send("ABOR", 0)
  /\ pc' = "abort1"
  /\ UNCHANGED <<repQ, link, wire, srv, abandoned>>

\* Back to the transfer loop, or to FTPCloseHost, which goes on to say QUIT.
AbortReturns(p) ==
  /\ UNCHANGED op
  /\ IF op.kind = "QUIT" THEN Send("QUIT", 0) /\ pc' = "quit"
                         ELSE UNCHANGED cmdQ /\ pc' = p

\* WaitResponse selects on the socket, whatever SReadline has buffered.
AbortSeen ==
  /\ pc \in {"abort1", "abort2"} /\ SocketReadable
  /\ pc' = "abortReply"
  /\ UNCHANGED <<cip, op, net, srv, abandoned>>

\* The first wait times out: close the data connection and wait again.
AbortCloses ==
  /\ pc = "abort1" /\ ~SocketReadable
  /\ cip' = Closed(cip)
  /\ CloseLink
  /\ pc' = "abort2"
  /\ UNCHANGED <<op, cmdQ, repQ, srv, abandoned>>

\* Mutant of AbortGivesUp: canceling is not reset.
AbortStuck ==
  /\ pc = "abort2" /\ ~SocketReadable
  /\ abandoned' = abandoned \cup {"abort"}
  /\ AbortReturns("final")
  /\ UNCHANGED <<cip, repQ, link, wire, srv>>

AbortGivesUp ==
  /\ pc = "abort2" /\ ~SocketReadable
  /\ abandoned' = abandoned \cup {"abort"}
  /\ cip' = [cip EXCEPT !.canceling = FALSE]
  /\ AbortReturns("final")
  /\ UNCHANGED <<repQ, link, wire, srv>>

\* The server has hung up, and ABOR cannot be written.
AbortUnsent ==
  /\ pc = "abort1" /\ srv.state = "gone" /\ cmdQ # <<>>
  /\ cip' = [Closed(cip) EXCEPT !.canceling = FALSE]
  /\ CloseLink
  /\ AbortReturns("final")
  /\ UNCHANGED <<repQ, srv, abandoned>>

AbortWait == AbortSeen \/ AbortCloses \/ AbortGivesUp \/ AbortUnsent

\* The abort has been answered.  canceled = 1 makes FTPEndDataCmd(cip, 1)
\* return at once: an answer that was the transfer's own leaves ABOR's unread.
Aborted(p, Codes) ==
  /\ GetResponse(p, Codes, [Closed(cip) EXCEPT !.canceled = TRUE,
                                               !.canceling = FALSE])
  /\ CloseLink
  /\ abandoned' = IF NextReply.verb = "ABOR" THEN abandoned
                                             ELSE abandoned \cup {"abort"}
  /\ AbortReturns("idle")
  /\ UNCHANGED srv

\* A 4xx, the aborted transfer's own reply: ABOR's is to follow.
TransferAborted ==
  /\ GetResponse("abortReply", {4}, cip)
  /\ pc' = "abortReply2"
  /\ UNCHANGED <<op, cmdQ, link, wire, srv, abandoned>>

AbortReply ==
  \/ TransferAborted
  \/ Aborted("abortReply", {1, 2, 3, 5})
  \/ Aborted("abortReply2", {1, 2, 3, 4, 5})

-----------------------------------------------------------------------------
(* The end of a session, and the next one.                                  *)

\* FTPShutdownHost: both connections are closed and the buffers dropped.
ShutdownHost(errNo) ==
  /\ cip' = [PASVRefused(cip) EXCEPT !.ctrlSocket = "closed", !.ctrlSrl = <<>>,
                        !.dataSocket = "closed", !.canceling = FALSE,
                        !.errNo = errNo]
  /\ cmdQ' = <<>> /\ repQ' = <<>> /\ link' = "none" /\ wire' = 0
  /\ srv' = [srv EXCEPT !.state = "gone"]
  /\ pc' = IF pc \in Aborting /\ op.kind # "QUIT" THEN "final" ELSE "idle"
  /\ op' = [op EXCEPT !.result = "err"]
  /\ UNCHANGED abandoned

\* GetResponse's ways out that call FTPShutdownHost.
GiveUpAtOnce ==
  /\ pc \in Awaiting /\ cip.ctrlSocket = "open"
  /\ cip.dataTimedOut /\ ~SocketReadable
  /\ ShutdownHost("kErrControlTimedOut")

\* Mutant of ReplyTimesOut: no timeout on the reply that ends a transfer.
StartTimesOut ==
  /\ pc \in Starting \cup Simple /\ cip.ctrlSocket = "open"
  /\ ~cip.dataTimedOut /\ ~HaveReply /\ srv.state # "gone"
  /\ ShutdownHost("kErrControlTimedOut")

ReplyTimesOut ==
  /\ pc \in Awaiting /\ cip.ctrlSocket = "open"
  /\ ~cip.dataTimedOut /\ ~HaveReply /\ srv.state # "gone"
  /\ ShutdownHost("kErrControlTimedOut")

ReplyIsEof ==
  /\ pc \in Awaiting /\ cip.ctrlSocket = "open"
  /\ ~HaveReply /\ srv.state = "gone"
  /\ ShutdownHost("kErrRemoteHostClosedConnection")

ReplyIs421 ==
  /\ pc \in Awaiting /\ cip.ctrlSocket = "open"
  /\ HaveReply /\ NextReply.code = 421
  /\ cip.dataTimedOut => SocketReadable
  /\ ShutdownHost("kErrRemoteHostClosedConnection")

\* FTPEndDataCmd after an abort that ended in FTPShutdownHost.
ReadClosed ==
  /\ pc = "final" /\ cip.ctrlSocket = "closed"
  /\ Return("err")
  /\ UNCHANGED <<cip, net, srv, abandoned>>

\* SWrite fails on a connection the server has closed: the call fails, and
\* the control socket stays open.  The outcome of sending REST 0 and APPE is
\* not looked at.
WriteFails ==
  /\ pc \in (Starting \ {"rest0", "appe"}) \cup Simple
  /\ srv.state = "gone" /\ cmdQ # <<>> /\ cip.ctrlSocket = "open"
  /\ cmdQ' = <<>>
  /\ Return("err")
  /\ cip' = IF pc \in Simple \cup {"type"} THEN cip ELSE PASVRefused(Closed(cip))
  /\ IF pc \in Simple \cup {"type"} THEN UNCHANGED <<link, wire>> ELSE CloseLink
  /\ UNCHANGED <<repQ, srv, abandoned>>

\* FTPCloseHost: abort what is still open, say QUIT, close.
FTPCloseHost ==
  /\ NewOp("QUIT", "A", 0)
  /\ IF cip.dataSocket = "closed"
       THEN Send("QUIT", 0) /\ pc' = "quit" /\ UNCHANGED cip
       ELSE /\ Send("ABOR", 0) /\ pc' = "abort1"
            /\ cip' = [cip EXCEPT !.canceling = TRUE]
  /\ UNCHANGED <<repQ, link, wire, srv, abandoned>>

QuitReply ==
  /\ pc = "quit" /\ cip.ctrlSocket = "open" /\ HaveReply
  /\ cip.dataTimedOut => SocketReadable
  /\ ShutdownHost("none")

\* FTPOpenHost: FTPResetStatusVariables, a new connection and a login.
FTPOpenHost ==
  /\ pc = "idle" /\ cip.ctrlSocket = "closed" /\ op.no < MaxOps
  /\ cip' = FreshCip(cip.dataPortMode, cip.hasPASV, cip.hasREST)
  /\ srv' = FreshSrv(srv.rest)
  /\ abandoned' = {}
  /\ UNCHANGED <<pc, op, net>>

-----------------------------------------------------------------------------
(* The server (external), and the network.                                  *)

Answer(c, code) == [code |-> code, verb |-> c.verb, op |-> c.op]

\* A command handled when no transfer is running.
SrvCommand ==
  /\ srv.state = "ready" /\ cmdQ # <<>>
  /\ cmdQ' = Tail(cmdQ)
  /\ LET c == Head(cmdQ)
         Yes(code, s) == repQ' = Append(repQ, Answer(c, code)) /\ srv' = s
         No(code) == Yes(code, srv)
         Begin == [srv EXCEPT !.state = "opening", !.off = 0, !.blocks = 0,
                     !.job = [verb |-> c.verb, op |-> c.op,
                              off |-> IF c.verb = "APPE" THEN c.off
                                                         ELSE srv.off]]
     IN \/ c.verb \in {"CMD", "ABOR", "QUIT"} /\ \E r \in {2, 5} : No(r)
        \/ c.verb = "TYPE" /\ (Yes(2, [srv EXCEPT !.type = c.type]) \/ No(5))
        \/ c.verb \in {"PORT", "PASV"}
             /\ (Yes(2, [srv EXCEPT !.port = c.op]) \/ No(5))
        \/ c.verb = "REST" /\ IF srv.rest THEN Yes(3, [srv EXCEPT !.off = c.off])
                                          ELSE No(5)
        \/ c.verb \in Transfers
             /\ Yes(5, [srv EXCEPT !.off = 0])
        \/ c.verb \in Transfers /\ srv.port # 0 /\ Yes(1, Begin)
  /\ UNCHANGED <<pc, cip, op, link, wire, abandoned>>

SrvEnds(codes, l) ==
  /\ repQ' = repQ \o [i \in 1..Len(codes) |->
                        IF i = 1 THEN Answer(srv.job, codes[1])
                                 ELSE Answer(Head(cmdQ), codes[i])]
  /\ srv' = [srv EXCEPT !.state = "ready", !.port = 0]
  /\ cmdQ' = IF Len(codes) = 1 THEN cmdQ ELSE Tail(cmdQ)
  /\ LinkBecomes(l)
  /\ UNCHANGED <<pc, cip, op, abandoned>>

Gone(l) == IF link \in {"up", "half"} THEN l ELSE "none"

\* In PORT mode the server connects to the socket the library listens on; in
\* PASV mode the library has connected already.
SrvConnect ==
  /\ srv.state = "opening"
  /\ \/ /\ link \in {"up", "cut"}
        /\ UNCHANGED <<link, wire>>
     \/ /\ cip.dataSocket = "listen" /\ link = "none" /\ srv.port = op.no
        /\ link' = "up" /\ wire' = 0
  /\ srv' = [srv EXCEPT !.state = "xfer"]
  /\ UNCHANGED <<pc, cip, op, cmdQ, repQ, abandoned>>

SrvCannotConnect == srv.state = "opening" /\ SrvEnds(<<4>>, Gone("reset"))

SrvMove ==
  /\ srv.state = "xfer"
  /\ \/ /\ srv.job.verb = "RETR" /\ link = "up"
        /\ srv.job.off + srv.blocks < FileBlocks
        /\ wire' = wire + 1
     \/ /\ srv.job.verb # "RETR" /\ link \in {"up", "half", "cut"}
        /\ wire > 0
        /\ wire' = wire - 1
  /\ srv' = [srv EXCEPT !.blocks = @ + 1]
  /\ UNCHANGED <<pc, cip, op, cmdQ, repQ, link, abandoned>>

\* Everything sent, or everything up to the library's end of file stored.
SrvDone ==
  /\ srv.state = "xfer"
  /\ IF srv.job.verb = "RETR" THEN srv.job.off + srv.blocks = FileBlocks
                              ELSE link \in {"half", "cut"} /\ wire = 0
  /\ SrvEnds(<<2>>, Gone("fin"))

\* The server fails, or sees the data connection fail or be closed.
SrvFails == srv.state = "xfer" /\ \E l \in {"fin", "reset"} : SrvEnds(<<4>>, Gone(l))

\* The urgent ABOR is noticed: 426 for the transfer, 226 for the ABOR.
SrvAborts ==
  /\ srv.state \in {"opening", "xfer"}
  /\ cmdQ # <<>> /\ Head(cmdQ).verb = "ABOR"
  /\ SrvEnds(<<4, 2>>, Gone("fin"))

\* The server or the network hangs up, perhaps with a parting 421.
SrvHangsUp ==
  /\ srv.state # "gone"
  /\ srv' = [srv EXCEPT !.state = "gone"]
  /\ \/ UNCHANGED repQ
     \/ repQ' = Append(repQ, [code |-> 421, verb |-> "QUIT", op |-> op.no])
  /\ LinkBecomes(Gone("reset"))
  /\ UNCHANGED <<pc, cip, op, cmdQ, abandoned>>

-----------------------------------------------------------------------------
(* The specification.                                                       *)

\* What the library does, once called, without waiting for the application.
Library ==
  \/ CmdReply \/ CheckReply \/ TypeReply \/ OpenReply \/ Connect \/ RestReply
  \/ StartReply \/ Rest0Reply \/ Accept
  \/ UndoSeekFails \/ GetBlock \/ GetEnds \/ PutBlock \/ PutEnds \/ PutBreaks
  \/ PutDone \/ FinalReply \/ AbortWait \/ AbortReply
  \/ GiveUpAtOnce \/ ReplyTimesOut \/ ReplyIsEof \/ ReplyIs421
  \/ ReadClosed \/ WriteFails \/ QuitReply

Application ==
  FTPCmd \/ FTPCheckForRestart \/ FTPStartDataCmd \/ Abort \/ FTPCloseHost \/ FTPOpenHost

Server ==
  \/ SrvCommand \/ SrvConnect \/ SrvCannotConnect \/ SrvMove \/ SrvDone
  \/ SrvFails \/ SrvAborts \/ SrvHangsUp

Next == Library \/ Application \/ Server

Spec == Init /\ [][Next]_vars

\* The library's thread runs, and each of its waits has a timeout.  Nothing is
\* asked of the server, of the network or of the application.
FairSpec == Spec /\ WF_vars(Library)

-----------------------------------------------------------------------------
(* Properties.                                                              *)

CipType ==
  [ctrlSocket : {"open", "closed"}, ctrlSrl : Seq(Reply),
   dataSocket : {"closed", "listen", "open", "bogus", "unconnected"},
   dataPortMode : {"PORT", "PASV", "FALLBACK"},
   hasPASV : {"unknown", "available", "unavailable"},
   hasREST : {"unknown", "available", "unavailable"},
   curTransferType : {"A", "I"}, startPoint : Nat,
   cancelXfer : BOOLEAN, canceling : BOOLEAN, canceled : BOOLEAN,
   dataTimedOut : BOOLEAN,
   errNo : {"none", "kErrControlTimedOut", "kErrRemoteHostClosedConnection"}]

OpType ==
  [no : Nat, kind : Kinds \cup {"CMD", "QUIT"}, type : {"A", "I"}, start : Nat,
   cmd : Verbs \cup {"CHECK"}, result : {"ok", "err"}, blocks : Nat, tries : Nat]

SrvType ==
  [state : {"ready", "opening", "xfer", "gone"}, type : {"A", "I"},
   rest : BOOLEAN, off : Nat, port : Nat,
   job : [verb : Verbs, op : Nat, off : Nat], blocks : Nat]

\* The state of the session is well formed.
TypeOK ==
  /\ pc \in PCs
  /\ cip \in CipType
  /\ op \in OpType
  /\ cmdQ \in Seq(Command)
  /\ repQ \in Seq(Reply)
  /\ link \in {"none", "up", "half", "fin", "reset", "cut"}
  /\ wire \in Nat
  /\ srv \in SrvType
  /\ abandoned \subseteq {"accept", "abort", "seek"}

\* The verb whose reply the library takes the next line to be.
Expected == CASE pc \in {"cmd", "final", "start", "appe"} -> {op.cmd}
              [] pc \in {"type", "check"} -> {"TYPE"}
              [] pc = "open" -> {IF UsesPORT THEN "PORT" ELSE "PASV"}
              [] pc \in {"rest", "rest0", "check1", "check0"} -> {"REST"}
              [] pc = "quit" -> {"QUIT"}
              [] pc = "abortReply" -> {op.cmd, "ABOR"}
              [] OTHER -> {"ABOR"}

\* The line a GetResponse call is about to read answers the command it was
\* called for: replies are matched to commands by order alone, and only the
\* recorded paths (a failed accept, an abort that was given up or that read one
\* of two replies, a failed seek) ever break the pairing.
RepliesPaired ==
  (pc \in Awaiting /\ HaveReply /\ abandoned = {} /\ NextReply.code # 421)
    => NextReply.op = op.no /\ NextReply.verb \in Expected

\* Between calls nothing is under way: no command unanswered, no reply unread
\* in the socket or in SReadline's buffer, no transfer running at the server.
QuietWhenIdle ==
  (pc = "idle" /\ cip.ctrlSocket = "open" /\ srv.state # "gone" /\ abandoned = {})
    => cmdQ = <<>> /\ repQ = <<>> /\ cip.ctrlSrl = <<>> /\ srv.state = "ready"

\* No call leaves a data socket open behind it, on any of its error paths but
\* the failed seek, and none survives the control connection.
NoSocketLeft ==
  /\ pc = "idle" => cip.dataSocket = "closed" \/ "seek" \in abandoned
  /\ cip.ctrlSocket = "closed" => cip.dataSocket = "closed"

\* A retrieve that reports success delivered the file to its last block, and a
\* store that reports success left every block with the server: no mixture of
\* timeouts, broken connections, aborts and late replies is taken for success.
SuccessIsWhole ==
  (pc = "idle" /\ op.result = "ok" /\ abandoned = {}) =>
    /\ op.kind = "RETR" => cip.startPoint + op.blocks = FileBlocks
    /\ op.kind = "STOR" => srv.job.off + srv.blocks = FileBlocks

\* Data flows in the type and from the offset both ends mean: the cached
\* transfer type and the start point left by REST, APPE and their refusals are
\* the server's.
EndsAgree ==
  (pc \in {"accept", "xfer", "eofwait"} /\ abandoned = {}
     /\ srv.job.op = op.no /\ cip.dataSocket = "open") =>
    /\ srv.type = op.type /\ cip.curTransferType = op.type
    /\ srv.job.off = cip.startPoint

\* The canceling field tells a progress meter that an abort is under way, on
\* every way through the abort, and an aborted transfer never reports success
\* although FTPEndDataCmd then returns kNoErr.
CancelFlags ==
  /\ cip.canceling <=> pc \in Aborting
  /\ (pc = "idle" /\ op.kind \in Transfers /\ cip.canceled) => op.result = "err"

\* All of the above that PASV and its fallback might disturb.
SessionInv ==
  RepliesPaired /\ QuietWhenIdle /\ NoSocketLeft /\ SuccessIsWhole /\ EndsAgree

\* Every call returns, whatever the server, the network and the user do: each
\* wait ends with what it waits for or with its timeout.
CallsReturn == pc # "idle" ~> pc = "idle"
=============================================================================
