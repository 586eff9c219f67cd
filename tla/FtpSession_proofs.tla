-------------------------- MODULE FtpSession_proofs --------------------------
(***************************************************************************)
(* Proofs about FtpSession, for every value of its constants: its types    *)
(* and its flags, that it pairs replies with commands, and that the two    *)
(* ends of the data connection agree and a transfer that reports success   *)
(* is whole.                                                               *)
(***************************************************************************)
EXTENDS FtpSession, SequenceTheorems, TLAPS

-----------------------------------------------------------------------------
(* What SReadline does to the two buffers a reply passes through.           *)

\* Reading a line changes nothing of c but SReadline's buffer, and both
\* buffers stay sequences of replies.
LEMMA ReceiveReads ==
  ASSUME TypeOK, HaveReply, NEW c, Receive(c)
  PROVE  /\ repQ' \in Seq(Reply)
         /\ \E srl \in Seq(Reply) : cip' = [c EXCEPT !.ctrlSrl = srl]
<1>1. cip.ctrlSrl \in Seq(Reply) /\ repQ \in Seq(Reply)
  BY DEF TypeOK, CipType
<1>2. CASE cip.ctrlSrl # <<>> /\ cip' = [c EXCEPT !.ctrlSrl = Tail(cip.ctrlSrl)] /\ UNCHANGED repQ
  BY <1>1, <1>2, HeadTailProperties
<1>3. ASSUME NEW n \in 1..Len(repQ), cip' = [c EXCEPT !.ctrlSrl = SubSeq(repQ, 2, n)],
             repQ' = SubSeq(repQ, n + 1, Len(repQ))
      PROVE  /\ repQ' \in Seq(Reply)
             /\ \E srl \in Seq(Reply) : cip' = [c EXCEPT !.ctrlSrl = srl]
  <2>1. Len(repQ) \in Nat /\ \A i \in 1..Len(repQ) : repQ[i] \in Reply
    BY <1>1, LenProperties, ElementOfSeq
  <2>2. n \in Int /\ (\A i \in 2..n : repQ[i] \in Reply)
                  /\ (\A i \in n+1..Len(repQ) : repQ[i] \in Reply)
    BY <2>1
  <2>3. SubSeq(repQ, 2, n) \in Seq(Reply)
    BY <2>2, SubSeqProperties
  <2>4. SubSeq(repQ, n + 1, Len(repQ)) \in Seq(Reply)
    BY <2>1, <2>2, SubSeqProperties
  <2> QED
    BY <1>3, <2>3, <2>4
<1> QED
  BY <1>2, <1>3 DEF Receive

\* A reply read by GetResponse.
LEMMA GetResponseReads ==
  ASSUME TypeOK, NEW p, NEW Codes, NEW c, GetResponse(p, Codes, c)
  PROVE  /\ pc = p /\ cip.ctrlSocket = "open"
         /\ repQ' \in Seq(Reply)
         /\ \E srl \in Seq(Reply) : cip' = [c EXCEPT !.ctrlSrl = srl]
BY ReceiveReads DEF GetResponse

-----------------------------------------------------------------------------
(* The inductive invariant.                                                 *)

\* Only a retrieve or a store reaches the steps of a transfer; an abort serves
\* one of them, or FTPCloseHost.
KindOK ==
  /\ pc \in Starting \cup {"connect", "accept", "xfer", "eofwait", "final"}
       => op.kind \in Transfers /\ op.cmd \in Transfers
  /\ pc \in Aborting => \/ op.kind = "QUIT"
                        \/ op.kind \in Transfers /\ op.cmd \in Transfers

\* Where the data socket is known to be closed, while a call runs too, and
\* where the library can be once the control connection is.
SocketOK ==
  /\ pc \in {"idle", "type", "final", "quit"} \cup Simple
       => cip.dataSocket = "closed" \/ "seek" \in abandoned
  /\ pc \in {"open", "connect", "abort2"} => cip.dataSocket = "closed"
  /\ cip.ctrlSocket = "closed"
       => cip.dataSocket = "closed" /\ pc \in {"idle", "final"}

\* canceled is stale until FTPStartDataCmd3 resets it, after TYPE; from then on
\* it is set only on the way out of an aborted transfer.
FlagOK ==
  /\ cip.canceling <=> pc \in Aborting
  /\ (op.kind \in Transfers /\ cip.canceled)
       => pc = "type" \/ (pc = "idle" /\ op.result = "err")
  /\ (pc \in Aborting /\ op.kind \in Transfers) => op.result = "err"

IInv == TypeOK /\ KindOK /\ SocketOK /\ FlagOK

\* Reading a reply leaves every field the invariant speaks of as c has it.
LEMMA ReadFields ==
  ASSUME TypeOK, NEW p, NEW Codes, NEW c \in CipType, GetResponse(p, Codes, c)
  PROVE  /\ pc = p /\ cip.ctrlSocket = "open"
         /\ repQ' \in Seq(Reply)
         /\ cip' \in CipType
         /\ cip'.ctrlSocket = c.ctrlSocket
         /\ cip'.dataSocket = c.dataSocket
         /\ cip'.canceling = c.canceling
         /\ cip'.canceled = c.canceled
<1>1. PICK srl \in Seq(Reply) : cip' = [c EXCEPT !.ctrlSrl = srl]
  BY GetResponseReads
<1>2. cip' \in CipType
  BY <1>1 DEF CipType
<1>3. /\ cip'.ctrlSocket = c.ctrlSocket
      /\ cip'.dataSocket = c.dataSocket
      /\ cip'.canceling = c.canceling
      /\ cip'.canceled = c.canceled
  BY <1>1 DEF CipType
<1> QED
  BY <1>2, <1>3, GetResponseReads

\* What the records' updates leave as it was.
LEMMA ClosedFields ==
  ASSUME NEW c \in CipType
  PROVE  /\ Closed(c) \in CipType
         /\ Closed(c).dataSocket = "closed" /\ Closed(c).ctrlSocket = c.ctrlSocket
         /\ Closed(c).canceling = c.canceling /\ Closed(c).canceled = c.canceled
BY DEF CipType, Closed

\* The flags FTPStartDataCmd3 resets, and no others.
LEMMA ResetFields ==
  ASSUME NEW c \in CipType
  PROVE  /\ Reset(c) \in CipType
         /\ Reset(c).dataSocket = "closed" /\ Reset(c).ctrlSocket = c.ctrlSocket
         /\ Reset(c).canceling = c.canceling /\ Reset(c).canceled = FALSE
BY DEF CipType, Reset

\* FTPInitIOTimer resets dataTimedOut alone.
LEMMA BegunFields ==
  ASSUME NEW c \in CipType
  PROVE  /\ Begun(c) \in CipType
         /\ Begun(c).dataSocket = c.dataSocket /\ Begun(c).ctrlSocket = c.ctrlSocket
         /\ Begun(c).canceling = c.canceling /\ Begun(c).canceled = c.canceled
BY DEF CipType, Begun

\* A refused PASV is remembered, and nothing else changes.
LEMMA RefusedFields ==
  ASSUME NEW c \in CipType
  PROVE  /\ PASVRefused(c) \in CipType
         /\ PASVRefused(c).dataSocket = c.dataSocket
         /\ PASVRefused(c).ctrlSocket = c.ctrlSocket
         /\ PASVRefused(c).canceling = c.canceling
         /\ PASVRefused(c).canceled = c.canceled
BY DEF CipType, PASVRefused

\* Caching a transfer type.
LEMMA TypeSetFields ==
  ASSUME NEW c \in CipType, NEW t \in {"A", "I"}
  PROVE  /\ [c EXCEPT !.curTransferType = t] \in CipType
         /\ [c EXCEPT !.curTransferType = t].dataSocket = c.dataSocket
         /\ [c EXCEPT !.curTransferType = t].ctrlSocket = c.ctrlSocket
         /\ [c EXCEPT !.curTransferType = t].canceling = c.canceling
         /\ [c EXCEPT !.curTransferType = t].canceled = c.canceled
BY DEF CipType

\* Caching what is known of REST.
LEMMA HasRESTFields ==
  ASSUME NEW c \in CipType, NEW has \in {"unknown", "available", "unavailable"}
  PROVE  /\ [c EXCEPT !.hasREST = has] \in CipType
         /\ [c EXCEPT !.hasREST = has].dataSocket = c.dataSocket
         /\ [c EXCEPT !.hasREST = has].ctrlSocket = c.ctrlSocket
         /\ [c EXCEPT !.hasREST = has].canceling = c.canceling
         /\ [c EXCEPT !.hasREST = has].canceled = c.canceled
BY DEF CipType

\* What FTPSetStartOffset learns is one of the three things that can be known.
LEMMA LearnedFields ==
  ASSUME cip \in CipType, NEW ok \in BOOLEAN, NEW has \in LearnREST(ok)
  PROVE  /\ [cip EXCEPT !.hasREST = has] \in CipType
         /\ [cip EXCEPT !.hasREST = has].dataSocket = cip.dataSocket
         /\ [cip EXCEPT !.hasREST = has].ctrlSocket = cip.ctrlSocket
         /\ [cip EXCEPT !.hasREST = has].canceling = cip.canceling
         /\ [cip EXCEPT !.hasREST = has].canceled = cip.canceled
<1>1. has \in {"unknown", "available", "unavailable"}
  BY DEF LearnREST, CipType
<1> QED
  BY <1>1, HasRESTFields

\* A call that returns leaves its kind and command as they were.
LEMMA ReturnFields ==
  ASSUME op \in OpType, NEW result \in {"ok", "err"}, Return(result)
  PROVE  /\ op' \in OpType /\ op'.kind = op.kind /\ op'.cmd = op.cmd
         /\ op'.result = result /\ pc' = "idle"
BY DEF OpType, Return

\* A command that is sent is one of the commands.
LEMMA SendType ==
  ASSUME TypeOK, op' \in OpType, NEW verb \in Verbs, NEW off \in Nat, Send(verb, off)
  PROVE  cmdQ' \in Seq(Command)
<1>1. [verb |-> verb, type |-> op'.type, off |-> off, op |-> op'.no] \in Command
  BY DEF OpType, Command
<1> QED
  BY <1>1 DEF TypeOK, Send

\* Closing the data connection leaves the other end in a known state.
LEMMA CloseLinkType ==
  ASSUME TypeOK, CloseLink
  PROVE  link' \in {"none", "up", "half", "fin", "reset", "cut"} /\ wire' \in Nat
BY DEF CloseLink, LinkBecomes, Unlinked, TypeOK

\* The way out of FTPStartDataCmd3 at "done".
LEMMA StartFailsFields ==
  ASSUME TypeOK, StartFails
  PROVE  /\ op' \in OpType /\ op'.kind = op.kind /\ op'.result = "err" /\ pc' = "idle"
         /\ link' \in {"none", "up", "half", "fin", "reset", "cut"} /\ wire' \in Nat
         /\ UNCHANGED <<cmdQ, srv>>
BY ReturnFields, CloseLinkType DEF StartFails, TypeOK

\* REST or the transfer command is sent, for a retrieve or a store.
LEMMA SendRestOrCommandFields ==
  ASSUME TypeOK, KindOK, pc \in {"open", "connect"}, SendRestOrCommand
  PROVE  /\ op' = op /\ pc' \in {"rest", "start"} /\ cmdQ' \in Seq(Command)
         /\ op.kind \in Transfers /\ op.cmd \in Transfers
<1>1. op' = op /\ op \in OpType /\ op.kind \in Verbs /\ op.start \in Nat
      /\ op.kind \in Transfers /\ op.cmd \in Transfers
  BY DEF TypeOK, OpType, KindOK, Starting, Transfers, Verbs, SendRestOrCommand
<1>2. cmdQ' \in Seq(Command)
  BY <1>1, SendType DEF SendRestOrCommand, Verbs
<1> QED
  BY <1>1, <1>2 DEF SendRestOrCommand

-----------------------------------------------------------------------------
(* Simple commands.                                                        *)

\* CmdReply preserves the invariant.
LEMMA CmdReplyStep ==
  ASSUME IInv, CmdReply
  PROVE  IInv'
<1> USE DEF IInv
<1>1. PICK ok \in BOOLEAN : /\ GetResponse("cmd", IF ok THEN {2} ELSE {1, 3, 4, 5}, cip)
                            /\ Return(IF ok THEN "ok" ELSE "err")
  BY DEF CmdReply
<1>2. UNCHANGED <<cmdQ, link, wire, srv, abandoned>>
  BY DEF CmdReply
<1>3. cip' \in CipType /\ repQ' \in Seq(Reply)
  BY <1>1, ReadFields DEF TypeOK
<1>4. TypeOK'
  BY <1>1, <1>2, <1>3 DEF TypeOK, OpType, Return, PCs
<1> QED
  BY <1>1, <1>2, <1>4, ReadFields
     DEF KindOK, SocketOK, FlagOK, TypeOK, Return, OpType, CipType, PCs, Starting, Awaiting, Aborting, Simple, Transfers

\* FTPCmd preserves the invariant.
LEMMA FTPCmdStep ==
  ASSUME IInv, FTPCmd
  PROVE  IInv'
<1> USE DEF IInv
<1>1. /\ op' \in OpType /\ op'.kind = "CMD" /\ pc = "idle" /\ cip.ctrlSocket = "open"
  BY ModeAssumption DEF FTPCmd, NewOp, TypeOK, OpType, Verbs
<1>2. pc' = "cmd" /\ Send("CMD", 0) /\ UNCHANGED <<cip, repQ, link, wire, srv, abandoned>>
  BY DEF FTPCmd
<1>3. TypeOK'
  BY <1>1, <1>2, SendType DEF TypeOK, PCs, Awaiting, Simple, Verbs
<1> QED
  BY <1>1, <1>2, <1>3
     DEF KindOK, SocketOK, FlagOK, Starting, Awaiting, Aborting, Simple, Transfers

\* FTPCheckForRestart preserves the invariant.
LEMMA FTPCheckForRestartStep ==
  ASSUME IInv, FTPCheckForRestart
  PROVE  IInv'
<1> USE DEF IInv
<1>1. /\ op' \in OpType /\ op'.kind = "CHECK" /\ pc = "idle" /\ cip.ctrlSocket = "open"
  BY ModeAssumption DEF FTPCheckForRestart, NewOp, TypeOK, OpType
<1>2. /\ pc' \in {"check", "check1"}
      /\ Send("TYPE", 0) \/ Send("REST", 1)
      /\ UNCHANGED <<cip, repQ, link, wire, srv, abandoned>>
  BY DEF FTPCheckForRestart
<1>3. TypeOK'
  BY <1>1, <1>2, SendType DEF TypeOK, PCs, Awaiting, Simple, Verbs
<1> QED
  BY <1>1, <1>2, <1>3
     DEF KindOK, SocketOK, FlagOK, Starting, Awaiting, Aborting, Simple, Transfers

\* CheckTypeReply preserves the invariant.
LEMMA CheckTypeReplyStep ==
  ASSUME IInv, CheckTypeReply
  PROVE  IInv'
<1> USE DEF IInv
<1>1. PICK ok \in BOOLEAN :
        GetResponse("check", IF ok THEN {2} ELSE {1, 3, 4, 5},
                    [cip EXCEPT !.curTransferType = IF ok THEN "I" ELSE @])
  BY DEF CheckTypeReply
<1> DEFINE t == IF ok THEN "I" ELSE cip.curTransferType
           c == [cip EXCEPT !.curTransferType = t]
<1>2. t \in {"A", "I"}
  BY DEF TypeOK, CipType
<1>3. /\ c \in CipType /\ c.dataSocket = cip.dataSocket /\ c.ctrlSocket = cip.ctrlSocket
      /\ c.canceling = cip.canceling /\ c.canceled = cip.canceled
  BY <1>2, TypeSetFields DEF TypeOK
<1>4. GetResponse("check", IF ok THEN {2} ELSE {1, 3, 4, 5}, c)
  BY <1>1
<1>5. /\ pc = "check" /\ cip.ctrlSocket = "open" /\ repQ' \in Seq(Reply)
      /\ cip' \in CipType /\ cip'.dataSocket = cip.dataSocket /\ cip'.ctrlSocket = "open"
      /\ cip'.canceling = cip.canceling /\ cip'.canceled = cip.canceled
  BY <1>3, <1>4, ReadFields
<1>6. pc' = "check1" /\ op' = op /\ Send("REST", 1) /\ UNCHANGED <<link, wire, srv, abandoned>>
  BY DEF CheckTypeReply
<1>7. TypeOK'
  BY <1>5, <1>6, SendType DEF TypeOK, PCs, Awaiting, Simple, Verbs
<1> QED
  BY <1>5, <1>6, <1>7 DEF KindOK, SocketOK, FlagOK, TypeOK, Starting, Simple, Aborting

\* CheckREST1Reply preserves the invariant.
LEMMA CheckREST1ReplyStep ==
  ASSUME IInv, CheckREST1Reply
  PROVE  IInv'
<1> USE DEF IInv
<1>1. PICK ok \in BOOLEAN : \E has \in LearnREST(ok) :
        GetResponse("check1", IF ok THEN {1, 2, 3} ELSE {4, 5}, [cip EXCEPT !.hasREST = has])
  BY DEF CheckREST1Reply
<1>2. PICK has \in LearnREST(ok) :
        GetResponse("check1", IF ok THEN {1, 2, 3} ELSE {4, 5}, [cip EXCEPT !.hasREST = has])
  BY <1>1
<1> DEFINE c == [cip EXCEPT !.hasREST = has]
<1>3. /\ c \in CipType /\ c.dataSocket = cip.dataSocket /\ c.ctrlSocket = cip.ctrlSocket
      /\ c.canceling = cip.canceling /\ c.canceled = cip.canceled
  BY LearnedFields DEF TypeOK
<1>4. /\ pc = "check1" /\ cip.ctrlSocket = "open" /\ repQ' \in Seq(Reply)
      /\ cip' \in CipType /\ cip'.dataSocket = cip.dataSocket /\ cip'.ctrlSocket = "open"
      /\ cip'.canceling = cip.canceling /\ cip'.canceled = cip.canceled
  BY <1>2, <1>3, ReadFields
<1>5. UNCHANGED <<link, wire, srv, abandoned>>
  BY DEF CheckREST1Reply
<1>6. CASE op' = op /\ Send("REST", 0) /\ pc' = "check0"
  <2>1. TypeOK'
    BY <1>4, <1>5, <1>6, SendType DEF TypeOK, PCs, Awaiting, Simple, Verbs
  <2> QED
    BY <1>4, <1>5, <1>6, <2>1 DEF KindOK, SocketOK, FlagOK, TypeOK, Starting, Simple, Aborting
<1>7. CASE Return("ok") /\ UNCHANGED cmdQ
  <2>1. pc' = "idle" /\ op' \in OpType /\ op'.kind = op.kind
    BY <1>7, ReturnFields DEF TypeOK
  <2>2. TypeOK'
    BY <1>4, <1>5, <1>7, <2>1 DEF TypeOK, PCs
  <2> QED
    BY <1>4, <1>5, <2>1, <2>2 DEF KindOK, SocketOK, FlagOK, TypeOK, Starting, Simple, Aborting, Transfers
<1> QED
  BY <1>6, <1>7 DEF CheckREST1Reply

\* CheckREST0Reply preserves the invariant.
LEMMA CheckREST0ReplyStep ==
  ASSUME IInv, CheckREST0Reply
  PROVE  IInv'
<1> USE DEF IInv
<1>1. PICK ok \in BOOLEAN : \E has \in LearnREST(ok) :
        GetResponse("check0", IF ok THEN {1, 2, 3} ELSE {4, 5}, [cip EXCEPT !.hasREST = has])
  BY DEF CheckREST0Reply
<1>2. PICK has \in LearnREST(ok) :
        GetResponse("check0", IF ok THEN {1, 2, 3} ELSE {4, 5}, [cip EXCEPT !.hasREST = has])
  BY <1>1
<1> DEFINE c == [cip EXCEPT !.hasREST = has]
<1>3. /\ c \in CipType /\ c.dataSocket = cip.dataSocket /\ c.ctrlSocket = cip.ctrlSocket
      /\ c.canceling = cip.canceling /\ c.canceled = cip.canceled
  BY LearnedFields DEF TypeOK
<1>4. /\ pc = "check0" /\ cip.ctrlSocket = "open" /\ repQ' \in Seq(Reply)
      /\ cip' \in CipType /\ cip'.dataSocket = cip.dataSocket /\ cip'.ctrlSocket = "open"
      /\ cip'.canceling = cip.canceling /\ cip'.canceled = cip.canceled
  BY <1>2, <1>3, ReadFields
<1>5. UNCHANGED <<link, wire, srv, abandoned>>
  BY DEF CheckREST0Reply
<1>6. pc' = "idle" /\ op' \in OpType /\ op'.kind = op.kind /\ UNCHANGED cmdQ
  BY ReturnFields DEF CheckREST0Reply, TypeOK
<1>7. TypeOK'
  BY <1>4, <1>5, <1>6 DEF TypeOK, PCs
<1> QED
  BY <1>4, <1>5, <1>6, <1>7 DEF KindOK, SocketOK, FlagOK, TypeOK, Starting, Simple, Aborting, Transfers

-----------------------------------------------------------------------------
(* FTPStartDataCmd3: TYPE, PORT or PASV, REST and the transfer command.    *)

\* TypeAccepted preserves the invariant.
LEMMA TypeAcceptedStep ==
  ASSUME IInv, TypeAccepted
  PROVE  IInv'
<1> USE DEF IInv
<1> DEFINE c == [Reset(cip) EXCEPT !.curTransferType = op.type]
<1>1. /\ c \in CipType /\ c.dataSocket = "closed" /\ c.ctrlSocket = cip.ctrlSocket
      /\ c.canceling = cip.canceling /\ c.canceled = FALSE
  <2>1. /\ Reset(cip) \in CipType /\ Reset(cip).dataSocket = "closed"
        /\ Reset(cip).ctrlSocket = cip.ctrlSocket
        /\ Reset(cip).canceling = cip.canceling /\ Reset(cip).canceled = FALSE
    BY ResetFields DEF TypeOK
  <2>2. op.type \in {"A", "I"}
    BY DEF TypeOK, OpType
  <2> QED
    BY <2>1, <2>2, TypeSetFields
<1>2. GetResponse("type", {2}, c)
  BY DEF TypeAccepted
<1>3. /\ op' = op /\ pc' = "open" /\ UNCHANGED <<srv, abandoned>> /\ CloseLink
      /\ Send("PORT", 0) \/ Send("PASV", 0)
  BY DEF TypeAccepted, SendOpen
<1>4. /\ pc = "type" /\ cip.ctrlSocket = "open" /\ repQ' \in Seq(Reply)
      /\ cip' \in CipType /\ cip'.dataSocket = "closed" /\ cip'.ctrlSocket = "open"
      /\ cip'.canceling = cip.canceling /\ cip'.canceled = FALSE
  BY <1>1, <1>2, ReadFields
<1>5. TypeOK'
  BY <1>3, <1>4, SendType, CloseLinkType DEF TypeOK, PCs, Awaiting, Starting, Verbs
<1> QED
  BY <1>3, <1>4, <1>5 DEF KindOK, SocketOK, FlagOK, TypeOK, Starting, Simple, Aborting

\* TypeRefused preserves the invariant.
LEMMA TypeRefusedStep ==
  ASSUME IInv, TypeRefused
  PROVE  IInv'
<1> USE DEF IInv
<1>1. /\ pc = "type" /\ cip.ctrlSocket = "open" /\ repQ' \in Seq(Reply)
      /\ cip' \in CipType /\ cip'.dataSocket = cip.dataSocket /\ cip'.ctrlSocket = "open"
      /\ cip'.canceling = cip.canceling /\ cip'.canceled = cip.canceled
  BY ReadFields DEF TypeRefused, TypeOK
<1>2. /\ pc' = "idle" /\ op' \in OpType /\ op'.kind = op.kind /\ op'.result = "err"
      /\ UNCHANGED <<cmdQ, link, wire, srv, abandoned>>
  BY ReturnFields DEF TypeRefused, TypeOK
<1>3. TypeOK'
  BY <1>1, <1>2 DEF TypeOK, PCs
<1> QED
  BY <1>1, <1>2, <1>3 DEF KindOK, SocketOK, FlagOK, TypeOK, Starting, Simple, Aborting

\* PORTAccepted preserves the invariant.
LEMMA PORTAcceptedStep ==
  ASSUME IInv, PORTAccepted
  PROVE  IInv'
<1> USE DEF IInv
<1> DEFINE c == [cip EXCEPT !.dataSocket = "listen", !.dataPortMode = "PORT", !.startPoint = 0]
<1>1. /\ c \in CipType /\ c.ctrlSocket = cip.ctrlSocket
      /\ c.canceling = cip.canceling /\ c.canceled = cip.canceled
  BY DEF TypeOK, CipType
<1>2. GetResponse("open", {2}, c) /\ SendRestOrCommand /\ UNCHANGED <<link, wire, srv, abandoned>>
  BY DEF PORTAccepted
<1>3. /\ pc = "open" /\ cip.ctrlSocket = "open" /\ repQ' \in Seq(Reply)
      /\ cip' \in CipType /\ cip'.ctrlSocket = "open"
      /\ cip'.canceling = cip.canceling /\ cip'.canceled = cip.canceled
  BY <1>1, <1>2, ReadFields
<1>4. /\ op' = op /\ pc' \in {"rest", "start"} /\ cmdQ' \in Seq(Command)
      /\ op.kind \in Transfers /\ op.cmd \in Transfers
  BY <1>2, <1>3, SendRestOrCommandFields
<1>5. TypeOK'
  BY <1>2, <1>3, <1>4 DEF TypeOK, PCs, Awaiting, Starting
<1> QED
  BY <1>2, <1>3, <1>4, <1>5 DEF KindOK, SocketOK, FlagOK, TypeOK, Starting, Simple, Aborting

\* PASVAccepted preserves the invariant.
LEMMA PASVAcceptedStep ==
  ASSUME IInv, PASVAccepted
  PROVE  IInv'
<1> USE DEF IInv
<1> DEFINE c == [cip EXCEPT !.startPoint = 0]
<1>1. /\ c \in CipType /\ c.ctrlSocket = cip.ctrlSocket /\ c.dataSocket = cip.dataSocket
      /\ c.canceling = cip.canceling /\ c.canceled = cip.canceled
  BY DEF TypeOK, CipType
<1>2. /\ GetResponse("open", {2}, c)
      /\ pc' = "connect" /\ UNCHANGED <<op, cmdQ, link, wire, srv, abandoned>>
  BY DEF PASVAccepted
<1>3. /\ pc = "open" /\ cip.ctrlSocket = "open" /\ repQ' \in Seq(Reply)
      /\ cip' \in CipType /\ cip'.ctrlSocket = "open" /\ cip'.dataSocket = cip.dataSocket
      /\ cip'.canceling = cip.canceling /\ cip'.canceled = cip.canceled
  BY <1>1, <1>2, ReadFields
<1>4. TypeOK'
  BY <1>2, <1>3 DEF TypeOK, PCs
<1> QED
  BY <1>2, <1>3, <1>4 DEF KindOK, SocketOK, FlagOK, TypeOK, Starting, Simple, Aborting

\* PASVNamesNoPort preserves the invariant.
LEMMA PASVNamesNoPortStep ==
  ASSUME IInv, PASVNamesNoPort
  PROVE  IInv'
<1> USE DEF IInv
<1> DEFINE c == [cip EXCEPT !.dataSocket = "bogus", !.hasPASV = "available", !.startPoint = 0]
<1>1. /\ c \in CipType /\ c.ctrlSocket = cip.ctrlSocket
      /\ c.canceling = cip.canceling /\ c.canceled = cip.canceled
  BY DEF TypeOK, CipType
<1>2. GetResponse("open", {2}, c) /\ SendRestOrCommand /\ UNCHANGED <<link, wire, srv, abandoned>>
  BY DEF PASVNamesNoPort
<1>3. /\ pc = "open" /\ cip.ctrlSocket = "open" /\ repQ' \in Seq(Reply)
      /\ cip' \in CipType /\ cip'.ctrlSocket = "open"
      /\ cip'.canceling = cip.canceling /\ cip'.canceled = cip.canceled
  BY <1>1, <1>2, ReadFields
<1>4. /\ op' = op /\ pc' \in {"rest", "start"} /\ cmdQ' \in Seq(Command)
      /\ op.kind \in Transfers /\ op.cmd \in Transfers
  BY <1>2, <1>3, SendRestOrCommandFields
<1>5. TypeOK'
  BY <1>2, <1>3, <1>4 DEF TypeOK, PCs, Awaiting, Starting
<1> QED
  BY <1>2, <1>3, <1>4, <1>5 DEF KindOK, SocketOK, FlagOK, TypeOK, Starting, Simple, Aborting

\* OpenRefused preserves the invariant.
LEMMA OpenRefusedStep ==
  ASSUME IInv, OpenRefused
  PROVE  IInv'
<1> USE DEF IInv
<1>1. /\ PASVRefused(cip) \in CipType
      /\ GetResponse("open", {1, 3, 4, 5}, PASVRefused(cip)) /\ abandoned' = abandoned
  BY RefusedFields DEF OpenRefused, TypeOK
<1>2. /\ pc = "open" /\ cip.ctrlSocket = "open" /\ repQ' \in Seq(Reply)
      /\ cip' \in CipType /\ cip'.ctrlSocket = "open" /\ cip'.dataSocket = cip.dataSocket
      /\ cip'.canceling = cip.canceling /\ cip'.canceled = cip.canceled
  BY <1>1, ReadFields, RefusedFields DEF TypeOK
<1>3. CASE UNCHANGED <<pc, op, link, wire, srv>> /\ Send("PORT", 0)
  <2>1. TypeOK'
    BY <1>1, <1>2, <1>3, SendType DEF TypeOK, Verbs
  <2> QED
    BY <1>1, <1>2, <1>3, <2>1 DEF KindOK, SocketOK, FlagOK, TypeOK, Starting, Simple, Aborting
<1>4. CASE StartFails
  <2>1. /\ pc' = "idle" /\ op' \in OpType /\ op'.kind = op.kind /\ op'.result = "err"
        /\ link' \in {"none", "up", "half", "fin", "reset", "cut"} /\ wire' \in Nat
        /\ UNCHANGED <<cmdQ, srv>>
    BY <1>4, StartFailsFields
  <2>2. TypeOK'
    BY <1>1, <1>2, <2>1 DEF TypeOK, PCs
  <2> QED
    BY <1>1, <1>2, <2>1, <2>2 DEF KindOK, SocketOK, FlagOK, TypeOK, Starting, Simple, Aborting
<1> QED
  BY <1>3, <1>4 DEF OpenRefused

\* Connect preserves the invariant.
LEMMA ConnectStep ==
  ASSUME IInv, Connect
  PROVE  IInv'
<1> USE DEF IInv
<1>1. pc = "connect" /\ repQ' = repQ /\ abandoned' = abandoned
  BY DEF Connect, Connected, ConnectAgain, ConnectFails, ConnectFallsBack, ConnectExhausted
<1>2. ASSUME cip' \in CipType, cip'.ctrlSocket = cip.ctrlSocket, cip'.canceling = cip.canceling,
             cip'.canceled = cip.canceled, SendRestOrCommand, srv' = srv,
             link' \in {"none", "up", "half", "fin", "reset", "cut"}, wire' \in Nat
      PROVE  IInv'
  <2>1. /\ op' = op /\ pc' \in {"rest", "start"} /\ cmdQ' \in Seq(Command)
        /\ op.kind \in Transfers /\ op.cmd \in Transfers
    BY <1>1, <1>2, SendRestOrCommandFields
  <2>2. TypeOK'
    BY <1>1, <1>2, <2>1 DEF TypeOK, PCs, Awaiting, Starting
  <2> QED
    BY <1>1, <1>2, <2>1, <2>2 DEF KindOK, SocketOK, FlagOK, TypeOK, Starting, Simple, Aborting
<1>3. ASSUME cip' \in CipType, cip'.ctrlSocket = cip.ctrlSocket, cip'.dataSocket = cip.dataSocket,
             cip'.canceling = cip.canceling, cip'.canceled = cip.canceled,
             op' \in OpType, op'.kind = op.kind, op'.cmd = op.cmd, op'.result = op.result,
             NEW verb \in {"PORT", "PASV"}, Send(verb, 0), pc' = "open",
             UNCHANGED <<link, wire, srv>>
      PROVE  IInv'
  <2>1. TypeOK'
    BY <1>1, <1>3, SendType DEF TypeOK, PCs, Awaiting, Starting, Verbs
  <2> QED
    BY <1>1, <1>3, <2>1 DEF KindOK, SocketOK, FlagOK, TypeOK, Starting, Simple, Aborting
<1>4. CASE Connected
  <2>1. /\ cip' \in CipType /\ cip'.ctrlSocket = cip.ctrlSocket
        /\ cip'.canceling = cip.canceling /\ cip'.canceled = cip.canceled
    BY <1>4 DEF Connected, TypeOK, CipType
  <2> QED
    BY <1>2, <1>4, <2>1 DEF Connected
<1>5. CASE ConnectAgain
  <2>1. /\ op' \in OpType /\ op'.kind = op.kind /\ op'.cmd = op.cmd /\ op'.result = op.result
    <3>1. op' = [op EXCEPT !.tries = @ - 1] /\ op.tries > 1 /\ op \in OpType
      BY <1>5 DEF ConnectAgain, TypeOK
    <3>2. op.tries - 1 \in Nat
      BY <3>1 DEF OpType
    <3> QED
      BY <3>1, <3>2 DEF OpType
  <2> QED
    BY <1>3, <1>5, <2>1 DEF ConnectAgain, TypeOK
<1>6. CASE ConnectFails
  <2>1. /\ op' \in OpType /\ op'.kind = op.kind /\ op'.result = "err" /\ pc' = "idle"
        /\ link' \in {"none", "up", "half", "fin", "reset", "cut"} /\ wire' \in Nat
        /\ UNCHANGED <<cmdQ, srv, cip>>
    BY <1>6, StartFailsFields DEF ConnectFails
  <2>2. TypeOK'
    BY <1>1, <2>1 DEF TypeOK, PCs
  <2> QED
    BY <1>1, <2>1, <2>2 DEF KindOK, SocketOK, FlagOK, TypeOK, Starting, Simple, Aborting
<1>7. CASE ConnectFallsBack
  <2>1. /\ cip' \in CipType /\ cip'.ctrlSocket = cip.ctrlSocket /\ cip'.dataSocket = cip.dataSocket
        /\ cip'.canceling = cip.canceling /\ cip'.canceled = cip.canceled
    BY <1>7 DEF ConnectFallsBack, TypeOK, CipType
  <2> QED
    BY <1>3, <1>7, <2>1 DEF ConnectFallsBack, TypeOK
<1>8. CASE ConnectExhausted
  <2>1. /\ cip' \in CipType /\ cip'.ctrlSocket = cip.ctrlSocket
        /\ cip'.canceling = cip.canceling /\ cip'.canceled = cip.canceled
    BY <1>8 DEF ConnectExhausted, TypeOK, CipType
  <2> QED
    BY <1>2, <1>8, <2>1 DEF ConnectExhausted, TypeOK
<1> QED
  BY <1>4, <1>5, <1>6, <1>7, <1>8 DEF Connect

\* RestReply preserves the invariant.
LEMMA RestReplyStep ==
  ASSUME IInv, RestReply
  PROVE  IInv'
<1> USE DEF IInv
<1>0. PICK ok \in BOOLEAN : \E has \in LearnREST(ok) :
        LET append == ~ok /\ op.kind = "STOR" /\ UseAPPE IN
        /\ GetResponse("rest", IF ok THEN {1, 2, 3} ELSE {4, 5},
                       [cip EXCEPT !.startPoint = IF ok \/ append THEN op.start ELSE 0,
                                   !.hasREST = has])
        /\ op' = [op EXCEPT !.cmd = IF append THEN "APPE" ELSE op.kind]
        /\ Send(op'.cmd, IF append THEN op.start ELSE 0)
        /\ pc' = "start"
        /\ UNCHANGED <<link, wire, srv, abandoned>>
  BY DEF RestReply
<1>1. PICK has \in LearnREST(ok) :
        LET append == ~ok /\ op.kind = "STOR" /\ UseAPPE IN
        /\ GetResponse("rest", IF ok THEN {1, 2, 3} ELSE {4, 5},
                       [cip EXCEPT !.startPoint = IF ok \/ append THEN op.start ELSE 0,
                                   !.hasREST = has])
        /\ op' = [op EXCEPT !.cmd = IF append THEN "APPE" ELSE op.kind]
        /\ Send(op'.cmd, IF append THEN op.start ELSE 0)
        /\ pc' = "start"
        /\ UNCHANGED <<link, wire, srv, abandoned>>
  BY <1>0
<1> DEFINE append == ~ok /\ op.kind = "STOR" /\ UseAPPE
           start == IF ok \/ append THEN op.start ELSE 0
           c == [cip EXCEPT !.startPoint = start, !.hasREST = has]
           off == IF append THEN op.start ELSE 0
<1>2. has \in {"unknown", "available", "unavailable"} /\ start \in Nat /\ off \in Nat
  BY DEF LearnREST, TypeOK, CipType, OpType
<1>3. /\ c \in CipType /\ c.dataSocket = cip.dataSocket /\ c.ctrlSocket = cip.ctrlSocket
      /\ c.canceling = cip.canceling /\ c.canceled = cip.canceled
  <2> HIDE DEF start
  <2> QED
    BY <1>2 DEF TypeOK, CipType
<1>4. GetResponse("rest", IF ok THEN {1, 2, 3} ELSE {4, 5}, c)
  BY <1>1
<1>5. /\ pc = "rest" /\ cip.ctrlSocket = "open" /\ repQ' \in Seq(Reply)
      /\ cip' \in CipType /\ cip'.dataSocket = cip.dataSocket /\ cip'.ctrlSocket = "open"
      /\ cip'.canceling = cip.canceling /\ cip'.canceled = cip.canceled
  <2> HIDE DEF c
  <2> QED
    BY <1>3, <1>4, ReadFields
<1>6. /\ op' \in OpType /\ op'.kind = op.kind /\ op'.cmd \in Transfers /\ op'.result = op.result
      /\ op.kind \in Transfers
  BY <1>1, <1>5 DEF TypeOK, OpType, KindOK, Starting, Transfers, Verbs
<1>7. Send(op'.cmd, off) /\ op'.cmd \in Verbs /\ pc' = "start" /\ UNCHANGED <<link, wire, srv, abandoned>>
  BY <1>1, <1>6 DEF Verbs, Transfers
<1>8. TypeOK'
  BY <1>2, <1>5, <1>6, <1>7, SendType DEF TypeOK, PCs, Awaiting, Starting
<1> QED
  BY <1>5, <1>6, <1>7, <1>8 DEF KindOK, SocketOK, FlagOK, TypeOK, Starting, Simple, Aborting

\* StartReply preserves the invariant.
LEMMA StartReplyStep ==
  ASSUME IInv, StartReply
  PROVE  IInv'
<1> USE DEF IInv
<1>1. PICK p \in {"start", "appe"} :
        \/ StartThenAccept(p) \/ StartThenTransfer(p)
        \/ StartRetried(p) \/ StartRefused(p)
  BY DEF StartReply
<1>2. ASSUME NEW Codes, NEW c \in CipType, GetResponse(p, Codes, c),
             c.ctrlSocket = cip.ctrlSocket, c.canceling = cip.canceling, c.canceled = cip.canceled
      PROVE  /\ pc = p /\ pc \in Starting /\ cip.ctrlSocket = "open" /\ repQ' \in Seq(Reply)
             /\ cip' \in CipType /\ cip'.dataSocket = c.dataSocket /\ cip'.ctrlSocket = "open"
             /\ cip'.canceling = cip.canceling /\ cip'.canceled = cip.canceled
  BY <1>2, ReadFields DEF Starting
<1>3. CASE StartThenAccept(p)
  <2>1. pc' = "accept" /\ UNCHANGED <<op, cmdQ, link, wire, srv, abandoned>>
    BY <1>3 DEF StartThenAccept
  <2>2. /\ pc \in {"start", "appe"} /\ repQ' \in Seq(Reply)
        /\ cip' \in CipType /\ cip'.ctrlSocket = "open"
        /\ cip'.canceling = cip.canceling /\ cip'.canceled = cip.canceled
    BY <1>2, <1>3 DEF StartThenAccept, TypeOK
  <2>3. TypeOK'
    BY <2>1, <2>2 DEF TypeOK, PCs
  <2> QED
    BY <2>1, <2>2, <2>3 DEF KindOK, SocketOK, FlagOK, TypeOK, Starting, Simple, Aborting
<1>4. CASE StartThenTransfer(p)
  <2>1. pc' = "xfer" /\ UNCHANGED <<op, cmdQ, link, wire, srv, abandoned>>
    BY <1>4 DEF StartThenTransfer
  <2>2. /\ pc \in {"start", "appe"} /\ repQ' \in Seq(Reply)
        /\ cip' \in CipType /\ cip'.ctrlSocket = "open"
        /\ cip'.canceling = cip.canceling /\ cip'.canceled = cip.canceled
    BY <1>2, <1>4, BegunFields DEF StartThenTransfer, TypeOK
  <2>3. TypeOK'
    BY <2>1, <2>2 DEF TypeOK, PCs
  <2> QED
    BY <2>1, <2>2, <2>3 DEF KindOK, SocketOK, FlagOK, TypeOK, Starting, Simple, Aborting
<1>5. CASE StartRetried(p)
  <2>1. /\ pc' = "rest0" /\ Send("REST", 0) /\ UNCHANGED <<link, wire, srv, abandoned>>
        /\ op' \in OpType /\ op'.kind = op.kind /\ op'.cmd = "APPE" /\ op'.result = op.result
    BY <1>5 DEF StartRetried, TypeOK, OpType, Verbs
  <2>2. /\ pc \in {"start", "appe"} /\ repQ' \in Seq(Reply)
        /\ cip' \in CipType /\ cip'.ctrlSocket = "open"
        /\ cip'.canceling = cip.canceling /\ cip'.canceled = cip.canceled
    BY <1>2, <1>5 DEF StartRetried, TypeOK
  <2>3. TypeOK'
    BY <2>1, <2>2, SendType DEF TypeOK, PCs, Awaiting, Starting, Verbs
  <2> QED
    BY <2>1, <2>2, <2>3 DEF KindOK, SocketOK, FlagOK, TypeOK, Starting, Simple, Aborting, Transfers
<1>6. CASE StartRefused(p)
  <2>1. /\ op' \in OpType /\ op'.kind = op.kind /\ op'.result = "err" /\ pc' = "idle"
        /\ link' \in {"none", "up", "half", "fin", "reset", "cut"} /\ wire' \in Nat
        /\ UNCHANGED <<cmdQ, srv, abandoned>>
    BY <1>6, StartFailsFields DEF StartRefused
  <2>2. /\ pc \in {"start", "appe"} /\ repQ' \in Seq(Reply)
        /\ cip' \in CipType /\ cip'.dataSocket = "closed" /\ cip'.ctrlSocket = "open"
        /\ cip'.canceling = cip.canceling /\ cip'.canceled = cip.canceled
    BY <1>2, <1>6, ClosedFields DEF StartRefused, TypeOK
  <2>3. TypeOK'
    BY <2>1, <2>2 DEF TypeOK, PCs
  <2> QED
    BY <2>1, <2>2, <2>3 DEF KindOK, SocketOK, FlagOK, TypeOK, Starting, Simple, Aborting
<1> QED
  BY <1>1, <1>3, <1>4, <1>5, <1>6

\* Rest0Reply preserves the invariant.
LEMMA Rest0ReplyStep ==
  ASSUME IInv, Rest0Reply
  PROVE  IInv'
<1> USE DEF IInv
<1>1. /\ pc = "rest0" /\ cip.ctrlSocket = "open" /\ repQ' \in Seq(Reply)
      /\ cip' \in CipType /\ cip'.ctrlSocket = "open"
      /\ cip'.canceling = cip.canceling /\ cip'.canceled = cip.canceled
  BY ReadFields DEF Rest0Reply, TypeOK
<1>2. op' = op /\ Send("APPE", op.start) /\ pc' = "appe" /\ UNCHANGED <<link, wire, srv, abandoned>>
  BY DEF Rest0Reply
<1>3. TypeOK'
  BY <1>1, <1>2, SendType DEF TypeOK, OpType, PCs, Awaiting, Starting, Verbs
<1> QED
  BY <1>1, <1>2, <1>3 DEF KindOK, SocketOK, FlagOK, TypeOK, Starting, Simple, Aborting

\* Accept preserves the invariant.
LEMMA AcceptStep ==
  ASSUME IInv, Accept
  PROVE  IInv'
<1> USE DEF IInv
<1>1. CASE Accepted
  <2>1. /\ pc = "accept" /\ pc' = "xfer" /\ UNCHANGED <<op, net, srv, abandoned>>
        /\ cip' \in CipType /\ cip'.ctrlSocket = cip.ctrlSocket
        /\ cip'.canceling = cip.canceling /\ cip'.canceled = cip.canceled
    <3>1. cip' = [Begun(cip) EXCEPT !.dataSocket = "open"]
      BY <1>1 DEF Accepted
    <3>2. /\ cip' \in CipType /\ cip'.ctrlSocket = cip.ctrlSocket
          /\ cip'.canceling = cip.canceling /\ cip'.canceled = cip.canceled
      BY <3>1 DEF TypeOK, CipType, Begun
    <3> QED
      BY <1>1, <3>2 DEF Accepted
  <2>2. TypeOK'
    BY <2>1 DEF TypeOK, PCs, net
  <2> QED
    BY <2>1, <2>2 DEF KindOK, SocketOK, FlagOK, TypeOK, Starting, Simple, Aborting
<1>2. CASE AcceptFails
  <2>1. /\ pc = "accept" /\ repQ' = repQ /\ abandoned' = abandoned \cup {"accept"}
        /\ cip' \in CipType /\ cip'.dataSocket = "closed" /\ cip'.ctrlSocket = cip.ctrlSocket
        /\ cip'.canceling = cip.canceling /\ cip'.canceled = cip.canceled
    BY <1>2, ClosedFields DEF AcceptFails, TypeOK
  <2>2. /\ op' \in OpType /\ op'.kind = op.kind /\ op'.result = "err" /\ pc' = "idle"
        /\ link' \in {"none", "up", "half", "fin", "reset", "cut"} /\ wire' \in Nat
        /\ UNCHANGED <<cmdQ, srv>>
    BY <1>2, StartFailsFields DEF AcceptFails
  <2>3. TypeOK'
    BY <2>1, <2>2 DEF TypeOK, PCs
  <2> QED
    BY <2>1, <2>2, <2>3 DEF KindOK, SocketOK, FlagOK, TypeOK, Starting, Simple, Aborting
<1> QED
  BY <1>1, <1>2 DEF Accept

\* FTPEndDataCmd, on every way out of a transfer loop.

-----------------------------------------------------------------------------
(* The transfer loops and the abort.                                       *)

\* EndDataCmd preserves the invariant.
LEMMA EndDataCmdStep ==
  ASSUME IInv, pc \in {"xfer", "eofwait"}, NEW c \in CipType, NEW result \in {"ok", "err"},
         c.ctrlSocket = cip.ctrlSocket, c.canceling = cip.canceling, c.canceled = cip.canceled,
         EndDataCmd(c, result), srv' = srv
  PROVE  IInv'
<1> USE DEF IInv
<1>1. /\ pc' = "final" /\ UNCHANGED <<cmdQ, repQ, abandoned>>
      /\ op' \in OpType /\ op'.kind = op.kind /\ op'.cmd = op.cmd
  BY DEF EndDataCmd, TypeOK, OpType
<1>2. /\ cip' \in CipType /\ cip'.dataSocket = "closed" /\ cip'.ctrlSocket = cip.ctrlSocket
      /\ cip'.canceling = cip.canceling /\ cip'.canceled = cip.canceled
  BY ClosedFields DEF EndDataCmd
<1>3. TypeOK'
  BY <1>1, <1>2, CloseLinkType DEF EndDataCmd, TypeOK, PCs, Awaiting
<1> QED
  BY <1>1, <1>2, <1>3 DEF KindOK, SocketOK, FlagOK, TypeOK, Starting, Simple, Aborting

\* A data timeout, or a cancellation noticed at the end of a store.
LEMMA TimedOutFields ==
  ASSUME TypeOK
  PROVE  /\ [cip EXCEPT !.dataTimedOut = TRUE] \in CipType
         /\ [cip EXCEPT !.dataTimedOut = TRUE].ctrlSocket = cip.ctrlSocket
         /\ [cip EXCEPT !.dataTimedOut = TRUE].canceling = cip.canceling
         /\ [cip EXCEPT !.dataTimedOut = TRUE].canceled = cip.canceled
         /\ [cip EXCEPT !.cancelXfer = TRUE] \in CipType
         /\ [cip EXCEPT !.cancelXfer = TRUE].ctrlSocket = cip.ctrlSocket
         /\ [cip EXCEPT !.cancelXfer = TRUE].canceling = cip.canceling
         /\ [cip EXCEPT !.cancelXfer = TRUE].canceled = cip.canceled
BY DEF TypeOK, CipType

\* A retrieve leaves its loop.
LEMMA GetEndsStep ==
  ASSUME IInv, GetEnds
  PROVE  IInv'
<1>1. pc = "xfer" /\ TypeOK /\ cip \in CipType
  BY DEF GetEnds, IInv, TypeOK
<1>2. srv' = srv
  BY DEF GetEnds, EndDataCmd
<1> QED
  BY <1>1, <1>2, TimedOutFields, EndDataCmdStep DEF GetEnds

\* A store leaves its loop.
LEMMA PutBreaksStep ==
  ASSUME IInv, PutBreaks
  PROVE  IInv'
<1>1. pc = "xfer" /\ TypeOK /\ cip \in CipType
  BY DEF PutBreaks, IInv, TypeOK
<1>2. srv' = srv
  BY DEF PutBreaks, EndDataCmd
<1> QED
  BY <1>1, <1>2, TimedOutFields, EndDataCmdStep DEF PutBreaks

\* A store ends its wait for the server to close.
LEMMA PutDoneStep ==
  ASSUME IInv, PutDone
  PROVE  IInv'
<1>1. pc = "eofwait" /\ TypeOK /\ cip \in CipType /\ op.result \in {"ok", "err"}
  BY DEF PutDone, IInv, TypeOK, OpType
<1>2. srv' = srv
  BY DEF PutDone, EndDataCmd
<1> QED
  BY <1>1, <1>2, TimedOutFields, EndDataCmdStep DEF PutDone

\* UndoSeekFails preserves the invariant.
LEMMA UndoSeekFailsStep ==
  ASSUME IInv, UndoSeekFails
  PROVE  IInv'
<1> USE DEF IInv
<1>1. /\ pc = "xfer" /\ UNCHANGED <<cip, net, srv>> /\ abandoned' = abandoned \cup {"seek"}
      /\ pc' = "idle" /\ op' \in OpType /\ op'.kind = op.kind /\ op'.result = "err"
  BY ReturnFields DEF UndoSeekFails, TypeOK
<1>2. TypeOK'
  BY <1>1 DEF TypeOK, PCs, net
<1> QED
  BY <1>1, <1>2 DEF KindOK, SocketOK, FlagOK, TypeOK, Starting, Simple, Aborting

\* The steps inside the transfer loops move blocks and nothing else.
LEMMA LoopStep ==
  ASSUME IInv, GetBlock \/ PutBlock \/ PutEnds
  PROVE  IInv'
<1> USE DEF IInv
<1>1. /\ pc = "xfer" /\ pc' \in {"xfer", "eofwait"}
      /\ UNCHANGED <<cip, cmdQ, repQ, srv, abandoned>>
      /\ link' = link \/ link' = "half"
  BY DEF GetBlock, PutBlock, PutEnds
<1>2. wire' \in Nat
  BY DEF GetBlock, PutBlock, PutEnds, CanRead, TypeOK
<1>3. \/ op' = op \/ op' = [op EXCEPT !.blocks = @ + 1] \/ op' = [op EXCEPT !.result = "err"]
  BY DEF GetBlock, PutBlock, PutEnds
<1>4. op' \in OpType /\ op'.kind = op.kind /\ op'.cmd = op.cmd
  BY <1>3 DEF TypeOK, OpType
<1>5. TypeOK'
  BY <1>1, <1>2, <1>4 DEF TypeOK, PCs
<1> QED
  BY <1>1, <1>4, <1>5 DEF KindOK, SocketOK, FlagOK, TypeOK, Starting, Simple, Aborting

\* FinalReply preserves the invariant.
LEMMA FinalReplyStep ==
  ASSUME IInv, FinalReply
  PROVE  IInv'
<1> USE DEF IInv
<1>1. PICK ok \in BOOLEAN :
        /\ GetResponse("final", IF ok THEN {2} ELSE {1, 3, 4, 5}, cip)
        /\ Return(IF ok THEN op.result ELSE "err")
        /\ UNCHANGED <<cmdQ, link, wire, srv, abandoned>>
  BY DEF FinalReply
<1>2. (IF ok THEN op.result ELSE "err") \in {"ok", "err"}
  BY DEF TypeOK, OpType
<1>3. /\ pc = "final" /\ cip.ctrlSocket = "open" /\ repQ' \in Seq(Reply)
      /\ cip' \in CipType /\ cip'.dataSocket = cip.dataSocket /\ cip'.ctrlSocket = "open"
      /\ cip'.canceling = cip.canceling /\ cip'.canceled = cip.canceled
  BY <1>1, ReadFields DEF TypeOK
<1>4. pc' = "idle" /\ op' \in OpType /\ op'.kind = op.kind
  BY <1>1, <1>2, ReturnFields DEF TypeOK
<1>5. TypeOK'
  BY <1>1, <1>3, <1>4 DEF TypeOK, PCs
<1> QED
  BY <1>1, <1>3, <1>4, <1>5 DEF KindOK, SocketOK, FlagOK, TypeOK, Starting, Simple, Aborting

\* Abort preserves the invariant.
LEMMA AbortStep ==
  ASSUME IInv, Abort
  PROVE  IInv'
<1> USE DEF IInv
<1>1. /\ cip' \in CipType /\ cip'.dataSocket = cip.dataSocket /\ cip'.ctrlSocket = cip.ctrlSocket
      /\ cip'.canceling = TRUE /\ cip'.canceled = cip.canceled
  BY DEF Abort, TypeOK, CipType
<1>2. /\ pc = "xfer" /\ pc' = "abort1" /\ Send("ABOR", 0)
      /\ UNCHANGED <<repQ, link, wire, srv, abandoned>>
      /\ op' \in OpType /\ op'.kind = op.kind /\ op'.cmd = op.cmd /\ op'.result = "err"
  BY DEF Abort, TypeOK, OpType
<1>3. TypeOK'
  BY <1>1, <1>2, SendType DEF TypeOK, PCs, Verbs
<1> QED
  BY <1>1, <1>2, <1>3 DEF KindOK, SocketOK, FlagOK, TypeOK, Starting, Simple, Aborting

\* The end of an abort, back in the transfer or on to QUIT.
LEMMA AbortReturnsFields ==
  ASSUME IInv, pc \in Aborting, NEW p \in {"idle", "final"}, AbortReturns(p)
  PROVE  /\ op' = op /\ cmdQ' \in Seq(Command)
         /\ \/ op.kind = "QUIT" /\ pc' = "quit"
            \/ /\ op.kind \in Transfers /\ op.cmd \in Transfers
               /\ op.result = "err" /\ pc' = p
<1>1. op' = op /\ op' \in OpType /\ cmdQ \in Seq(Command) /\ TypeOK
  BY DEF AbortReturns, IInv, TypeOK
<1>2. CASE op.kind = "QUIT"
  <2>1. cmdQ' \in Seq(Command)
    BY <1>1, <1>2, SendType DEF AbortReturns, Verbs
  <2> QED
    BY <1>1, <1>2, <2>1 DEF AbortReturns
<1>3. CASE op.kind # "QUIT"
  BY <1>1, <1>3 DEF AbortReturns, IInv, KindOK, FlagOK
<1> QED
  BY <1>2, <1>3

\* AbortWait preserves the invariant.
LEMMA AbortWaitStep ==
  ASSUME IInv, AbortWait
  PROVE  IInv'
<1> USE DEF IInv
<1>1. CASE AbortSeen
  <2>1. /\ pc \in {"abort1", "abort2"} /\ pc' = "abortReply"
        /\ UNCHANGED <<cip, op, net, srv, abandoned>>
    BY <1>1 DEF AbortSeen
  <2>2. TypeOK'
    BY <2>1 DEF TypeOK, PCs, Awaiting, net
  <2> QED
    BY <2>1, <2>2 DEF KindOK, SocketOK, FlagOK, TypeOK, Starting, Simple, Aborting
<1>2. CASE AbortCloses
  <2>1. /\ pc = "abort1" /\ pc' = "abort2" /\ UNCHANGED <<op, cmdQ, repQ, srv, abandoned>>
        /\ cip' \in CipType /\ cip'.dataSocket = "closed" /\ cip'.ctrlSocket = cip.ctrlSocket
        /\ cip'.canceling = cip.canceling /\ cip'.canceled = cip.canceled
    BY <1>2, ClosedFields DEF AbortCloses, TypeOK
  <2>2. TypeOK'
    BY <1>2, <2>1, CloseLinkType DEF AbortCloses, TypeOK, PCs
  <2> QED
    BY <2>1, <2>2 DEF KindOK, SocketOK, FlagOK, TypeOK, Starting, Simple, Aborting
<1>3. CASE AbortGivesUp
  <2>1. /\ pc = "abort2" /\ abandoned' = abandoned \cup {"abort"}
        /\ UNCHANGED <<repQ, link, wire, srv>> /\ AbortReturns("final")
    BY <1>3 DEF AbortGivesUp
  <2>2. /\ cip' \in CipType /\ cip'.dataSocket = cip.dataSocket /\ cip'.ctrlSocket = cip.ctrlSocket
        /\ cip'.canceling = FALSE /\ cip'.canceled = cip.canceled
    BY <1>3 DEF AbortGivesUp, TypeOK, CipType
  <2>3. /\ op' = op /\ cmdQ' \in Seq(Command)
        /\ \/ op.kind = "QUIT" /\ pc' = "quit"
           \/ /\ op.kind \in Transfers /\ op.cmd \in Transfers
              /\ op.result = "err" /\ pc' = "final"
    BY <2>1, AbortReturnsFields DEF Aborting
  <2>4. TypeOK'
    BY <2>1, <2>2, <2>3 DEF TypeOK, PCs, Awaiting
  <2> QED
    BY <2>1, <2>2, <2>3, <2>4
       DEF KindOK, SocketOK, FlagOK, TypeOK, Starting, Simple, Aborting, Transfers
<1>4. CASE AbortUnsent
  <2>1. /\ pc = "abort1" /\ UNCHANGED <<repQ, srv, abandoned>> /\ AbortReturns("final")
        /\ cip' = [Closed(cip) EXCEPT !.canceling = FALSE] /\ CloseLink
    BY <1>4 DEF AbortUnsent
  <2>2. /\ cip' \in CipType /\ cip'.dataSocket = "closed" /\ cip'.ctrlSocket = cip.ctrlSocket
        /\ cip'.canceling = FALSE /\ cip'.canceled = cip.canceled
    BY <2>1 DEF Closed, TypeOK, CipType
  <2>3. /\ op' = op /\ cmdQ' \in Seq(Command)
        /\ \/ op.kind = "QUIT" /\ pc' = "quit"
           \/ /\ op.kind \in Transfers /\ op.cmd \in Transfers
              /\ op.result = "err" /\ pc' = "final"
    BY <2>1, AbortReturnsFields DEF Aborting
  <2>4. TypeOK'
    BY <2>1, <2>2, <2>3, CloseLinkType DEF TypeOK, PCs, Awaiting
  <2> QED
    BY <2>1, <2>2, <2>3, <2>4
       DEF KindOK, SocketOK, FlagOK, TypeOK, Starting, Simple, Aborting, Transfers
<1> QED
  BY <1>1, <1>2, <1>3, <1>4 DEF AbortWait

\* AbortReply preserves the invariant.
LEMMA AbortReplyStep ==
  ASSUME IInv, AbortReply
  PROVE  IInv'
<1> USE DEF IInv
<1>1. CASE TransferAborted
  <2>1. /\ pc = "abortReply" /\ cip.ctrlSocket = "open" /\ repQ' \in Seq(Reply)
        /\ cip' \in CipType /\ cip'.dataSocket = cip.dataSocket /\ cip'.ctrlSocket = "open"
        /\ cip'.canceling = cip.canceling /\ cip'.canceled = cip.canceled
    BY <1>1, ReadFields DEF TransferAborted, TypeOK
  <2>2. pc' = "abortReply2" /\ UNCHANGED <<op, cmdQ, link, wire, srv, abandoned>>
    BY <1>1 DEF TransferAborted
  <2>3. TypeOK'
    BY <2>1, <2>2 DEF TypeOK, PCs, Awaiting
  <2> QED
    BY <2>1, <2>2, <2>3 DEF KindOK, SocketOK, FlagOK, TypeOK, Starting, Simple, Aborting
<1>2. ASSUME NEW p \in {"abortReply", "abortReply2"}, NEW Codes, Aborted(p, Codes)
      PROVE  IInv'
  <2> DEFINE c == [Closed(cip) EXCEPT !.canceled = TRUE, !.canceling = FALSE]
  <2>1. /\ c \in CipType /\ c.dataSocket = "closed" /\ c.ctrlSocket = cip.ctrlSocket
        /\ c.canceling = FALSE
    BY DEF TypeOK, CipType, Closed
  <2>2. GetResponse(p, Codes, c) /\ CloseLink /\ AbortReturns("idle") /\ srv' = srv
    BY <1>2 DEF Aborted
  <2>3. /\ pc = p /\ cip.ctrlSocket = "open" /\ repQ' \in Seq(Reply)
        /\ cip' \in CipType /\ cip'.dataSocket = "closed" /\ cip'.ctrlSocket = "open"
        /\ cip'.canceling = FALSE
    <3> HIDE DEF c
    <3> QED
      BY <2>1, <2>2, ReadFields
  <2>4. abandoned' = abandoned \/ abandoned' = abandoned \cup {"abort"}
    BY <1>2 DEF Aborted
  <2>5. /\ op' = op /\ cmdQ' \in Seq(Command)
        /\ \/ op.kind = "QUIT" /\ pc' = "quit"
           \/ /\ op.kind \in Transfers /\ op.cmd \in Transfers
              /\ op.result = "err" /\ pc' = "idle"
    BY <2>2, <2>3, AbortReturnsFields DEF Aborting
  <2>6. TypeOK'
    BY <2>2, <2>3, <2>4, <2>5, CloseLinkType DEF TypeOK, PCs, Awaiting
  <2> QED
    BY <2>3, <2>4, <2>5, <2>6
       DEF KindOK, SocketOK, FlagOK, TypeOK, Starting, Simple, Aborting, Transfers
<1> QED
  BY <1>1, <1>2 DEF AbortReply

\* FTPShutdownHost, from whichever wait for a reply.
LEMMA ShutdownHostStep ==
  ASSUME IInv, pc \in Awaiting,
         NEW e \in {"none", "kErrControlTimedOut", "kErrRemoteHostClosedConnection"},
         ShutdownHost(e)
  PROVE  IInv'
<1> USE DEF IInv
<1> DEFINE r == PASVRefused(cip)
<1>1. r \in CipType /\ r.canceled = cip.canceled
  BY RefusedFields DEF TypeOK
<1>2. cip' = [r EXCEPT !.ctrlSocket = "closed", !.ctrlSrl = <<>>, !.dataSocket = "closed",
                       !.canceling = FALSE, !.errNo = e]
  BY DEF ShutdownHost
<1>3. /\ cip' \in CipType /\ cip'.dataSocket = "closed" /\ cip'.canceling = FALSE
      /\ cip'.canceled = cip.canceled
  <2> HIDE DEF r
  <2> QED
    BY <1>1, <1>2, EmptySeq DEF CipType
<1>4. /\ cmdQ' = <<>> /\ repQ' = <<>> /\ link' = "none" /\ wire' = 0 /\ abandoned' = abandoned
      /\ srv' = [srv EXCEPT !.state = "gone"] /\ op' = [op EXCEPT !.result = "err"]
      /\ pc' = IF pc \in Aborting /\ op.kind # "QUIT" THEN "final" ELSE "idle"
  BY DEF ShutdownHost
<1>5. op' \in OpType /\ op'.kind = op.kind /\ op'.cmd = op.cmd /\ op'.result = "err"
  BY <1>4 DEF TypeOK, OpType
<1>6. srv' \in SrvType
  BY <1>4 DEF TypeOK, SrvType
<1>7. TypeOK'
  BY <1>3, <1>4, <1>5, <1>6, EmptySeq DEF TypeOK, PCs, Awaiting
<1>8. pc' \in {"idle", "final"} /\ (pc' = "final" => pc \in Aborting /\ op.kind # "QUIT")
  BY <1>4
<1>9. KindOK'
  BY <1>5, <1>8 DEF KindOK, Starting, Aborting
<1>10. SocketOK'
  BY <1>3, <1>8 DEF SocketOK, Simple
<1>11. FlagOK'
  <2>1. cip'.canceling <=> pc' \in Aborting
    BY <1>3, <1>8 DEF Aborting
  <2>2. (op'.kind \in Transfers /\ cip'.canceled) => pc' = "type" \/ (pc' = "idle" /\ op'.result = "err")
    <3> SUFFICES ASSUME op.kind \in Transfers, cip.canceled
                 PROVE  pc' = "idle"
      BY <1>3, <1>5
    <3> QED
      BY <1>8 DEF FlagOK, Aborting
  <2> QED
    BY <1>5, <2>1, <2>2 DEF FlagOK
<1> QED
  BY <1>7, <1>9, <1>10, <1>11

\* Each of the ways out of a wait that call FTPShutdownHost.
LEMMA EndOfSessionStep ==
  ASSUME IInv, GiveUpAtOnce \/ ReplyTimesOut \/ ReplyIsEof \/ ReplyIs421 \/ QuitReply
  PROVE  IInv'
BY ShutdownHostStep DEF GiveUpAtOnce, ReplyTimesOut, ReplyIsEof, ReplyIs421, QuitReply, Awaiting

\* ReadClosed preserves the invariant.
LEMMA ReadClosedStep ==
  ASSUME IInv, ReadClosed
  PROVE  IInv'
<1> USE DEF IInv
<1>1. /\ pc = "final" /\ UNCHANGED <<cip, net, srv, abandoned>>
      /\ pc' = "idle" /\ op' \in OpType /\ op'.kind = op.kind /\ op'.result = "err"
  BY ReturnFields DEF ReadClosed, TypeOK
<1>2. TypeOK'
  BY <1>1 DEF TypeOK, PCs, net
<1> QED
  BY <1>1, <1>2 DEF KindOK, SocketOK, FlagOK, TypeOK, Starting, Simple, Aborting

\* WriteFails preserves the invariant.
LEMMA WriteFailsStep ==
  ASSUME IInv, WriteFails
  PROVE  IInv'
<1> USE DEF IInv
<1>1. /\ pc \in Starting \cup Simple /\ cmdQ' = <<>> /\ UNCHANGED <<repQ, srv, abandoned>>
      /\ cip.ctrlSocket = "open"
      /\ pc' = "idle" /\ op' \in OpType /\ op'.kind = op.kind /\ op'.result = "err"
  BY ReturnFields DEF WriteFails, TypeOK
<1>2. link' \in {"none", "up", "half", "fin", "reset", "cut"} /\ wire' \in Nat
  BY CloseLinkType DEF WriteFails, TypeOK
<1>3. CASE pc \in Simple \cup {"type"}
  <2>1. cip' = cip
    BY <1>3 DEF WriteFails
  <2>2. TypeOK'
    BY <1>1, <1>2, <2>1, EmptySeq DEF TypeOK, PCs
  <2> QED
    BY <1>1, <1>3, <2>1, <2>2 DEF KindOK, SocketOK, FlagOK, TypeOK, Starting, Simple, Aborting
<1>4. CASE pc \notin Simple \cup {"type"}
  <2>1. cip' = PASVRefused(Closed(cip)) /\ cip \in CipType
    BY <1>4 DEF WriteFails, TypeOK
  <2>2. /\ cip' \in CipType /\ cip'.dataSocket = "closed" /\ cip'.ctrlSocket = cip.ctrlSocket
        /\ cip'.canceling = cip.canceling /\ cip'.canceled = cip.canceled
    BY <2>1, ClosedFields, RefusedFields
  <2>3. TypeOK'
    BY <1>1, <1>2, <2>2, EmptySeq DEF TypeOK, PCs
  <2> QED
    BY <1>1, <1>4, <2>2, <2>3 DEF KindOK, SocketOK, FlagOK, TypeOK, Starting, Simple, Aborting
<1> QED
  BY <1>3, <1>4

\* FTPCloseHost preserves the invariant.
LEMMA FTPCloseHostStep ==
  ASSUME IInv, FTPCloseHost
  PROVE  IInv'
<1> USE DEF IInv
<1>1. /\ op' \in OpType /\ op'.kind = "QUIT" /\ pc = "idle" /\ cip.ctrlSocket = "open"
      /\ UNCHANGED <<repQ, link, wire, srv, abandoned>>
  <2>1. /\ pc = "idle" /\ cip.ctrlSocket = "open" /\ UNCHANGED <<repQ, link, wire, srv, abandoned>>
        /\ op' = [no |-> op.no + 1, kind |-> "QUIT", type |-> "A", start |-> 0, cmd |-> "QUIT",
                  result |-> "ok", blocks |-> 0, tries |-> PASVTries]
    BY DEF FTPCloseHost, NewOp
  <2>2. op.no \in Nat /\ PASVTries \in Nat
    BY ModeAssumption DEF TypeOK, OpType
  <2> QED
    BY <2>1, <2>2 DEF OpType, Verbs
<1>2. CASE cip.dataSocket = "closed"
  <2>1. Send("QUIT", 0) /\ pc' = "quit" /\ cip' = cip
    BY <1>2 DEF FTPCloseHost
  <2>2. TypeOK'
    BY <1>1, <2>1, SendType DEF TypeOK, PCs, Awaiting, Verbs
  <2> QED
    BY <1>1, <1>2, <2>1, <2>2
       DEF KindOK, SocketOK, FlagOK, TypeOK, Starting, Simple, Aborting, Transfers
<1>3. CASE cip.dataSocket # "closed"
  <2>1. Send("ABOR", 0) /\ pc' = "abort1" /\ cip' = [cip EXCEPT !.canceling = TRUE]
    BY <1>3 DEF FTPCloseHost
  <2>2. /\ cip' \in CipType /\ cip'.dataSocket = cip.dataSocket /\ cip'.ctrlSocket = cip.ctrlSocket
        /\ cip'.canceling = TRUE /\ cip'.canceled = cip.canceled
    BY <2>1 DEF TypeOK, CipType
  <2>3. TypeOK'
    BY <1>1, <2>1, <2>2, SendType DEF TypeOK, PCs, Verbs
  <2> QED
    BY <1>1, <2>1, <2>2, <2>3
       DEF KindOK, SocketOK, FlagOK, TypeOK, Starting, Simple, Aborting, Transfers
<1> QED
  BY <1>2, <1>3

\* FTPOpenHost preserves the invariant.
LEMMA FTPOpenHostStep ==
  ASSUME IInv, FTPOpenHost
  PROVE  IInv'
<1> USE DEF IInv
<1>1. /\ pc = "idle" /\ abandoned' = {} /\ UNCHANGED <<pc, op, net>>
      /\ cip' = FreshCip(cip.dataPortMode, cip.hasPASV, cip.hasREST) /\ srv' = FreshSrv(srv.rest)
  BY DEF FTPOpenHost
<1>2. /\ cip' \in CipType /\ cip'.dataSocket = "closed" /\ cip'.ctrlSocket = "open"
      /\ cip'.canceling = FALSE /\ cip'.canceled = FALSE
  BY <1>1, EmptySeq DEF FreshCip, TypeOK, CipType
<1>3. srv' \in SrvType
  BY <1>1 DEF FreshSrv, TypeOK, SrvType, Verbs
<1>4. TypeOK'
  BY <1>1, <1>2, <1>3 DEF TypeOK, net
<1> QED
  BY <1>1, <1>2, <1>4 DEF KindOK, SocketOK, FlagOK, TypeOK, Starting, Simple, Aborting

\* FTPStartDataCmd preserves the invariant.
LEMMA FTPStartDataCmdStep ==
  ASSUME IInv, FTPStartDataCmd
  PROVE  IInv'
<1> USE DEF IInv
<1>1. PICK kind \in Kinds \cap Transfers, type \in Types, start \in Starts :
        /\ NewOp(kind, type, start)
        /\ \/ Send("TYPE", 0) /\ pc' = "type" /\ UNCHANGED <<cip, link, wire>>
           \/ SendOpen /\ pc' = "open" /\ cip' = Reset(cip) /\ CloseLink
        /\ UNCHANGED <<repQ, srv, abandoned>>
  BY DEF FTPStartDataCmd
<1>2. /\ op' \in OpType /\ op'.kind \in Transfers /\ op'.cmd \in Transfers
      /\ pc = "idle" /\ cip.ctrlSocket = "open"
  <2>1. /\ op' = [no |-> op.no + 1, kind |-> kind, type |-> type, start |-> start, cmd |-> kind,
                  result |-> "ok", blocks |-> 0, tries |-> PASVTries]
        /\ pc = "idle" /\ cip.ctrlSocket = "open"
    BY <1>1 DEF NewOp
  <2>2. op.no \in Nat /\ PASVTries \in Nat /\ type \in {"A", "I"} /\ start \in Nat
    BY ModeAssumption, TypesAssumption, SizesAssumption DEF TypeOK, OpType
  <2>3. kind \in Kinds /\ kind \in Transfers /\ kind \in Verbs
    BY DEF Transfers, Verbs
  <2> QED
    BY <2>1, <2>2, <2>3 DEF OpType
<1>3. CASE Send("TYPE", 0) /\ pc' = "type" /\ UNCHANGED <<cip, link, wire>>
  <2>1. TypeOK'
    BY <1>1, <1>2, <1>3, SendType DEF TypeOK, PCs, Awaiting, Starting, Verbs
  <2> QED
    BY <1>1, <1>2, <1>3, <2>1 DEF KindOK, SocketOK, FlagOK, TypeOK, Starting, Simple, Aborting
<1>4. CASE SendOpen /\ pc' = "open" /\ cip' = Reset(cip) /\ CloseLink
  <2>1. /\ cip' \in CipType /\ cip'.dataSocket = "closed" /\ cip'.ctrlSocket = cip.ctrlSocket
        /\ cip'.canceling = cip.canceling /\ cip'.canceled = FALSE
    BY <1>4, ResetFields DEF TypeOK
  <2>2. TypeOK'
    BY <1>1, <1>2, <1>4, <2>1, SendType, CloseLinkType DEF TypeOK, PCs, Awaiting, Starting, Verbs, SendOpen
  <2>3. pc' = "open" /\ ~(pc' \in Aborting)
    BY <1>4 DEF Aborting
  <2>4. ~cip.canceling
    BY <1>2 DEF FlagOK, Aborting
  <2>5. KindOK'
    BY <1>2, <2>3 DEF KindOK
  <2>6. SocketOK'
    BY <1>2, <2>1, <2>3 DEF SocketOK, Simple
  <2>7. FlagOK'
    BY <2>1, <2>3, <2>4 DEF FlagOK
  <2> QED
    BY <2>2, <2>5, <2>6, <2>7
<1> QED
  BY <1>1, <1>3, <1>4

-----------------------------------------------------------------------------
(* The server and the network.                                              *)

\* Nothing of what the library knows is disturbed from outside.
LEMMA OutsideStep ==
  ASSUME IInv, UNCHANGED <<pc, cip, op, abandoned>>, cmdQ' \in Seq(Command), repQ' \in Seq(Reply),
         link' \in {"none", "up", "half", "fin", "reset", "cut"}, wire' \in Nat, srv' \in SrvType
  PROVE  IInv'
BY DEF IInv, TypeOK, KindOK, SocketOK, FlagOK

\* An answer to a command is a reply.
LEMMA AnswerType ==
  ASSUME NEW c, c.verb \in Verbs, c.op \in Nat, NEW code \in {1, 2, 3, 4, 5, 421}
  PROVE  Answer(c, code) \in Reply
BY DEF Answer, Reply

\* SrvCommand preserves the invariant.
LEMMA SrvCommandStep ==
  ASSUME IInv, SrvCommand
  PROVE  IInv'
<1> DEFINE c == Head(cmdQ)
           Begin == [srv EXCEPT !.state = "opening", !.off = 0, !.blocks = 0,
                       !.job = [verb |-> c.verb, op |-> c.op,
                                off |-> IF c.verb = "APPE" THEN c.off ELSE srv.off]]
           Yes(code, s) == repQ' = Append(repQ, Answer(c, code)) /\ srv' = s
<1>1. /\ cmdQ' \in Seq(Command) /\ c \in Command
      /\ UNCHANGED <<pc, cip, op, link, wire, abandoned>>
  BY HeadTailProperties DEF SrvCommand, IInv, TypeOK
<1>2. /\ c.verb \in Verbs /\ c.type \in {"A", "I"} /\ c.off \in Nat /\ c.op \in Nat
  BY <1>1 DEF Command
<1>3. /\ srv \in SrvType /\ repQ \in Seq(Reply) /\ srv.off \in Nat
      /\ link \in {"none", "up", "half", "fin", "reset", "cut"} /\ wire \in Nat
  BY DEF IInv, TypeOK, SrvType
<1>4. \E code \in {1, 2, 3, 5},
         s \in {srv, [srv EXCEPT !.type = c.type], [srv EXCEPT !.port = c.op],
                [srv EXCEPT !.off = c.off], [srv EXCEPT !.off = 0], Begin} : Yes(code, s)
  BY DEF SrvCommand
<1>5. repQ' \in Seq(Reply)
  BY <1>2, <1>3, <1>4, AnswerType
<1>6. /\ [srv EXCEPT !.type = c.type] \in SrvType /\ [srv EXCEPT !.port = c.op] \in SrvType
      /\ [srv EXCEPT !.off = c.off] \in SrvType /\ [srv EXCEPT !.off = 0] \in SrvType
  BY <1>2, <1>3 DEF SrvType
<1>7. Begin \in SrvType
  BY <1>2, <1>3 DEF SrvType
<1>8. srv' \in SrvType
  BY <1>3, <1>4, <1>6, <1>7
<1> QED
  BY <1>1, <1>3, <1>5, <1>8, OutsideStep

\* What the server and the network hold is well typed.
LEMMA ServerTypes ==
  ASSUME IInv
  PROVE  /\ srv \in SrvType /\ cmdQ \in Seq(Command) /\ repQ \in Seq(Reply)
         /\ link \in {"none", "up", "half", "fin", "reset", "cut"} /\ wire \in Nat
BY DEF IInv, TypeOK

\* SrvConnect preserves the invariant.
LEMMA SrvConnectStep ==
  ASSUME IInv, SrvConnect
  PROVE  IInv'
<1>1. /\ srv' = [srv EXCEPT !.state = "xfer"] /\ UNCHANGED <<pc, cip, op, cmdQ, repQ, abandoned>>
      /\ (UNCHANGED <<link, wire>>) \/ (link' = "up" /\ wire' = 0)
  BY DEF SrvConnect
<1>2. srv' \in SrvType
  BY <1>1, ServerTypes DEF SrvType
<1> QED
  BY <1>1, <1>2, ServerTypes, OutsideStep

\* SrvMove preserves the invariant.
LEMMA SrvMoveStep ==
  ASSUME IInv, SrvMove
  PROVE  IInv'
<1>1. /\ srv' = [srv EXCEPT !.blocks = @ + 1] /\ UNCHANGED <<pc, cip, op, cmdQ, repQ, link, abandoned>>
      /\ wire' = wire + 1 \/ (wire > 0 /\ wire' = wire - 1)
  BY DEF SrvMove
<1>2. srv' \in SrvType
  <2>1. srv \in SrvType /\ srv.blocks + 1 \in Nat
    BY ServerTypes DEF SrvType
  <2> QED
    BY <1>1, <2>1 DEF SrvType
<1>3. wire' \in Nat
  <2>1. wire \in Nat
    BY ServerTypes
  <2>2. wire' = wire + 1 \/ (wire > 0 /\ wire' = wire - 1)
    BY <1>1
  <2> QED
    BY <2>1, <2>2
<1> QED
  BY <1>1, <1>2, <1>3, ServerTypes, OutsideStep

\* SrvHangsUp preserves the invariant.
LEMMA SrvHangsUpStep ==
  ASSUME IInv, SrvHangsUp
  PROVE  IInv'
<1>1. /\ srv' = [srv EXCEPT !.state = "gone"] /\ UNCHANGED <<pc, cip, op, cmdQ, abandoned>>
      /\ repQ' = repQ \/ repQ' = Append(repQ, [code |-> 421, verb |-> "QUIT", op |-> op.no])
  BY DEF SrvHangsUp
<1>2. srv' \in SrvType
  BY <1>1, ServerTypes DEF SrvType
<1>3. [code |-> 421, verb |-> "QUIT", op |-> op.no] \in Reply
  BY DEF IInv, TypeOK, OpType, Reply, Verbs
<1>4. repQ' \in Seq(Reply)
  BY <1>1, <1>3, ServerTypes
<1>5. link' \in {"none", "up", "half", "fin", "reset", "cut"} /\ wire' \in Nat
  BY ServerTypes DEF SrvHangsUp, LinkBecomes, Gone
<1> QED
  BY <1>1, <1>2, <1>4, <1>5, ServerTypes, OutsideStep

\* A transfer that ends sends its one reply, or two when an ABOR is answered.
LEMMA SrvEndsStep ==
  ASSUME IInv, NEW codes \in Seq({1, 2, 3, 4, 5, 421}), NEW l,
         Len(codes) # 1 => cmdQ # <<>>, SrvEnds(codes, l),
         l \in {"none", "up", "half", "fin", "reset", "cut"}
  PROVE  IInv'
<1> DEFINE A == [i \in 1..Len(codes) |-> IF i = 1 THEN Answer(srv.job, codes[1])
                                                  ELSE Answer(Head(cmdQ), codes[i])]
<1>1. /\ repQ' = repQ \o A /\ srv' = [srv EXCEPT !.state = "ready", !.port = 0]
      /\ cmdQ' = IF Len(codes) = 1 THEN cmdQ ELSE Tail(cmdQ)
      /\ link' = l /\ (wire' = 0 \/ wire' = wire)
      /\ UNCHANGED <<pc, cip, op, abandoned>>
  BY DEF SrvEnds, LinkBecomes
<1>2. cmdQ' \in Seq(Command) /\ (Len(codes) # 1 => Head(cmdQ) \in Command)
  BY <1>1, ServerTypes, HeadTailProperties
<1>3. ASSUME NEW i \in 1..Len(codes) PROVE A[i] \in Reply
  <2>1. codes[i] \in {1, 2, 3, 4, 5, 421} /\ Len(codes) \in Nat
    BY ElementOfSeq, LenProperties
  <2>2. CASE i = 1
    <3>1. srv.job.verb \in Verbs /\ srv.job.op \in Nat
      BY ServerTypes DEF SrvType
    <3> QED
      BY <2>1, <2>2, <3>1, AnswerType
  <2>3. CASE i # 1
    <3>1. Len(codes) # 1
      <4>1. ASSUME NEW n \in Nat, i \in 1..n PROVE n # 1
        BY <2>3, <4>1
      <4> QED
        BY <2>1, <4>1
    <3>2. Head(cmdQ) \in Command
      BY <1>2, <3>1
    <3>3. Head(cmdQ).verb \in Verbs /\ Head(cmdQ).op \in Nat
      BY <3>2 DEF Command
    <3>4. Answer(Head(cmdQ), codes[i]) \in Reply
      BY <2>1, <3>3, AnswerType
    <3> QED
      BY <2>3, <3>4
  <2> QED
    BY <2>2, <2>3
<1>4. A \in Seq(Reply)
  <2>1. Len(codes) \in Nat
    BY LenProperties
  <2> HIDE DEF A
  <2>2. A = [i \in 1..Len(codes) |-> A[i]]
    BY DEF A
  <2> QED
    BY <1>3, <2>1, <2>2, SeqDef
<1>5. repQ' \in Seq(Reply)
  BY <1>1, <1>4, ServerTypes, ConcatProperties
<1>6. srv' \in SrvType
  BY <1>1, ServerTypes DEF SrvType
<1> QED
  BY <1>1, <1>2, <1>5, <1>6, ServerTypes, OutsideStep

\* Every way a transfer ends at the server.
LEMMA ServerEndsSteps ==
  ASSUME IInv, SrvCannotConnect \/ SrvDone \/ SrvFails \/ SrvAborts
  PROVE  IInv'
<1>1. ASSUME NEW l \in {"fin", "reset"} PROVE Gone(l) \in {"none", "fin", "reset"}
  BY DEF Gone
<1>2. /\ <<2>> \in Seq({1, 2, 3, 4, 5, 421}) /\ <<4>> \in Seq({1, 2, 3, 4, 5, 421})
      /\ <<4, 2>> \in Seq({1, 2, 3, 4, 5, 421})
      /\ Len(<<2>>) = 1 /\ Len(<<4>>) = 1
  OBVIOUS
<1>3. CASE SrvCannotConnect
  BY <1>1, <1>2, <1>3, SrvEndsStep DEF SrvCannotConnect
<1>4. CASE SrvDone
  BY <1>1, <1>2, <1>4, SrvEndsStep DEF SrvDone
<1>5. CASE SrvFails
  BY <1>1, <1>2, <1>5, SrvEndsStep DEF SrvFails
<1>6. CASE SrvAborts
  BY <1>1, <1>2, <1>6, SrvEndsStep DEF SrvAborts
<1> QED
  BY <1>3, <1>4, <1>5, <1>6

-----------------------------------------------------------------------------
(* The invariant holds of every reachable state.                            *)

\* The invariant holds once FTPOpenHost has logged in.
LEMMA InitInv == ASSUME Init PROVE IInv
<1>1. PICK mode \in PortModes, pasv \in {"unknown", "available"} :
             cip = FreshCip(mode, pasv, "unknown")
  BY DEF Init
<1>2. PICK r \in BOOLEAN : srv = FreshSrv(r)
  BY DEF Init
<1>3. /\ cip \in CipType /\ cip.dataSocket = "closed" /\ cip.ctrlSocket = "open"
      /\ cip.canceling = FALSE /\ cip.canceled = FALSE
  BY <1>1, ModeAssumption, EmptySeq DEF FreshCip, CipType
<1>4. srv \in SrvType
  BY <1>2 DEF FreshSrv, SrvType, Verbs
<1>5. op \in OpType /\ op.kind = "CMD"
  BY DEF Init, OpType, Verbs
<1>6. TypeOK
  BY <1>3, <1>4, <1>5, EmptySeq DEF Init, TypeOK, PCs
<1> QED
  BY <1>3, <1>5, <1>6
     DEF Init, IInv, KindOK, SocketOK, FlagOK, Starting, Simple, Aborting, Transfers

\* Every step of the library's thread preserves the invariant.
LEMMA LibraryInv ==
  ASSUME IInv, Library
  PROVE  IInv'
<1>1. CASE CmdReply \/ CheckReply
  BY <1>1, CmdReplyStep, CheckTypeReplyStep, CheckREST1ReplyStep, CheckREST0ReplyStep
     DEF CheckReply
<1>2. CASE TypeReply \/ OpenReply
  BY <1>2, TypeAcceptedStep, TypeRefusedStep, PORTAcceptedStep, PASVAcceptedStep,
     PASVNamesNoPortStep, OpenRefusedStep DEF TypeReply, OpenReply
<1>3. CASE Connect \/ RestReply
  BY <1>3, ConnectStep, RestReplyStep
<1>4. CASE StartReply \/ Rest0Reply \/ Accept
  BY <1>4, StartReplyStep, Rest0ReplyStep, AcceptStep
<1>5. CASE UndoSeekFails \/ GetBlock \/ PutBlock \/ PutEnds
  BY <1>5, UndoSeekFailsStep, LoopStep
<1>6. CASE GetEnds \/ PutBreaks \/ PutDone
  BY <1>6, GetEndsStep, PutBreaksStep, PutDoneStep
<1>7. CASE FinalReply \/ AbortWait \/ AbortReply
  BY <1>7, FinalReplyStep, AbortWaitStep, AbortReplyStep
<1>8. CASE GiveUpAtOnce \/ ReplyTimesOut \/ ReplyIsEof \/ ReplyIs421 \/ QuitReply
  BY <1>8, EndOfSessionStep
<1>9. CASE ReadClosed \/ WriteFails
  BY <1>9, ReadClosedStep, WriteFailsStep
<1> QED
  BY <1>1, <1>2, <1>3, <1>4, <1>5, <1>6, <1>7, <1>8, <1>9 DEF Library

\* Every step of the system preserves the invariant.
LEMMA StepInv ==
  ASSUME IInv, [Next]_vars
  PROVE  IInv'
<1>1. CASE Library
  BY <1>1, LibraryInv
<1>2. CASE Application
  BY <1>2, FTPCmdStep, FTPCheckForRestartStep, FTPStartDataCmdStep, AbortStep,
     FTPCloseHostStep, FTPOpenHostStep DEF Application
<1>3. CASE Server
  BY <1>3, SrvCommandStep, SrvConnectStep, SrvMoveStep, ServerEndsSteps, SrvHangsUpStep
     DEF Server
<1>4. CASE UNCHANGED vars
  BY <1>4 DEF vars, IInv, TypeOK, KindOK, SocketOK, FlagOK, UsesPORT
<1> QED
  BY <1>1, <1>2, <1>3, <1>4 DEF Next

\* The inductive invariant holds in every reachable state.
THEOREM Invariance == Spec => []IInv
BY InitInv, StepInv, PTL DEF Spec

-----------------------------------------------------------------------------
(* What follows.                                                            *)

\* Every field, queue and position of a session stays in its type: no step of
\* the library reads or writes outside the states the model gives it.
THEOREM TypeCorrect == Spec => []TypeOK
<1>1. IInv => TypeOK
  BY DEF IInv
<1> QED
  BY <1>1, Invariance, PTL

\* No call returns with its data socket open, except through the failed undo of
\* a seek, and a session that was shut down has none.
THEOREM SocketsClosed == Spec => []NoSocketLeft
<1>1. IInv => NoSocketLeft
  BY DEF IInv, SocketOK, NoSocketLeft
<1> QED
  BY <1>1, Invariance, PTL

\* canceling is set exactly while an abort is under way, and no transfer that
\* was canceled reports success.
THEOREM FlagsRight == Spec => []CancelFlags
<1>1. IInv => CancelFlags
  BY DEF IInv, FlagOK, CancelFlags
<1> QED
  BY <1>1, Invariance, PTL

-----------------------------------------------------------------------------
(* The replies the library has not read yet, in the order it will read     *)
(* them: SReadline's buffer, then the socket.                              *)

Unread == cip.ctrlSrl \o repQ
Lost == srv.state = "gone"

\* Both buffers together are a sequence of replies.
LEMMA UnreadType ==
  ASSUME TypeOK
  PROVE  /\ Unread \in Seq(Reply) /\ cip.ctrlSrl \in Seq(Reply) /\ repQ \in Seq(Reply)
         /\ Len(Unread) = Len(cip.ctrlSrl) + Len(repQ)
         /\ Len(cip.ctrlSrl) \in Nat /\ Len(repQ) \in Nat
<1>1. cip.ctrlSrl \in Seq(Reply) /\ repQ \in Seq(Reply)
  BY DEF TypeOK, CipType
<1> QED
  BY <1>1, ConcatProperties, LenProperties DEF Unread

\* The next reply is the first unread one, from whichever buffer it comes.
LEMMA NextIsFirst ==
  ASSUME TypeOK, HaveReply
  PROVE  Unread # <<>> /\ Len(Unread) >= 1 /\ NextReply = Unread[1]
<1>1. CASE cip.ctrlSrl # <<>>
  <2>1. Len(cip.ctrlSrl) >= 1 /\ NextReply = cip.ctrlSrl[1]
    BY <1>1, UnreadType, EmptySeq DEF NextReply
  <2>2. Unread[1] = cip.ctrlSrl[1]
    BY <2>1, UnreadType, ConcatProperties DEF Unread
  <2> QED
    BY <2>1, <2>2, UnreadType, EmptySeq
<1>2. CASE cip.ctrlSrl = <<>>
  <2>1. Len(repQ) >= 1 /\ NextReply = repQ[1]
    BY <1>2, UnreadType, EmptySeq DEF NextReply, HaveReply
  <2>2. Unread = repQ
    BY <1>2, UnreadType, ConcatEmptySeq DEF Unread
  <2> QED
    BY <2>1, <2>2, UnreadType, EmptySeq
<1> QED
  BY <1>1, <1>2

\* What is left of two sequences in a row when the first element is taken.
LEMMA TailOfConcat ==
  ASSUME NEW S, NEW s \in Seq(S), NEW t \in Seq(S), s # <<>>
  PROVE  Tail(s \o t) = Tail(s) \o t
<1>1. Len(s) \in Nat \ {0} /\ Len(t) \in Nat
  BY EmptySeq, LenProperties
<1>2. /\ s \o t \in Seq(S) /\ Len(s \o t) = Len(s) + Len(t)
      /\ \A i \in 1..(Len(s) + Len(t)) :
           (s \o t)[i] = IF i <= Len(s) THEN s[i] ELSE t[i - Len(s)]
  BY ConcatProperties
<1>3. /\ Tail(s) \in Seq(S) /\ Len(Tail(s)) = Len(s) - 1
      /\ \A i \in 1..Len(Tail(s)) : Tail(s)[i] = s[i + 1]
  BY HeadTailProperties
<1>4. /\ Tail(s \o t) \in Seq(S) /\ Len(Tail(s \o t)) = Len(s) + Len(t) - 1
      /\ \A i \in 1..Len(Tail(s \o t)) : Tail(s \o t)[i] = (s \o t)[i + 1]
  <2>1. s \o t # <<>>
    BY <1>1, <1>2, EmptySeq
  <2> QED
    BY <1>2, <2>1, HeadTailProperties
<1>5. /\ Tail(s) \o t \in Seq(S) /\ Len(Tail(s) \o t) = Len(s) + Len(t) - 1
      /\ \A i \in 1..(Len(Tail(s)) + Len(t)) :
           (Tail(s) \o t)[i] = IF i <= Len(Tail(s)) THEN Tail(s)[i] ELSE t[i - Len(Tail(s))]
  BY <1>1, <1>3, ConcatProperties
<1>6. ASSUME NEW i \in 1..Len(Tail(s \o t))
      PROVE  Tail(s \o t)[i] = (Tail(s) \o t)[i]
  <2> DEFINE k == Len(s)
             m == Len(t)
  <2>1. i \in Int /\ 1 <= i /\ i <= k + m - 1 /\ k \in Nat \ {0} /\ m \in Nat
    BY <1>1, <1>4
  <2>2. (s \o t)[i + 1] = IF i + 1 <= k THEN s[i + 1] ELSE t[i + 1 - k]
    <3>1. i + 1 \in 1..(k + m)
      BY <2>1
    <3> QED
      BY <1>2, <3>1
  <2>3. (Tail(s) \o t)[i] = IF i <= k - 1 THEN Tail(s)[i] ELSE t[i - (k - 1)]
    <3>1. i \in 1..(k - 1 + m)
      BY <2>1
    <3> QED
      BY <1>3, <1>5, <3>1
  <2>4. i <= k - 1 => Tail(s)[i] = s[i + 1]
    <3>1. i <= k - 1 => i \in 1..(k - 1)
      BY <2>1
    <3> QED
      BY <1>3, <3>1
  <2>5. i + 1 - k = i - (k - 1) /\ (i + 1 <= k <=> i <= k - 1)
    BY <2>1
  <2>6. Tail(s \o t)[i] = (s \o t)[i + 1]
    BY <1>4
  <2> QED
    BY <2>2, <2>3, <2>4, <2>5, <2>6
<1> QED
  BY <1>4, <1>5, <1>6, SeqEqual

\* What is appended to the second of two sequences comes after both.
LEMMA AppendOfConcat ==
  ASSUME NEW S, NEW s \in Seq(S), NEW t \in Seq(S), NEW r \in S
  PROVE  s \o Append(t, r) = Append(s \o t, r)
<1>1. <<r>> \in Seq(S) /\ s \o t \in Seq(S)
  BY ConcatProperties
<1>2. Append(t, r) = t \o <<r>> /\ Append(s \o t, r) = (s \o t) \o <<r>>
  BY <1>1, AppendIsConcat
<1>3. (s \o t) \o <<r>> = s \o (t \o <<r>>)
  BY <1>1, ConcatAssociative
<1> QED
  BY <1>2, <1>3

\* SReadline takes the first unread reply and keeps the others in their order,
\* however much of the socket one read() returns.
LEMMA ReceiveTail ==
  ASSUME TypeOK, HaveReply, NEW c \in CipType, Receive(c)
  PROVE  Unread' = Tail(Unread)
<1>1. CASE cip.ctrlSrl # <<>> /\ cip' = [c EXCEPT !.ctrlSrl = Tail(cip.ctrlSrl)] /\ UNCHANGED repQ
  <2>1. cip'.ctrlSrl = Tail(cip.ctrlSrl)
    BY <1>1 DEF CipType
  <2> QED
    BY <1>1, <2>1, UnreadType, TailOfConcat DEF Unread
<1>2. ASSUME cip.ctrlSrl = <<>>, NEW n \in 1..Len(repQ),
             cip' = [c EXCEPT !.ctrlSrl = SubSeq(repQ, 2, n)],
             repQ' = SubSeq(repQ, n + 1, Len(repQ))
      PROVE  Unread' = Tail(Unread)
  <2>1. cip'.ctrlSrl = SubSeq(repQ, 2, n)
    BY <1>2 DEF CipType
  <2>2. Unread' = SubSeq(repQ, 2, n) \o SubSeq(repQ, n + 1, Len(repQ))
    BY <1>2, <2>1 DEF Unread
  <2>3. Unread = repQ /\ repQ # <<>>
    BY <1>2, UnreadType, ConcatEmptySeq, NextIsFirst DEF Unread
  <2>4. SubSeq(repQ, 2, n) \o SubSeq(repQ, n + 1, Len(repQ)) = SubSeq(repQ, 2, Len(repQ))
    <3>1. 2 \in 1..Len(repQ)+1 /\ n \in 2-1..Len(repQ) /\ Len(repQ) \in n..Len(repQ)
      BY UnreadType
    <3> QED
      BY <3>1, UnreadType, ConcatAdjacentSubSeq
  <2> QED
    BY <2>2, <2>3, <2>4, UnreadType, TailIsSubSeq
<1> QED
  BY <1>1, <1>2 DEF Receive
-----------------------------------------------------------------------------
(* Counting what is unread.                                                 *)

\* n replies are unread, and perhaps the 421 of a server that has gone.
Unreads(n) ==
  /\ Len(Unread) = n \/ (Lost /\ Len(Unread) = n + 1 /\ Unread[n + 1].code = 421)
  /\ \A i \in 1..n : Unread[i].code # 421

\* Reading a line that is not a 421 leaves one reply less, and the others
\* move up.
LEMMA ReadsOne ==
  ASSUME TypeOK, HaveReply, NEW c \in CipType, Receive(c), NextReply.code # 421,
         UNCHANGED srv, NEW n \in Nat, Unreads(n)
  PROVE  /\ n > 0 /\ Unreads(n - 1)' /\ NextReply = Unread[1]
         /\ \A i \in 1..(n - 1) : Unread'[i] = Unread[i + 1]
<1>1. /\ Unread' = Tail(Unread) /\ Unread \in Seq(Reply) /\ Unread # <<>>
      /\ Len(Unread) \in Nat /\ Len(Unread) >= 1 /\ NextReply = Unread[1]
  BY ReceiveTail, NextIsFirst, UnreadType, LenProperties
<1>2. /\ Len(Unread') = Len(Unread) - 1
      /\ \A i \in 1..(Len(Unread) - 1) : Unread'[i] = Unread[i + 1]
  BY <1>1, HeadTailProperties
<1>3. Unread[1].code # 421
  BY <1>1
<1>4. n > 0
  BY <1>1, <1>3 DEF Unreads
<1>5. \A i \in 1..(n - 1) : Unread'[i] = Unread[i + 1]
  <2>1. n <= Len(Unread)
    BY DEF Unreads
  <2> QED
    BY <1>1, <1>2, <2>1
<1>6. \A i \in 1..(n - 1) : Unread'[i].code # 421
  BY <1>5 DEF Unreads
<1>7. Len(Unread') = n - 1 \/ (Lost' /\ Len(Unread') = n - 1 + 1 /\ Unread'[n - 1 + 1].code = 421)
  <2>1. CASE Len(Unread) = n
    BY <1>2, <1>4, <2>1
  <2>2. CASE Lost /\ Len(Unread) = n + 1 /\ Unread[n + 1].code = 421
    <3>1. n \in 1..(Len(Unread) - 1)
      BY <1>4, <2>2
    <3>2. Unread'[n] = Unread[n + 1]
      BY <1>2, <3>1
    <3> QED
      BY <1>2, <2>2, <3>2 DEF Lost
  <2> QED
    BY <2>1, <2>2 DEF Unreads
<1> QED
  BY <1>1, <1>4, <1>5, <1>6, <1>7 DEF Unreads

\* What the server sends comes after all that is unread.
LEMMA UnreadAppended ==
  ASSUME TypeOK, NEW r \in Reply, repQ' = Append(repQ, r), cip' = cip
  PROVE  Unread' = Append(Unread, r)
<1>1. Unread' = cip.ctrlSrl \o Append(repQ, r)
  BY DEF Unread
<1>2. cip.ctrlSrl \in Seq(Reply) /\ repQ \in Seq(Reply)
  BY UnreadType
<1>3. \A s, t \in Seq(Reply) : s \o Append(t, r) = Append(s \o t, r)
  BY AppendOfConcat
<1>4. cip.ctrlSrl \o Append(repQ, r) = Append(cip.ctrlSrl \o repQ, r)
  BY <1>2, <1>3
<1> QED
  BY <1>1, <1>4 DEF Unread

\* A server that is there appends its answers at the end.
LEMMA AppendsOne ==
  ASSUME TypeOK, NEW r \in Reply, r.code # 421, repQ' = Append(repQ, r), UNCHANGED cip,
         ~Lost, NEW n \in Nat, Unreads(n)
  PROVE  /\ Unreads(n + 1)' /\ Unread' = Append(Unread, r)
         /\ Len(Unread) = n /\ Unread'[n + 1] = r
         /\ \A i \in 1..n : Unread'[i] = Unread[i]
<1>1. Unread' = Append(Unread, r)
  BY UnreadAppended
<1>2. /\ Len(Unread) = n /\ Len(Unread') = n + 1 /\ Unread'[n + 1] = r
      /\ \A i \in 1..n : Unread'[i] = Unread[i]
  BY <1>1, UnreadType, AppendProperties DEF Unreads
<1>3. \A i \in 1..(n + 1) : i \in 1..n \/ i = n + 1
  OBVIOUS
<1> QED
  BY <1>1, <1>2, <1>3 DEF Unreads

\* A server that goes leaves the answers it has sent, and perhaps its 421.
LEMMA HangsUp ==
  ASSUME TypeOK, SrvHangsUp, NEW n \in Nat, Unreads(n)
  PROVE  Unreads(n)' /\ \A i \in 1..n : Unread'[i] = Unread[i]
<1> DEFINE r == [code |-> 421, verb |-> "QUIT", op |-> op.no]
<1>1. /\ UNCHANGED cip /\ Lost' /\ Len(Unread) = n
      /\ repQ' = repQ \/ repQ' = Append(repQ, r)
  BY DEF SrvHangsUp, Unreads, Lost, TypeOK, SrvType
<1>2. CASE repQ' = repQ
  BY <1>1, <1>2 DEF Unreads, Unread
<1>3. CASE repQ' = Append(repQ, r)
  <2>1. r \in Reply
    BY DEF TypeOK, OpType, Reply, Verbs
  <2>2. Unread' = Append(Unread, r)
    BY <1>1, <1>3, <2>1, UnreadAppended
  <2>3. /\ Len(Unread') = n + 1 /\ Unread'[n + 1] = r
        /\ \A i \in 1..n : Unread'[i] = Unread[i]
    BY <1>1, <2>1, <2>2, UnreadType, AppendProperties
  <2> QED
    BY <1>1, <2>3 DEF Unreads
<1> QED
  BY <1>1, <1>2, <1>3
-----------------------------------------------------------------------------
(* The inductive invariant.                                                 *)

NoCommand == Lost \/ cmdQ = <<>>
SrvReady == srv.state \in {"ready", "gone"}
Running == srv.state \in {"opening", "xfer", "gone"}

\* The i-th unread reply, or the one command under way, is of this call.
Own(i, verb) == Unread[i].verb = verb /\ Unread[i].op = op.no
Outstanding(verb) == Len(cmdQ) = 1 /\ cmdQ[1].verb = verb /\ cmdQ[1].op = op.no
OwnJob == srv.job.verb = op.cmd /\ srv.job.op = op.no

\* A command that the server answers at once: before it has, and after.
Asked(verb) == Unreads(0) /\ SrvReady /\ (Lost \/ Outstanding(verb))
Answered(verb) == Unreads(1) /\ Own(1, verb) /\ SrvReady /\ cmdQ = <<>>
Exchange(verb) == Asked(verb) \/ Answered(verb)

\* Nothing is under way.
Quiet == Unreads(0) /\ SrvReady /\ NoCommand

\* A transfer command: refused, or answered by a preliminary reply, which the
\* final one may have followed already.
StartAsked ==
  \/ Asked(op.cmd)
  \/ Answered(op.cmd) /\ Unread[1].code = 5
  \/ /\ cmdQ = <<>> /\ Own(1, op.cmd) /\ Unread[1].code = 1 /\ OwnJob
     /\ \/ Unreads(1) /\ Running
        \/ Unreads(2) /\ Own(2, op.cmd) /\ SrvReady

\* The preliminary reply has been read; the final one is there or still to come.
Transferring ==
  /\ NoCommand /\ OwnJob
  /\ \/ Unreads(0) /\ Running
     \/ Unreads(1) /\ Own(1, op.cmd) /\ SrvReady

\* ABOR has been sent after a transfer: the transfer's final reply comes first.
AbortAsked ==
  /\ OwnJob /\ op.kind # "QUIT"
  /\ \/ Unreads(0) /\ Running /\ (Lost \/ Outstanding("ABOR"))
     \/ Unreads(1) /\ Own(1, op.cmd) /\ SrvReady /\ (Lost \/ Outstanding("ABOR"))
     \/ Unreads(2) /\ Own(1, op.cmd) /\ Own(2, "ABOR") /\ SrvReady /\ cmdQ = <<>>

\* What is under way at each point of the library's thread.
Paired ==
  /\ pc \in {"idle", "connect"} => Quiet
  /\ pc = "cmd" => Exchange("CMD")
  /\ pc \in {"check", "type"} => Exchange("TYPE")
  /\ pc \in {"check1", "check0", "rest", "rest0"} => Exchange("REST")
  /\ pc = "open" /\ UsesPORT => Exchange("PORT")
  /\ pc = "open" /\ ~UsesPORT => Exchange("PASV")
  /\ pc \in {"start", "appe"} => StartAsked
  /\ pc \in {"accept", "xfer", "eofwait", "final"} => Transferring
  /\ pc \in {"abort1", "abort2", "abortReply"} => AbortAsked
  /\ pc = "abortReply2" => Exchange("ABOR")
  /\ pc = "quit" => Exchange("QUIT")

\* Which command a call is at, where its name does not say.
CmdOK ==
  /\ pc = "cmd" => op.cmd = "CMD"
  /\ pc \in {"type", "open", "connect"} => op.cmd = op.kind
  /\ pc \in {"rest0", "appe"} => op.cmd = "APPE"
  /\ pc = "connect" => ~UsesPORT

\* FTPShutdownHost leaves nothing for the next session to read.
ClosedOK ==
  cip.ctrlSocket = "closed" => Lost /\ cmdQ = <<>> /\ repQ = <<>> /\ cip.ctrlSrl = <<>>

PairInv ==
  /\ ClosedOK /\ CmdOK
  /\ cip.ctrlSocket = "open" /\ abandoned = {} => Paired

-----------------------------------------------------------------------------
(* What one read, and one write, makes of these.                            *)

\* While a server has gone or has answered, what is read is the one answer.
LEMMA ReadAnswer ==
  ASSUME TypeOK, NEW p, NEW Codes, NEW c \in CipType, GetResponse(p, Codes, c),
         UNCHANGED srv, NEW v, Exchange(v)
  PROVE  /\ Unreads(0)' /\ SrvReady' /\ SrvReady /\ cmdQ = <<>>
         /\ Own(1, v) /\ NextReply = Unread[1]
<1>1. HaveReply /\ Receive(c) /\ NextReply.code # 421
  BY DEF GetResponse
<1>2. ~Unreads(0)
  BY <1>1, ReadsOne
<1>3. Unreads(1) /\ Own(1, v) /\ SrvReady /\ cmdQ = <<>>
  BY <1>2 DEF Exchange, Asked, Answered
<1>4. Unreads(1 - 1)' /\ NextReply = Unread[1]
  BY <1>1, <1>3, ReadsOne
<1>5. Unreads(0)'
  BY <1>4
<1> QED
  BY <1>3, <1>4, <1>5 DEF SrvReady

\* A command sent when nothing is under way is the only one under way.
LEMMA SendAsks ==
  ASSUME Unreads(0)', SrvReady, NoCommand, UNCHANGED srv, NEW v, NEW off, Send(v, off)
  PROVE  Asked(v)'
<1> DEFINE r == [verb |-> v, type |-> op'.type, off |-> off, op |-> op'.no]
<1>1. SrvReady' /\ (Lost => Lost')
  BY DEF SrvReady, Lost
<1>2. CASE cmdQ = <<>>
  <2>1. cmdQ' = Append(<<>>, r)
    BY <1>2 DEF Send
  <2>2. Len(cmdQ') = 1 /\ cmdQ'[1] = r
    BY <2>1
  <2>3. Outstanding(v)'
    BY <2>2 DEF Outstanding
  <2> QED
    BY <1>1, <2>3 DEF Asked
<1> QED
  BY <1>1, <1>2 DEF NoCommand, Asked

\* Reading an answer and sending the next command.
LEMMA NextAsked ==
  ASSUME TypeOK, NEW p, NEW Codes, NEW c \in CipType, GetResponse(p, Codes, c),
         UNCHANGED srv, NEW v, Exchange(v), NEW w, NEW off, Send(w, off)
  PROVE  Exchange(w)'
BY ReadAnswer, SendAsks DEF NoCommand, Exchange

\* Reading an answer and sending nothing.
LEMMA NextQuiet ==
  ASSUME TypeOK, NEW p, NEW Codes, NEW c \in CipType, GetResponse(p, Codes, c),
         UNCHANGED srv, NEW v, Exchange(v), UNCHANGED cmdQ
  PROVE  Quiet'
BY ReadAnswer DEF NoCommand, Quiet

\* A step that reads and writes nothing leaves what is unread.
LEMMA UnreadKept ==
  ASSUME cip'.ctrlSrl = cip.ctrlSrl, UNCHANGED repQ, srv'.state = srv.state
  PROVE  Unread' = Unread /\ \A n : Unreads(n) => Unreads(n)'
<1>1. Unread' = Unread
  BY DEF Unread
<1> QED
  BY <1>1 DEF Unreads, Lost
-----------------------------------------------------------------------------
(* Simple commands.                                                        *)

\* FTPCmd and FTPCheckForRestart send their first command with nothing under
\* way.
LEMMA FTPCmdPair ==
  ASSUME IInv, PairInv, FTPCmd \/ FTPCheckForRestart
  PROVE  PairInv'
<1>1. /\ pc = "idle" /\ cip.ctrlSocket = "open" /\ UNCHANGED <<cip, repQ, srv, abandoned>>
      /\ \/ pc' = "cmd" /\ op'.cmd = "CMD" /\ Send("CMD", 0)
         \/ pc' = "check" /\ Send("TYPE", 0)
         \/ pc' = "check1" /\ Send("REST", 1)
  BY DEF FTPCmd, FTPCheckForRestart, NewOp
<1>2. ClosedOK' /\ CmdOK'
  BY <1>1 DEF ClosedOK, CmdOK
<1>3. ASSUME abandoned = {}
      PROVE  Paired'
  <2>1. Quiet
    BY <1>1, <1>3 DEF PairInv, Paired
  <2>2. Unreads(0)' /\ SrvReady /\ NoCommand
    BY <1>1, <2>1, UnreadKept DEF Quiet
  <2>3. \A v, off : Send(v, off) => Exchange(v)'
    BY <1>1, <2>2, SendAsks DEF Exchange
  <2> QED
    BY <1>1, <2>3 DEF Paired
<1> QED
  BY <1>1, <1>2, <1>3 DEF PairInv

\* A reply that ends a call leaves nothing under way.
LEMMA CmdReplyPair ==
  ASSUME IInv, PairInv, CmdReply
  PROVE  PairInv'
<1>1. PICK ok \in BOOLEAN : /\ GetResponse("cmd", IF ok THEN {2} ELSE {1, 3, 4, 5}, cip)
                            /\ Return(IF ok THEN "ok" ELSE "err")
  BY DEF CmdReply
<1>2. UNCHANGED <<cmdQ, link, wire, srv, abandoned>> /\ TypeOK /\ cip \in CipType
  BY DEF CmdReply, IInv, TypeOK
<1>3. pc = "cmd" /\ cip.ctrlSocket = "open" /\ cip'.ctrlSocket = "open" /\ pc' = "idle"
  BY <1>1, <1>2, ReadFields DEF Return
<1>4. ASSUME abandoned = {}
      PROVE  Paired'
  <2>1. Exchange("CMD")
    BY <1>3, <1>4 DEF PairInv, Paired
  <2>2. Quiet'
    BY <1>1, <1>2, <2>1, NextQuiet
  <2> QED
    BY <1>3, <2>2 DEF Paired
<1> QED
  BY <1>2, <1>3, <1>4 DEF PairInv, ClosedOK, CmdOK

\* FTPCheckForRestartModeAvailability goes from TYPE to REST 1 to REST 0, each
\* sent when the reply to the one before has been read.
LEMMA CheckReplyPair ==
  ASSUME IInv, PairInv, CheckReply
  PROVE  PairInv'
<1> USE DEF IInv
<1>1. CASE CheckTypeReply
  <2> DEFINE C(ok) == [cip EXCEPT !.curTransferType = IF ok THEN "I" ELSE cip.curTransferType]
  <2>1. PICK ok \in BOOLEAN : GetResponse("check", IF ok THEN {2} ELSE {1, 3, 4, 5}, C(ok))
    BY <1>1 DEF CheckTypeReply
  <2>2. C(ok) \in CipType /\ C(ok).ctrlSocket = cip.ctrlSocket
    BY TypeSetFields DEF TypeOK, CipType
  <2> HIDE DEF C
  <2>3. /\ UNCHANGED <<op, link, wire, srv, abandoned>> /\ Send("REST", 1) /\ pc' = "check1"
        /\ pc = "check" /\ cip'.ctrlSocket = "open" /\ cip.ctrlSocket = "open"
    BY <1>1, <2>1, <2>2, ReadFields DEF CheckTypeReply
  <2>4. ASSUME abandoned = {} PROVE Paired'
    <3>1. Exchange("TYPE")
      BY <2>3, <2>4 DEF PairInv, Paired
    <3>2. Exchange("REST")'
      BY <2>1, <2>2, <2>3, <3>1, NextAsked
    <3> QED
      BY <2>3, <3>2 DEF Paired
  <2> QED
    BY <2>3, <2>4 DEF PairInv, ClosedOK, CmdOK
<1>2. CASE CheckREST1Reply \/ CheckREST0Reply
  <2> DEFINE Reads(p, ok, has) ==
        /\ GetResponse(p, IF ok THEN {1, 2, 3} ELSE {4, 5}, [cip EXCEPT !.hasREST = has])
        /\ \/ Send("REST", 0) /\ pc' = "check0" /\ UNCHANGED op
           \/ Return("ok") /\ UNCHANGED cmdQ
  <2>0. PICK p \in {"check1", "check0"}, ok \in BOOLEAN : \E has \in LearnREST(ok) : Reads(p, ok, has)
    BY <1>2 DEF CheckREST1Reply, CheckREST0Reply
  <2>1. PICK has \in LearnREST(ok) : Reads(p, ok, has)
    BY <2>0
  <2> DEFINE c == [cip EXCEPT !.hasREST = has]
  <2>2. c \in CipType /\ c.ctrlSocket = cip.ctrlSocket
    BY LearnedFields DEF TypeOK, CipType
  <2>3. GetResponse(p, IF ok THEN {1, 2, 3} ELSE {4, 5}, c)
    BY <2>1
  <2> HIDE DEF c
  <2>4. /\ UNCHANGED <<link, wire, srv, abandoned>> /\ pc \in {"check1", "check0"}
        /\ cip'.ctrlSocket = "open" /\ cip.ctrlSocket = "open" /\ pc' \in {"check0", "idle"}
    BY <1>2, <2>1, <2>2, <2>3, ReadFields DEF CheckREST1Reply, CheckREST0Reply, Return
  <2>5. ASSUME abandoned = {} PROVE Paired'
    <3>1. Exchange("REST")
      BY <2>4, <2>5 DEF PairInv, Paired
    <3>2. CASE Send("REST", 0) /\ pc' = "check0"
      <4>1. Exchange("REST")'
        BY <2>2, <2>3, <2>4, <3>1, <3>2, NextAsked
      <4> QED
        BY <3>2, <4>1 DEF Paired
    <3>3. CASE Return("ok") /\ UNCHANGED cmdQ
      <4>1. Quiet'
        BY <2>2, <2>3, <2>4, <3>1, <3>3, NextQuiet
      <4> QED
        BY <3>3, <4>1 DEF Paired, Return
    <3> QED
      BY <2>1, <3>2, <3>3
  <2> QED
    BY <2>4, <2>5 DEF PairInv, ClosedOK, CmdOK
<1> QED
  BY <1>1, <1>2 DEF CheckReply

-----------------------------------------------------------------------------
(* Starting a transfer.                                                    *)

\* The fields that choose between PORT and PASV are not reset.
LEMMA ResetKeepsMode ==
  ASSUME NEW c \in CipType
  PROVE  Reset(c).hasPASV = c.hasPASV /\ Reset(c).dataPortMode = c.dataPortMode
         /\ Reset(c).ctrlSrl = c.ctrlSrl
BY DEF CipType, Reset

\* A transfer begins with TYPE, or with PORT or PASV when the type is right.
LEMMA FTPStartDataCmdPair ==
  ASSUME IInv, PairInv, FTPStartDataCmd
  PROVE  PairInv'
<1> USE DEF IInv
<1>1. /\ pc = "idle" /\ cip.ctrlSocket = "open" /\ UNCHANGED <<repQ, srv, abandoned>>
      /\ op'.cmd = op'.kind
      /\ \/ pc' = "type" /\ cip' = cip /\ Send("TYPE", 0)
         \/ pc' = "open" /\ cip' = Reset(cip) /\ SendOpen
  BY DEF FTPStartDataCmd, NewOp
<1>2. /\ cip'.ctrlSocket = "open" /\ cip'.ctrlSrl = cip.ctrlSrl
      /\ UsesPORT' = UsesPORT
  BY <1>1, ResetFields, ResetKeepsMode DEF TypeOK, UsesPORT
<1>3. ClosedOK' /\ CmdOK'
  BY <1>1, <1>2 DEF ClosedOK, CmdOK
<1>4. ASSUME abandoned = {}
      PROVE  Paired'
  <2>1. Quiet
    BY <1>1, <1>4 DEF PairInv, Paired
  <2>2. Unreads(0)' /\ SrvReady /\ NoCommand
    BY <1>1, <1>2, <2>1, UnreadKept DEF Quiet
  <2>3. \A v, off : Send(v, off) => Exchange(v)'
    BY <1>1, <2>2, SendAsks DEF Exchange
  <2>4. CASE pc' = "type" /\ Send("TYPE", 0)
    BY <2>3, <2>4 DEF Paired
  <2>5. CASE pc' = "open" /\ SendOpen
    <3>1. CASE UsesPORT
      BY <1>2, <2>3, <2>5, <3>1 DEF Paired, SendOpen
    <3>2. CASE ~UsesPORT
      BY <1>2, <2>3, <2>5, <3>2 DEF Paired, SendOpen
    <3> QED
      BY <3>1, <3>2
  <2> QED
    BY <1>1, <2>4, <2>5
<1> QED
  BY <1>1, <1>3, <1>4 DEF PairInv

\* Reading a reply leaves the transfer's parameters as c has them.
LEMMA ReadKeeps ==
  ASSUME TypeOK, NEW p, NEW Codes, NEW c \in CipType, GetResponse(p, Codes, c)
  PROVE  /\ cip'.hasPASV = c.hasPASV /\ cip'.dataPortMode = c.dataPortMode
         /\ cip'.startPoint = c.startPoint /\ cip'.curTransferType = c.curTransferType
<1>1. PICK srl \in Seq(Reply) : cip' = [c EXCEPT !.ctrlSrl = srl]
  BY GetResponseReads
<1> QED
  BY <1>1 DEF CipType

\* The reply to TYPE is read before PORT or PASV is sent.
LEMMA TypeReplyPair ==
  ASSUME IInv, PairInv, TypeReply
  PROVE  PairInv'
<1> USE DEF IInv
<1>1. CASE TypeAccepted
  <2> DEFINE c == [Reset(cip) EXCEPT !.curTransferType = op.type]
  <2>1. GetResponse("type", {2}, c)
    BY <1>1 DEF TypeAccepted
  <2>2. /\ c \in CipType /\ c.ctrlSocket = cip.ctrlSocket
        /\ c.hasPASV = cip.hasPASV /\ c.dataPortMode = cip.dataPortMode
    <3>1. Reset(cip) \in CipType /\ op.type \in {"A", "I"}
      BY ResetFields DEF TypeOK, OpType
    <3>2. \A r \in CipType : \A t \in {"A", "I"} :
            /\ [r EXCEPT !.curTransferType = t] \in CipType
            /\ [r EXCEPT !.curTransferType = t].ctrlSocket = r.ctrlSocket
            /\ [r EXCEPT !.curTransferType = t].hasPASV = r.hasPASV
            /\ [r EXCEPT !.curTransferType = t].dataPortMode = r.dataPortMode
      BY DEF CipType
    <3>3. /\ c \in CipType /\ c.ctrlSocket = Reset(cip).ctrlSocket
          /\ c.hasPASV = Reset(cip).hasPASV /\ c.dataPortMode = Reset(cip).dataPortMode
      BY <3>1, <3>2
    <3> QED
      BY <3>3, ResetFields, ResetKeepsMode DEF TypeOK
  <2> HIDE DEF c
  <2>3. /\ pc = "type" /\ pc' = "open" /\ cip.ctrlSocket = "open" /\ cip'.ctrlSocket = "open"
        /\ UNCHANGED <<op, srv, abandoned>> /\ SendOpen
    BY <1>1, <2>1, <2>2, ReadFields DEF TypeAccepted
  <2>4. UsesPORT' = UsesPORT
    BY <2>1, <2>2, ReadKeeps DEF UsesPORT
  <2>5. ClosedOK' /\ CmdOK'
    BY <2>3 DEF PairInv, ClosedOK, CmdOK
  <2>6. ASSUME abandoned = {} PROVE Paired'
    <3>1. Exchange("TYPE")
      BY <2>3, <2>6 DEF PairInv, Paired
    <3>2. \A v, off : Send(v, off) => Exchange(v)'
      BY <2>1, <2>2, <2>3, <3>1, NextAsked
    <3>3. CASE UsesPORT
      BY <2>3, <2>4, <3>2, <3>3 DEF Paired, SendOpen
    <3>4. CASE ~UsesPORT
      BY <2>3, <2>4, <3>2, <3>4 DEF Paired, SendOpen
    <3> QED
      BY <3>3, <3>4
  <2> QED
    BY <2>3, <2>5, <2>6 DEF PairInv
<1>2. CASE TypeRefused
  <2>1. /\ GetResponse("type", {1, 3, 4, 5}, cip) /\ cip \in CipType
        /\ UNCHANGED <<cmdQ, srv, abandoned>> /\ pc' = "idle"
    BY <1>2 DEF TypeRefused, Return, TypeOK
  <2>2. pc = "type" /\ cip.ctrlSocket = "open" /\ cip'.ctrlSocket = "open"
    BY <2>1, ReadFields
  <2>3. ASSUME abandoned = {} PROVE Paired'
    <3>1. Exchange("TYPE")
      BY <2>2, <2>3 DEF PairInv, Paired
    <3>2. Quiet'
      BY <2>1, <3>1, NextQuiet
    <3> QED
      BY <2>1, <3>2 DEF Paired
  <2> QED
    BY <2>1, <2>2, <2>3 DEF PairInv, ClosedOK, CmdOK
<1> QED
  BY <1>1, <1>2 DEF TypeReply

\* REST or the transfer command is sent when what came before it has been read.
LEMMA RestOrCommandAsked ==
  ASSUME Unreads(0)', SrvReady, NoCommand, UNCHANGED srv, SendRestOrCommand,
         op.cmd = op.kind
  PROVE  Paired' /\ pc' \in {"rest", "start"} /\ op' = op
<1>1. CASE Send("REST", op.start) /\ pc' = "rest"
  <2>1. Exchange("REST")'
    BY <1>1, SendAsks DEF Exchange
  <2> QED
    BY <1>1, <2>1 DEF Paired, SendRestOrCommand
<1>2. CASE Send(op.kind, 0) /\ pc' = "start"
  <2>1. \A v : Send(v, 0) => Asked(v)'
    BY SendAsks
  <2>2. PICK v : v = op.kind
    OBVIOUS
  <2>3. Asked(v)' /\ op'.cmd = v
    BY <1>2, <2>1, <2>2 DEF SendRestOrCommand
  <2>4. StartAsked'
    BY <2>3 DEF StartAsked, Asked
  <2> QED
    BY <1>2, <2>4 DEF Paired, SendRestOrCommand
<1> QED
  BY <1>1, <1>2 DEF SendRestOrCommand

\* A reply that ends the start of a transfer leaves nothing under way.
LEMMA StartFailsPair ==
  ASSUME IInv, PairInv, NEW p, NEW Codes, NEW c \in CipType, GetResponse(p, Codes, c),
         c.ctrlSocket = cip.ctrlSocket, UNCHANGED <<srv, abandoned, cmdQ>>, pc' = "idle",
         NEW v, abandoned = {} => Exchange(v)
  PROVE  PairInv'
<1>1. cip.ctrlSocket = "open" /\ cip'.ctrlSocket = "open" /\ TypeOK
  BY ReadFields DEF IInv
<1>2. abandoned = {} => Quiet'
  BY <1>1, NextQuiet
<1> QED
  BY <1>1, <1>2 DEF PairInv, ClosedOK, CmdOK, Paired

\* The reply to PORT or PASV is read before REST or the transfer command is
\* sent, and before PORT takes the place of a refused PASV.
LEMMA OpenReplyPair ==
  ASSUME IInv, PairInv, OpenReply
  PROVE  PairInv'
<1> USE DEF IInv
<1>0. op \in OpType /\ cip \in CipType /\ TypeOK
  BY DEF TypeOK
<1>1. CASE PORTAccepted \/ PASVNamesNoPort
  <2>1. PICK c \in CipType : /\ GetResponse("open", {2}, c) /\ c.ctrlSocket = cip.ctrlSocket
    <3>1. CASE PORTAccepted
      <4> DEFINE c == [cip EXCEPT !.dataSocket = "listen", !.dataPortMode = "PORT", !.startPoint = 0]
      <4>1. c \in CipType /\ c.ctrlSocket = cip.ctrlSocket
        BY <1>0 DEF CipType
      <4>2. GetResponse("open", {2}, c)
        BY <3>1 DEF PORTAccepted
      <4> QED
        BY <4>1, <4>2
    <3>2. CASE PASVNamesNoPort
      <4> DEFINE c == [cip EXCEPT !.dataSocket = "bogus", !.hasPASV = "available", !.startPoint = 0]
      <4>1. c \in CipType /\ c.ctrlSocket = cip.ctrlSocket
        BY <1>0 DEF CipType
      <4>2. GetResponse("open", {2}, c)
        BY <3>2 DEF PASVNamesNoPort
      <4> QED
        BY <4>1, <4>2
    <3> QED
      BY <1>1, <3>1, <3>2
  <2>2. /\ pc = "open" /\ cip.ctrlSocket = "open" /\ cip'.ctrlSocket = "open"
        /\ UNCHANGED <<srv, abandoned>> /\ SendRestOrCommand /\ op.cmd = op.kind
    BY <1>0, <1>1, <2>1, ReadFields DEF PORTAccepted, PASVNamesNoPort, PairInv, CmdOK
  <2>3. pc' \in {"rest", "start"}
    BY <2>2 DEF SendRestOrCommand
  <2>4. ASSUME abandoned = {} PROVE Paired'
    <3>1. PICK v : Exchange(v)
      BY <2>2, <2>4 DEF PairInv, Paired
    <3>2. Unreads(0)' /\ SrvReady /\ NoCommand
      BY <1>0, <2>1, <2>2, <3>1, ReadAnswer DEF NoCommand
    <3> QED
      BY <2>2, <3>2, RestOrCommandAsked
  <2> QED
    BY <2>2, <2>3, <2>4 DEF PairInv, ClosedOK, CmdOK
<1>2. CASE PASVAccepted
  <2> DEFINE c == [cip EXCEPT !.startPoint = 0]
  <2>1. /\ c \in CipType /\ c.ctrlSocket = cip.ctrlSocket
        /\ c.hasPASV = cip.hasPASV /\ c.dataPortMode = cip.dataPortMode
    BY <1>0 DEF CipType
  <2>2. GetResponse("open", {2}, c)
    BY <1>2 DEF PASVAccepted
  <2> HIDE DEF c
  <2>3. /\ pc = "open" /\ pc' = "connect" /\ cip.ctrlSocket = "open" /\ cip'.ctrlSocket = "open"
        /\ UNCHANGED <<op, cmdQ, srv, abandoned>> /\ ~UsesPORT
    BY <1>0, <1>2, <2>1, <2>2, ReadFields DEF PASVAccepted
  <2>4. ~UsesPORT'
    BY <1>0, <2>1, <2>2, <2>3, ReadKeeps DEF UsesPORT
  <2>5. abandoned = {} => Quiet'
    <3>1. abandoned = {} => Exchange("PASV")
      BY <2>3 DEF PairInv, Paired
    <3> QED
      BY <1>0, <2>1, <2>2, <2>3, <3>1, NextQuiet
  <2> QED
    BY <2>3, <2>4, <2>5 DEF PairInv, ClosedOK, CmdOK, Paired
<1>3. CASE OpenRefused
  <2> DEFINE c == PASVRefused(cip)
  <2>1. c \in CipType /\ c.ctrlSocket = cip.ctrlSocket
    BY <1>0, RefusedFields
  <2>2. GetResponse("open", {1, 3, 4, 5}, c)
    BY <1>3 DEF OpenRefused
  <2>3. pc = "open" /\ cip.ctrlSocket = "open" /\ cip'.ctrlSocket = "open"
    BY <1>0, <2>1, <2>2, ReadFields
  <2>4. ~UsesPORT => c.hasPASV = "unavailable"
    BY <1>0, <2>3 DEF PASVRefused, CipType
  <2> HIDE DEF c
  <2>5. abandoned = {} => \E v : Exchange(v)
    BY <2>3 DEF PairInv, Paired
  <2>6. CASE ~UsesPORT /\ cip.dataPortMode = "FALLBACK"
    <3>1. UNCHANGED <<pc, op, srv, abandoned>> /\ Send("PORT", 0)
      BY <1>3, <2>6 DEF OpenRefused
    <3>2. UsesPORT'
      BY <1>0, <2>1, <2>2, <2>4, <2>6, ReadKeeps DEF UsesPORT
    <3>3. abandoned = {} => Exchange("PORT")'
      BY <1>0, <2>1, <2>2, <2>5, <3>1, NextAsked
    <3> QED
      BY <2>3, <3>1, <3>2, <3>3 DEF PairInv, ClosedOK, CmdOK, Paired
  <2>7. CASE ~(~UsesPORT /\ cip.dataPortMode = "FALLBACK")
    <3>1. UNCHANGED <<cmdQ, srv, abandoned>> /\ pc' = "idle"
      BY <1>3, <2>7 DEF OpenRefused, StartFails, Return
    <3> QED
      BY <2>1, <2>2, <2>5, <3>1, StartFailsPair
  <2> QED
    BY <2>6, <2>7
<1> QED
  BY <1>1, <1>2, <1>3 DEF OpenReply

\* While the library connects it reads nothing, and sends one command after it.
LEMMA ConnectPair ==
  ASSUME IInv, PairInv, Connect
  PROVE  PairInv'
<1> USE DEF IInv
<1>0. /\ op \in OpType /\ cip \in CipType /\ TypeOK /\ pc = "connect"
      /\ cip.ctrlSocket = "open" /\ op.cmd = op.kind /\ ~UsesPORT
      /\ UNCHANGED <<repQ, srv, abandoned>>
  <2>1. TypeOK /\ pc = "connect" /\ UNCHANGED <<repQ, srv, abandoned>>
    BY DEF Connect, Connected, ConnectAgain, ConnectFails, ConnectFallsBack, ConnectExhausted, StartFails
  <2>2. op \in OpType /\ cip \in CipType /\ cip.ctrlSocket = "open"
    BY <2>1 DEF TypeOK, SocketOK, CipType
  <2> QED
    BY <2>1, <2>2 DEF PairInv, CmdOK
<1>1. cip'.ctrlSocket = "open" /\ cip'.ctrlSrl = cip.ctrlSrl
  BY <1>0 DEF Connect, Connected, ConnectAgain, ConnectFails, ConnectFallsBack, ConnectExhausted, CipType
<1>2. abandoned = {} => Unreads(0)' /\ SrvReady /\ NoCommand
  BY <1>0, <1>1, UnreadKept DEF PairInv, Paired, Quiet
<1>3. CASE Connected \/ ConnectExhausted
  <2>1. SendRestOrCommand
    BY <1>3 DEF Connected, ConnectExhausted
  <2>2. pc' \in {"rest", "start"}
    BY <2>1 DEF SendRestOrCommand
  <2>3. abandoned = {} => Paired'
    BY <1>0, <1>2, <2>1, RestOrCommandAsked
  <2> QED
    BY <1>0, <1>1, <2>2, <2>3 DEF PairInv, ClosedOK, CmdOK
<1>4. CASE ConnectAgain
  <2>1. /\ op' = [op EXCEPT !.tries = @ - 1] /\ Send("PASV", 0) /\ pc' = "open" /\ UNCHANGED cip
    BY <1>4 DEF ConnectAgain
  <2>2. op'.cmd = op'.kind
    BY <1>0, <2>1 DEF OpType
  <2>3. ~UsesPORT'
    BY <1>0, <2>1 DEF UsesPORT
  <2>4. abandoned = {} => Exchange("PASV")'
    BY <1>0, <1>2, <2>1, SendAsks DEF Exchange
  <2> QED
    BY <1>0, <1>1, <2>1, <2>2, <2>3, <2>4 DEF PairInv, ClosedOK, CmdOK, Paired
<1>5. CASE ConnectFails
  <2>1. pc' = "idle" /\ UNCHANGED cmdQ
    BY <1>5 DEF ConnectFails, StartFails, Return
  <2>2. abandoned = {} => Quiet'
    BY <1>0, <1>2, <2>1 DEF Quiet, SrvReady, NoCommand, Lost
  <2> QED
    BY <1>0, <1>1, <2>1, <2>2 DEF PairInv, ClosedOK, CmdOK, Paired
<1>6. CASE ConnectFallsBack
  <2>1. /\ cip' = [cip EXCEPT !.hasPASV = "unavailable"] /\ op' = op
        /\ Send("PORT", 0) /\ pc' = "open"
    BY <1>6 DEF ConnectFallsBack
  <2>2. UsesPORT'
    BY <1>0, <2>1 DEF UsesPORT, CipType
  <2>3. abandoned = {} => Exchange("PORT")'
    BY <1>0, <1>2, <2>1, SendAsks DEF Exchange
  <2> QED
    BY <1>0, <1>1, <2>1, <2>2, <2>3 DEF PairInv, ClosedOK, CmdOK, Paired
<1> QED
  BY <1>3, <1>4, <1>5, <1>6 DEF Connect

\* The transfer command is sent when the reply to REST has been read.
LEMMA CommandAsked ==
  ASSUME Unreads(0)', SrvReady, NoCommand, UNCHANGED srv, NEW off, Send(op'.cmd, off)
  PROVE  StartAsked'
<1>1. PICK v : v = op'.cmd
  OBVIOUS
<1>2. Asked(v)'
  BY <1>1, SendAsks
<1> QED
  BY <1>1, <1>2 DEF StartAsked, Asked

\* The reply to REST, and the reply to the REST 0 before an APPE.
LEMMA RestReplyPair ==
  ASSUME IInv, PairInv, RestReply \/ Rest0Reply
  PROVE  PairInv'
<1> USE DEF IInv
<1>0. op \in OpType /\ cip \in CipType /\ TypeOK
  BY DEF TypeOK
<1>1. CASE RestReply
  <2> DEFINE App(ok) == ~ok /\ op.kind = "STOR" /\ UseAPPE
             C(ok, has) == [cip EXCEPT !.startPoint = IF ok \/ App(ok) THEN op.start ELSE 0,
                                       !.hasREST = has]
  <2>1. PICK ok \in BOOLEAN : \E has \in LearnREST(ok) :
          /\ GetResponse("rest", IF ok THEN {1, 2, 3} ELSE {4, 5}, C(ok, has))
          /\ Send(op'.cmd, IF App(ok) THEN op.start ELSE 0) /\ pc' = "start"
          /\ UNCHANGED <<link, wire, srv, abandoned>>
    BY <1>1 DEF RestReply
  <2>2. PICK has \in LearnREST(ok) :
          GetResponse("rest", IF ok THEN {1, 2, 3} ELSE {4, 5}, C(ok, has))
    BY <2>1
  <2>3. C(ok, has) \in CipType /\ C(ok, has).ctrlSocket = cip.ctrlSocket
    <3>1. op.start \in Nat /\ has \in {"unknown", "available", "unavailable"}
      BY <1>0 DEF OpType, CipType, LearnREST
    <3> QED
      BY <1>0, <3>1 DEF CipType
  <2>4. Send(op'.cmd, IF App(ok) THEN op.start ELSE 0) /\ pc' = "start" /\ UNCHANGED <<srv, abandoned>>
    BY <2>1
  <2> HIDE DEF C, App
  <2>5. pc = "rest" /\ cip.ctrlSocket = "open" /\ cip'.ctrlSocket = "open"
    BY <1>0, <2>2, <2>3, ReadFields
  <2>6. ASSUME abandoned = {} PROVE Paired'
    <3>1. Exchange("REST")
      BY <2>5, <2>6 DEF PairInv, Paired
    <3>2. Unreads(0)' /\ SrvReady /\ NoCommand
      BY <1>0, <2>2, <2>3, <2>4, <3>1, ReadAnswer DEF NoCommand
    <3>3. StartAsked'
      BY <2>4, <3>2, CommandAsked
    <3> QED
      BY <2>4, <3>3 DEF Paired
  <2> QED
    BY <2>4, <2>5, <2>6 DEF PairInv, ClosedOK, CmdOK
<1>2. CASE Rest0Reply
  <2>1. /\ GetResponse("rest0", {1, 2, 3, 4, 5}, cip) /\ UNCHANGED <<op, srv, abandoned>>
        /\ Send("APPE", op.start) /\ pc' = "appe"
    BY <1>2 DEF Rest0Reply
  <2>2. pc = "rest0" /\ cip.ctrlSocket = "open" /\ cip'.ctrlSocket = "open" /\ op'.cmd = "APPE"
    BY <1>0, <2>1, ReadFields DEF PairInv, CmdOK
  <2>3. ASSUME abandoned = {} PROVE Paired'
    <3>1. Exchange("REST")
      BY <2>2, <2>3 DEF PairInv, Paired
    <3>2. Unreads(0)' /\ SrvReady /\ NoCommand
      BY <1>0, <2>1, <3>1, ReadAnswer DEF NoCommand
    <3>3. StartAsked'
      BY <2>1, <2>2, <3>2, CommandAsked
    <3> QED
      BY <2>1, <3>3 DEF Paired
  <2> QED
    BY <2>1, <2>2, <2>3 DEF PairInv, ClosedOK, CmdOK
<1> QED
  BY <1>1, <1>2

\* The reply to a transfer command: a refusal is its only one, a preliminary
\* one leaves the final one to come or to read.
LEMMA ReadStart ==
  ASSUME TypeOK, NEW p, NEW Codes, NEW c \in CipType, GetResponse(p, Codes, c),
         UNCHANGED srv, StartAsked
  PROVE  /\ cmdQ = <<>> /\ NextReply.code \in {1, 5} \cap Codes
         /\ NextReply.code = 5 => Unreads(0)' /\ SrvReady
         /\ NextReply.code = 1 =>
              /\ OwnJob
              /\ \/ Unreads(0)' /\ Running
                 \/ Unreads(1)' /\ SrvReady /\ Own(2, op.cmd) /\ Unread'[1] = Unread[2]
<1>1. HaveReply /\ Receive(c) /\ NextReply.code # 421 /\ NextReply.code \in Codes
  BY DEF GetResponse
<1>2. ASSUME NEW n \in Nat, Unreads(n)
      PROVE  /\ n > 0 /\ Unreads(n - 1)' /\ NextReply = Unread[1]
             /\ n = 2 => Unread'[1] = Unread[2]
  BY <1>1, <1>2, ReadsOne
<1>3. ~Unreads(0)
  BY <1>2
<1>4. Unreads(1) => Unreads(0)' /\ NextReply = Unread[1]
  <2>1. Unreads(1) => Unreads(1 - 1)' /\ NextReply = Unread[1]
    BY <1>2
  <2>2. 1 - 1 = 0
    OBVIOUS
  <2> QED
    BY <2>1, <2>2
<1>5. Unreads(2) => Unreads(1)' /\ NextReply = Unread[1] /\ Unread'[1] = Unread[2]
  <2>1. Unreads(2) => Unreads(2 - 1)' /\ NextReply = Unread[1] /\ Unread'[1] = Unread[2]
    BY <1>2
  <2>2. 2 - 1 = 1
    OBVIOUS
  <2> QED
    BY <2>1, <2>2
<1>6. CASE Answered(op.cmd) /\ Unread[1].code = 5
  BY <1>1, <1>4, <1>6 DEF Answered
<1>7. CASE /\ cmdQ = <<>> /\ Own(1, op.cmd) /\ Unread[1].code = 1 /\ OwnJob
           /\ \/ Unreads(1) /\ Running
              \/ Unreads(2) /\ Own(2, op.cmd) /\ SrvReady
  BY <1>1, <1>4, <1>5, <1>7
<1> QED
  BY <1>3, <1>6, <1>7 DEF StartAsked, Asked

\* A preliminary reply leaves the transfer under way, a refusal nothing.
LEMMA StartReplyPair ==
  ASSUME IInv, PairInv, StartReply
  PROVE  PairInv'
<1> USE DEF IInv
<1>0. op \in OpType /\ cip \in CipType /\ TypeOK
  BY DEF TypeOK
<1>1. PICK p \in {"start", "appe"} :
        StartThenAccept(p) \/ StartThenTransfer(p) \/ StartRetried(p) \/ StartRefused(p)
  BY DEF StartReply
<1>2. CASE StartThenAccept(p) \/ StartThenTransfer(p)
  <2>1. PICK c \in CipType : GetResponse(p, {1, 2}, c) /\ c.ctrlSocket = cip.ctrlSocket
    BY <1>0, <1>2, BegunFields DEF StartThenAccept, StartThenTransfer
  <2>2. /\ pc \in {"start", "appe"} /\ cip.ctrlSocket = "open" /\ cip'.ctrlSocket = "open"
        /\ UNCHANGED <<op, cmdQ, srv, abandoned>> /\ pc' \in {"accept", "xfer"}
    BY <1>0, <1>2, <2>1, ReadFields DEF StartThenAccept, StartThenTransfer
  <2>3. ASSUME abandoned = {} PROVE Paired'
    <3>1. StartAsked
      BY <2>2, <2>3 DEF PairInv, Paired
    <3>2. /\ cmdQ = <<>> /\ OwnJob
          /\ \/ Unreads(0)' /\ Running
             \/ Unreads(1)' /\ SrvReady /\ Own(2, op.cmd) /\ Unread'[1] = Unread[2]
      BY <1>0, <2>1, <2>2, <3>1, ReadStart
    <3>3. Transferring'
      BY <2>2, <3>2 DEF Transferring, NoCommand, OwnJob, Running, SrvReady, Own
    <3> QED
      BY <2>2, <3>3 DEF Paired
  <2> QED
    BY <2>2, <2>3 DEF PairInv, ClosedOK, CmdOK
<1>3. CASE StartRetried(p)
  <2>1. /\ GetResponse(p, {3, 4, 5}, cip) /\ op' = [op EXCEPT !.cmd = "APPE"]
        /\ Send("REST", 0) /\ pc' = "rest0" /\ UNCHANGED <<srv, abandoned>>
    BY <1>3 DEF StartRetried
  <2>2. /\ pc \in {"start", "appe"} /\ cip.ctrlSocket = "open" /\ cip'.ctrlSocket = "open"
        /\ op'.cmd = "APPE"
    BY <1>0, <2>1, ReadFields DEF OpType
  <2>3. ASSUME abandoned = {} PROVE Paired'
    <3>1. StartAsked
      BY <2>2, <2>3 DEF PairInv, Paired
    <3>2. cmdQ = <<>> /\ Unreads(0)' /\ SrvReady
      BY <1>0, <2>1, <3>1, ReadStart
    <3>3. Exchange("REST")'
      BY <2>1, <3>2, SendAsks DEF NoCommand, Exchange
    <3> QED
      BY <2>1, <3>3 DEF Paired
  <2> QED
    BY <2>1, <2>2, <2>3 DEF PairInv, ClosedOK, CmdOK
<1>4. CASE StartRefused(p)
  <2>1. /\ GetResponse(p, {3, 4, 5}, Closed(cip)) /\ Closed(cip) \in CipType
        /\ pc' = "idle" /\ UNCHANGED <<cmdQ, srv, abandoned>>
    BY <1>0, <1>4, ClosedFields DEF StartRefused, StartFails, Return
  <2>2. /\ pc \in {"start", "appe"} /\ cip.ctrlSocket = "open" /\ cip'.ctrlSocket = "open"
    BY <1>0, <2>1, ReadFields, ClosedFields
  <2>3. ASSUME abandoned = {} PROVE Paired'
    <3>1. StartAsked
      BY <2>2, <2>3 DEF PairInv, Paired
    <3>2. cmdQ = <<>> /\ Unreads(0)' /\ SrvReady
      BY <1>0, <2>1, <3>1, ReadStart
    <3>3. Quiet'
      BY <2>1, <3>2 DEF NoCommand, Quiet, SrvReady
    <3> QED
      BY <2>1, <3>3 DEF Paired
  <2> QED
    BY <2>1, <2>2, <2>3 DEF PairInv, ClosedOK, CmdOK
<1> QED
  BY <1>1, <1>2, <1>3, <1>4

-----------------------------------------------------------------------------
(* The transfer, its end and its abort.                                     *)

\* What the control connection holds does not depend on the data connection.
LEMMA TransferringKept ==
  ASSUME cip'.ctrlSrl = cip.ctrlSrl, UNCHANGED <<cmdQ, repQ, srv>>, op'.cmd = op.cmd,
         op'.no = op.no, Transferring
  PROVE  Transferring'
<1>1. Unread' = Unread /\ \A n : Unreads(n) => Unreads(n)'
  BY UnreadKept
<1> QED
  BY <1>1 DEF Transferring, NoCommand, OwnJob, Running, SrvReady, Own, Lost

\* What the steps of a transfer leave alone.
LEMMA LoopFrame ==
  ASSUME IInv, \/ Accepted \/ GetBlock \/ GetEnds \/ PutBlock \/ PutEnds \/ PutBreaks \/ PutDone
  PROVE  /\ pc \in {"accept", "xfer", "eofwait"} /\ pc' \in {"xfer", "eofwait", "final"}
         /\ cip'.ctrlSrl = cip.ctrlSrl /\ cip'.ctrlSocket = cip.ctrlSocket
         /\ op'.cmd = op.cmd /\ op'.no = op.no
         /\ UNCHANGED <<cmdQ, repQ, srv, abandoned>>
<1>0. op \in OpType /\ cip \in CipType
  BY DEF IInv, TypeOK
<1>1. ASSUME NEW c, NEW result, EndDataCmd(c, result),
             c \in {cip, [cip EXCEPT !.dataTimedOut = TRUE], [cip EXCEPT !.cancelXfer = TRUE]}
      PROVE  /\ pc' = "final" /\ cip'.ctrlSrl = cip.ctrlSrl /\ cip'.ctrlSocket = cip.ctrlSocket
             /\ op'.cmd = op.cmd /\ op'.no = op.no
             /\ UNCHANGED <<cmdQ, repQ, srv, abandoned>>
  <2>1. c \in CipType /\ c.ctrlSrl = cip.ctrlSrl /\ c.ctrlSocket = cip.ctrlSocket
    BY <1>0, <1>1 DEF CipType
  <2>2. cip'.ctrlSrl = cip.ctrlSrl /\ cip'.ctrlSocket = cip.ctrlSocket
    BY <1>1, <2>1 DEF EndDataCmd, Closed, CipType
  <2> QED
    BY <1>0, <1>1, <2>2 DEF EndDataCmd, OpType
<1>2. CASE Accepted
  BY <1>0, <1>2 DEF Accepted, Begun, CipType, net
<1>3. CASE GetBlock \/ PutBlock \/ PutEnds
  BY <1>0, <1>3 DEF GetBlock, PutBlock, PutEnds, OpType
<1>4. CASE GetEnds
  BY <1>1, <1>4 DEF GetEnds
<1>5. CASE PutBreaks
  BY <1>1, <1>5 DEF PutBreaks
<1>6. CASE PutDone
  BY <1>1, <1>6 DEF PutDone
<1> QED
  BY <1>2, <1>3, <1>4, <1>5, <1>6

\* No step of a transfer reads or writes the control connection.
LEMMA LoopPair ==
  ASSUME IInv, PairInv,
         \/ Accepted \/ GetBlock \/ GetEnds \/ PutBlock \/ PutEnds \/ PutBreaks \/ PutDone
  PROVE  PairInv'
<1>1. /\ pc \in {"accept", "xfer", "eofwait"} /\ pc' \in {"xfer", "eofwait", "final"}
      /\ cip'.ctrlSrl = cip.ctrlSrl /\ cip'.ctrlSocket = cip.ctrlSocket
      /\ op'.cmd = op.cmd /\ op'.no = op.no
      /\ UNCHANGED <<cmdQ, repQ, srv, abandoned>>
  BY LoopFrame
<1>2. ClosedOK' /\ CmdOK'
  BY <1>1 DEF PairInv, ClosedOK, CmdOK, Lost
<1>3. ASSUME cip.ctrlSocket = "open", abandoned = {} PROVE Paired'
  <2>1. Transferring'
    BY <1>1, <1>3, TransferringKept DEF PairInv, Paired
  <2> QED
    BY <1>1, <2>1 DEF Paired
<1> QED
  BY <1>1, <1>2, <1>3 DEF PairInv

\* The two failures that leave the final reply to be read are recorded.
LEMMA AbandonPair ==
  ASSUME IInv, PairInv, AcceptFails \/ UndoSeekFails
  PROVE  PairInv'
<1>1. abandoned' # {} /\ pc' = "idle" /\ cip.ctrlSocket = "open" /\ cip'.ctrlSocket = cip.ctrlSocket
  BY ClosedFields DEF AcceptFails, UndoSeekFails, StartFails, Return, IInv, SocketOK, TypeOK, CipType
<1> QED
  BY <1>1 DEF PairInv, ClosedOK, CmdOK

\* The final reply is the last of the transfer's.
LEMMA FinalReplyPair ==
  ASSUME IInv, PairInv, FinalReply
  PROVE  PairInv'
<1> USE DEF IInv
<1>1. PICK ok \in BOOLEAN : GetResponse("final", IF ok THEN {2} ELSE {1, 3, 4, 5}, cip)
  BY DEF FinalReply
<1>2. /\ TypeOK /\ cip \in CipType /\ UNCHANGED <<cmdQ, srv, abandoned>> /\ pc' = "idle"
      /\ HaveReply /\ Receive(cip) /\ NextReply.code # 421
  BY <1>1 DEF FinalReply, Return, TypeOK, GetResponse
<1>3. pc = "final" /\ cip.ctrlSocket = "open" /\ cip'.ctrlSocket = "open"
  BY <1>1, <1>2, ReadFields
<1>4. ASSUME abandoned = {} PROVE Paired'
  <2>1. Transferring
    BY <1>3, <1>4 DEF PairInv, Paired
  <2>2. ~Unreads(0) /\ (Unreads(1) => Unreads(1 - 1)')
    BY <1>2, ReadsOne
  <2>3. Unreads(0)' /\ SrvReady /\ NoCommand
    BY <2>1, <2>2 DEF Transferring
  <2>4. Quiet'
    BY <1>2, <2>3 DEF Quiet, SrvReady, NoCommand, Lost
  <2> QED
    BY <1>2, <2>4 DEF Paired
<1> QED
  BY <1>2, <1>3, <1>4 DEF PairInv, ClosedOK, CmdOK

\* ABOR follows whatever the transfer has under way.
LEMMA AbortPair ==
  ASSUME IInv, PairInv, Abort
  PROVE  PairInv'
<1>0. op \in OpType /\ cip \in CipType
  BY DEF IInv, TypeOK
<1>1. /\ pc = "xfer" /\ pc' = "abort1" /\ Send("ABOR", 0) /\ UNCHANGED <<repQ, srv, abandoned>>
      /\ cip' = [cip EXCEPT !.cancelXfer = TRUE, !.canceling = TRUE]
      /\ op' = [op EXCEPT !.result = "err"]
  BY DEF Abort
<1>2. /\ cip'.ctrlSrl = cip.ctrlSrl /\ cip'.ctrlSocket = cip.ctrlSocket
      /\ op'.cmd = op.cmd /\ op'.no = op.no /\ op'.kind = op.kind
  BY <1>0, <1>1 DEF CipType, OpType
<1>3. op.kind # "QUIT" /\ cip.ctrlSocket = "open"
  BY <1>0, <1>1 DEF IInv, KindOK, SocketOK, Transfers, CipType
<1>4. ASSUME abandoned = {} PROVE Paired'
  <2>1. Transferring
    BY <1>1, <1>3, <1>4 DEF PairInv, Paired
  <2>2. Unread' = Unread /\ \A n : Unreads(n) => Unreads(n)'
    BY <1>1, <1>2, UnreadKept
  <2>3. Lost' \/ Outstanding("ABOR")'
    <3> DEFINE r == [verb |-> "ABOR", type |-> op'.type, off |-> 0, op |-> op'.no]
    <3>1. Lost => Lost'
      BY <1>1 DEF Lost
    <3>2. cmdQ = <<>> => cmdQ' = Append(<<>>, r)
      BY <1>1 DEF Send
    <3>3. Len(Append(<<>>, r)) = 1 /\ Append(<<>>, r)[1] = r
      OBVIOUS
    <3> QED
      BY <2>1, <3>1, <3>2, <3>3 DEF Transferring, NoCommand, Outstanding
  <2>4. AbortAsked'
    BY <1>1, <1>2, <1>3, <2>1, <2>2, <2>3
       DEF Transferring, AbortAsked, OwnJob, Running, SrvReady, Own, Lost
  <2> QED
    BY <1>1, <2>4 DEF Paired
<1> QED
  BY <1>1, <1>2, <1>3, <1>4 DEF PairInv, ClosedOK, CmdOK

\* FTPCloseHost says QUIT with nothing under way; it has something to abort
\* only where a failed seek has left it.
LEMMA FTPCloseHostPair ==
  ASSUME IInv, PairInv, FTPCloseHost
  PROVE  PairInv'
<1>0. cip \in CipType
  BY DEF IInv, TypeOK
<1>1. /\ pc = "idle" /\ cip.ctrlSocket = "open" /\ UNCHANGED <<repQ, srv, abandoned>>
      /\ pc' \in {"quit", "abort1"} /\ cip'.ctrlSrl = cip.ctrlSrl /\ cip'.ctrlSocket = "open"
  BY <1>0 DEF FTPCloseHost, NewOp, CipType
<1>2. ASSUME abandoned = {} PROVE Paired'
  <2>1. cip.dataSocket = "closed"
    BY <1>1, <1>2 DEF IInv, SocketOK
  <2>2. Send("QUIT", 0) /\ pc' = "quit"
    BY <2>1 DEF FTPCloseHost
  <2>3. Quiet
    BY <1>1, <1>2 DEF PairInv, Paired
  <2>4. Unreads(0)' /\ SrvReady /\ NoCommand
    BY <1>1, <2>3, UnreadKept DEF Quiet
  <2>5. Exchange("QUIT")'
    BY <1>1, <2>2, <2>4, SendAsks DEF Exchange
  <2> QED
    BY <2>2, <2>5 DEF Paired
<1> QED
  BY <1>1, <1>2 DEF PairInv, ClosedOK, CmdOK

\* Waiting for the answer to ABOR reads nothing.
LEMMA AbortWaitPair ==
  ASSUME IInv, PairInv, AbortWait
  PROVE  PairInv'
<1>0. op \in OpType /\ cip \in CipType
  BY DEF IInv, TypeOK
<1>1. CASE AbortGivesUp
  <2>1. /\ abandoned' # {} /\ pc' \in {"quit", "final"}
        /\ pc = "abort2" /\ cip' = [cip EXCEPT !.canceling = FALSE]
    BY <1>1 DEF AbortGivesUp, AbortReturns
  <2>2. cip.ctrlSocket = "open" /\ cip'.ctrlSocket = "open"
    BY <1>0, <2>1 DEF IInv, SocketOK, CipType
  <2> QED
    BY <2>1, <2>2 DEF PairInv, ClosedOK, CmdOK
<1>2. CASE AbortSeen \/ AbortCloses
  <2>1. /\ pc \in {"abort1", "abort2"} /\ pc' \in {"abort2", "abortReply"}
        /\ cip'.ctrlSrl = cip.ctrlSrl /\ cip'.ctrlSocket = cip.ctrlSocket
        /\ UNCHANGED <<op, cmdQ, repQ, srv, abandoned>>
    BY <1>0, <1>2 DEF AbortSeen, AbortCloses, Closed, CipType, net
  <2>2. AbortAsked => AbortAsked'
    <3>1. Unread' = Unread /\ \A n : Unreads(n) => Unreads(n)'
      BY <2>1, UnreadKept
    <3> QED
      BY <2>1, <3>1 DEF AbortAsked, OwnJob, Running, SrvReady, Own, Lost, Outstanding
  <2>3. cip.ctrlSocket = "open" /\ abandoned = {} => AbortAsked
    BY <2>1 DEF PairInv, Paired
  <2> QED
    BY <2>1, <2>2, <2>3 DEF PairInv, ClosedOK, CmdOK, Paired, Lost
<1>3. CASE AbortUnsent
  <2>1. /\ pc = "abort1" /\ Lost /\ cmdQ # <<>> /\ pc' \in {"quit", "final"}
        /\ op.kind # "QUIT" => pc' = "final"
        /\ UNCHANGED <<op, repQ, srv, abandoned>>
        /\ cip' = [Closed(cip) EXCEPT !.canceling = FALSE]
    BY <1>3 DEF AbortUnsent, AbortReturns, Lost
  <2>2. /\ cip'.ctrlSrl = cip.ctrlSrl /\ cip'.ctrlSocket = "open" /\ cip.ctrlSocket = "open"
    BY <1>0, <2>1 DEF IInv, SocketOK, Closed, CipType
  <2>3. ASSUME abandoned = {} PROVE pc' = "final" /\ Transferring'
    <3>1. AbortAsked
      BY <2>1, <2>2, <2>3 DEF PairInv, Paired
    <3>2. Unread' = Unread /\ \A n : Unreads(n) => Unreads(n)'
      BY <2>1, <2>2, UnreadKept
    <3>3. Lost' /\ OwnJob'
      BY <2>1, <3>1 DEF AbortAsked, Lost, OwnJob
    <3> QED
      BY <2>1, <3>1, <3>2, <3>3
         DEF AbortAsked, Transferring, Running, SrvReady, Own, NoCommand
  <2> QED
    BY <2>1, <2>2, <2>3 DEF PairInv, ClosedOK, CmdOK, Paired
<1> QED
  BY <1>1, <1>2, <1>3 DEF AbortWait

\* The transfer's own reply is read first; the abort is over when ABOR's is.
LEMMA AbortReplyPair ==
  ASSUME IInv, PairInv, AbortReply
  PROVE  PairInv'
<1> USE DEF IInv
<1>0. op \in OpType /\ cip \in CipType /\ TypeOK
  BY DEF TypeOK
<1>1. PICK p \in {"abortReply", "abortReply2"}, Codes \in SUBSET {1, 2, 3, 4, 5}, c \in CipType :
        /\ GetResponse(p, Codes, c) /\ c.ctrlSocket = cip.ctrlSocket
        /\ TransferAborted => p = "abortReply"
        /\ ~TransferAborted => Aborted(p, Codes)
  <2>1. CASE TransferAborted
    BY <1>0, <2>1 DEF TransferAborted
  <2>2. CASE ~TransferAborted
    <3>1. PICK p \in {"abortReply", "abortReply2"}, Codes \in SUBSET {1, 2, 3, 4, 5} : Aborted(p, Codes)
      BY <2>2 DEF AbortReply
    <3> DEFINE c == [Closed(cip) EXCEPT !.canceled = TRUE, !.canceling = FALSE]
    <3>2. c \in CipType /\ c.ctrlSocket = cip.ctrlSocket
      BY <1>0 DEF CipType, Closed
    <3>3. GetResponse(p, Codes, c)
      BY <3>1 DEF Aborted
    <3> QED
      BY <2>2, <3>1, <3>2, <3>3
  <2> QED
    BY <2>1, <2>2
<1>2. /\ pc = p /\ cip.ctrlSocket = "open" /\ cip'.ctrlSocket = "open"
      /\ HaveReply /\ Receive(c) /\ NextReply.code # 421
  BY <1>0, <1>1, ReadFields DEF GetResponse
<1>3. ASSUME AbortAsked, UNCHANGED srv
      PROVE  /\ Own(1, op.cmd) /\ NextReply = Unread[1]
             /\ \/ Unreads(0)' /\ SrvReady /\ (Lost \/ Outstanding("ABOR"))
                \/ Unreads(1)' /\ Unread'[1] = Unread[2] /\ Own(2, "ABOR")
                     /\ SrvReady /\ cmdQ = <<>>
  <2>1. ~Unreads(0)
    BY <1>0, <1>2, <1>3, ReadsOne
  <2>2. Unreads(1) => Unreads(1 - 1)' /\ NextReply = Unread[1]
    BY <1>0, <1>2, <1>3, ReadsOne
  <2>3. Unreads(2) => Unreads(2 - 1)' /\ NextReply = Unread[1] /\ Unread'[1] = Unread[2]
    <3>1. Unreads(2) => /\ Unreads(2 - 1)' /\ NextReply = Unread[1]
                        /\ \A i \in 1..(2 - 1) : Unread'[i] = Unread[i + 1]
      BY <1>0, <1>2, <1>3, ReadsOne
    <3>2. 1 \in 1..(2 - 1) /\ 1 + 1 = 2
      OBVIOUS
    <3> QED
      BY <3>1, <3>2
  <2>4. 1 - 1 = 0 /\ 2 - 1 = 1
    OBVIOUS
  <2>5. (Unreads(1) => Unreads(0)') /\ (Unreads(2) => Unreads(1)')
    BY <2>2, <2>3, <2>4
  <2> QED
    BY <1>3, <2>1, <2>2, <2>3, <2>5 DEF AbortAsked
<1>4. CASE TransferAborted
  <2>1. UNCHANGED <<op, cmdQ, srv, abandoned>> /\ pc' = "abortReply2" /\ p = "abortReply"
    BY <1>1, <1>4 DEF TransferAborted
  <2>2. ASSUME abandoned = {} PROVE Paired'
    <3>1. AbortAsked
      BY <1>2, <2>1, <2>2 DEF PairInv, Paired
    <3>2. Exchange("ABOR")'
      BY <1>3, <2>1, <3>1 DEF Exchange, Asked, Answered, Own, SrvReady, Lost, Outstanding
    <3> QED
      BY <2>1, <3>2 DEF Paired
  <2> QED
    BY <1>2, <2>1, <2>2 DEF PairInv, ClosedOK, CmdOK
<1>5. CASE ~TransferAborted
  <2>1. /\ Aborted(p, Codes) /\ UNCHANGED <<op, srv>> /\ pc' \in {"quit", "idle"}
        /\ abandoned' = IF NextReply.verb = "ABOR" THEN abandoned ELSE abandoned \cup {"abort"}
        /\ \/ Send("QUIT", 0) /\ pc' = "quit"
           \/ UNCHANGED cmdQ /\ pc' = "idle"
    BY <1>1, <1>5 DEF Aborted, AbortReturns
  <2>2. ASSUME abandoned' = {} PROVE Paired'
    <3>1. abandoned = {} /\ NextReply.verb = "ABOR"
      BY <2>1, <2>2
    <3>2. pc = "abortReply2"
      <4>1. pc = "abortReply" => AbortAsked
        BY <1>2, <3>1 DEF PairInv, Paired
      <4>2. pc = "abortReply" => op.cmd \in Transfers
        BY <4>1 DEF KindOK, Aborting, AbortAsked
      <4> QED
        BY <1>2, <1>3, <2>1, <3>1, <4>1, <4>2 DEF Own, Transfers
    <3>3. Exchange("ABOR")
      BY <1>2, <3>1, <3>2 DEF PairInv, Paired
    <3>4. Send("QUIT", 0) => Exchange("QUIT")'
      BY <1>0, <1>1, <2>1, <3>3, NextAsked
    <3>5. UNCHANGED cmdQ => Quiet'
      BY <1>0, <1>1, <2>1, <3>3, NextQuiet
    <3> QED
      BY <2>1, <3>4, <3>5 DEF Paired
  <2> QED
    BY <1>2, <2>1, <2>2 DEF PairInv, ClosedOK, CmdOK
<1> QED
  BY <1>4, <1>5
-----------------------------------------------------------------------------
(* The end of a session, and the next one.                                  *)

\* FTPShutdownHost empties both buffers, whatever was under way.
LEMMA EndOfSessionPair ==
  ASSUME IInv, PairInv,
         GiveUpAtOnce \/ ReplyTimesOut \/ ReplyIsEof \/ ReplyIs421 \/ QuitReply
  PROVE  PairInv'
<1>1. PICK errNo \in {"none", "kErrControlTimedOut", "kErrRemoteHostClosedConnection"} :
        ShutdownHost(errNo)
  BY DEF GiveUpAtOnce, ReplyTimesOut, ReplyIsEof, ReplyIs421, QuitReply
<1>2. cip \in CipType /\ srv \in SrvType
  BY DEF IInv, TypeOK
<1>3. /\ cip'.ctrlSocket = "closed" /\ cip'.ctrlSrl = <<>>
      /\ cmdQ' = <<>> /\ repQ' = <<>> /\ pc' \in {"final", "idle"}
  <2>1. PASVRefused(cip) \in CipType
    BY <1>2, RefusedFields
  <2> QED
    BY <1>1, <2>1 DEF ShutdownHost, CipType
<1>4. Lost'
  BY <1>1, <1>2 DEF ShutdownHost, SrvType, Lost
<1> QED
  BY <1>3, <1>4 DEF PairInv, ClosedOK, CmdOK

\* After FTPShutdownHost the call returns with the session as it is.
LEMMA ReadClosedPair ==
  ASSUME IInv, PairInv, ReadClosed
  PROVE  PairInv'
<1>1. /\ cip.ctrlSocket = "closed" /\ pc' = "idle" /\ UNCHANGED <<cip, net, srv, abandoned>>
  BY DEF ReadClosed, Return
<1> QED
  BY <1>1 DEF PairInv, ClosedOK, CmdOK, net, Lost

\* A command that cannot be written is not under way either.
LEMMA WriteFailsPair ==
  ASSUME IInv, PairInv, WriteFails
  PROVE  PairInv'
<1>0. cip \in CipType /\ srv \in SrvType
  BY DEF IInv, TypeOK
<1>1. /\ pc \in (Starting \ {"rest0", "appe"}) \cup Simple /\ Lost /\ cmdQ # <<>> /\ cmdQ' = <<>>
      /\ cip.ctrlSocket = "open" /\ pc' = "idle" /\ UNCHANGED <<repQ, srv, abandoned>>
  BY DEF WriteFails, Return, Lost
<1>2. cip' = cip \/ cip' = PASVRefused(Closed(cip))
  BY DEF WriteFails
<1>3. cip'.ctrlSrl = cip.ctrlSrl /\ cip'.ctrlSocket = cip.ctrlSocket
  <2>1. \A c \in CipType : PASVRefused(c).ctrlSrl = c.ctrlSrl /\ PASVRefused(c).ctrlSocket = c.ctrlSocket
    BY DEF PASVRefused, CipType
  <2>2. Closed(cip) \in CipType /\ Closed(cip).ctrlSrl = cip.ctrlSrl
        /\ Closed(cip).ctrlSocket = cip.ctrlSocket
    BY <1>0 DEF Closed, CipType
  <2> QED
    BY <1>2, <2>1, <2>2
<1>4. ASSUME abandoned = {} PROVE Paired'
  <2>1. Unreads(0)
    <3>1. Paired
      BY <1>1, <1>4 DEF PairInv
    <3>2. CASE pc \in {"cmd", "check", "type", "check1", "check0", "rest", "open"}
      <4>1. PICK v : Exchange(v)
        BY <3>1, <3>2 DEF Paired
      <4> QED
        BY <1>1, <4>1 DEF Exchange, Asked, Answered
    <3>3. CASE pc = "start"
      BY <1>1, <3>1, <3>3 DEF Paired, StartAsked, Asked, Answered
    <3> QED
      BY <1>1, <3>2, <3>3 DEF Starting, Simple
  <2>2. Unreads(0)'
    BY <1>1, <1>3, <2>1, UnreadKept
  <2>3. Quiet'
    BY <1>1, <2>2 DEF Quiet, SrvReady, NoCommand, Lost
  <2> QED
    BY <1>1, <2>3 DEF Paired
<1> QED
  BY <1>1, <1>3, <1>4 DEF PairInv, ClosedOK, CmdOK

\* A new session starts with both buffers empty.
LEMMA FreshQuiet ==
  ASSUME cip'.ctrlSrl = <<>>, repQ' = <<>>, cmdQ' = <<>>, srv'.state = "ready"
  PROVE  Quiet'
<1>1. Unread' = <<>>
  <2>1. <<>> \o <<>> = <<>>
    BY EmptySeq, ConcatEmptySeq
  <2> QED
    BY <2>1 DEF Unread
<1>2. Len(Unread') = 0
  BY <1>1, EmptySeq
<1> QED
  BY <1>2 DEF Quiet, Unreads, SrvReady, NoCommand, Lost

\* FTPOpenHost finds nothing left of the session before.
LEMMA FTPOpenHostPair ==
  ASSUME IInv, PairInv, FTPOpenHost
  PROVE  PairInv'
<1>1. /\ pc = "idle" /\ cip.ctrlSocket = "closed" /\ UNCHANGED <<pc, op, net>>
      /\ cip' = FreshCip(cip.dataPortMode, cip.hasPASV, cip.hasREST) /\ srv' = FreshSrv(srv.rest)
  BY DEF FTPOpenHost
<1>2. cmdQ' = <<>> /\ repQ' = <<>>
  BY <1>1 DEF PairInv, ClosedOK, net
<1>3. cip'.ctrlSrl = <<>> /\ cip'.ctrlSocket = "open" /\ srv'.state = "ready"
  BY <1>1 DEF FreshCip, FreshSrv
<1>4. Quiet'
  BY <1>2, <1>3, FreshQuiet
<1> QED
  BY <1>1, <1>3, <1>4 DEF PairInv, ClosedOK, CmdOK, Paired

-----------------------------------------------------------------------------
(* The server and the network.                                              *)

\* What the server does changes only what is under way.
LEMMA OutsidePair ==
  ASSUME IInv, PairInv, ~Lost, UNCHANGED <<pc, cip, op, abandoned>>,
         Quiet => Quiet',
         \A v : v \notin Transfers /\ Exchange(v) => Exchange(v)',
         op.cmd \in Transfers /\ StartAsked => StartAsked',
         op.cmd \in Transfers /\ Transferring => Transferring',
         op.cmd \in Transfers /\ AbortAsked => AbortAsked'
  PROVE  PairInv'
<1>1. ClosedOK' /\ CmdOK' /\ cip.ctrlSocket # "closed" /\ UsesPORT' = UsesPORT
  BY DEF PairInv, ClosedOK, CmdOK, UsesPORT
<1>2. ASSUME cip.ctrlSocket = "open", abandoned = {} PROVE Paired'
  <2>1. Paired
    BY <1>2 DEF PairInv
  <2>2. pc \in {"start", "appe", "accept", "xfer", "eofwait", "final"} => op.cmd \in Transfers
    BY DEF IInv, KindOK, Starting
  <2>3. pc \in {"abort1", "abort2", "abortReply"} /\ AbortAsked => op.cmd \in Transfers
    BY DEF IInv, KindOK, Aborting, AbortAsked
  <2>4. {"CMD", "TYPE", "REST", "PORT", "PASV", "ABOR", "QUIT"} \cap Transfers = {}
    BY DEF Transfers
  <2>5. /\ Exchange("CMD") => Exchange("CMD")'
        /\ Exchange("TYPE") => Exchange("TYPE")'
        /\ Exchange("REST") => Exchange("REST")'
        /\ Exchange("PORT") => Exchange("PORT")'
        /\ Exchange("PASV") => Exchange("PASV")'
        /\ Exchange("ABOR") => Exchange("ABOR")'
        /\ Exchange("QUIT") => Exchange("QUIT")'
    BY <2>4
  <2> QED
    BY <1>1, <2>1, <2>2, <2>3, <2>5 DEF Paired
<1> QED
  BY <1>1, <1>2 DEF PairInv

\* An answer comes after the n that are unread, in the same order.
LEMMA Answers ==
  ASSUME IInv, ~Lost, UNCHANGED cip, NEW r \in Reply, r.code # 421, repQ' = Append(repQ, r)
  PROVE  /\ Unreads(0) => Unreads(1)' /\ Unread'[1] = r
         /\ Unreads(1) => Unreads(2)' /\ Unread'[1] = Unread[1] /\ Unread'[2] = r
<1>1. TypeOK
  BY DEF IInv
<1>2. Unreads(0) => Unreads(0 + 1)' /\ Unread'[0 + 1] = r
  BY <1>1, AppendsOne
<1>3. Unreads(1) => Unreads(1 + 1)' /\ Unread'[1 + 1] = r /\ Unread'[1] = Unread[1]
  <2>1. 1 \in 1..1
    OBVIOUS
  <2> QED
    BY <1>1, <2>1, AppendsOne
<1>4. 0 + 1 = 1 /\ 1 + 1 = 2
  OBVIOUS
<1> QED
  BY <1>2, <1>3, <1>4

\* The server reads the one command that is under way, and answers it.
LEMMA SrvCommandPair ==
  ASSUME IInv, PairInv, SrvCommand
  PROVE  PairInv'
<1> DEFINE c == Head(cmdQ)
<1>1. /\ srv.state = "ready" /\ cmdQ # <<>> /\ cmdQ' = Tail(cmdQ)
      /\ UNCHANGED <<pc, cip, op, link, wire, abandoned>>
      /\ srv \in SrvType /\ cmdQ \in Seq(Command) /\ c \in Command
  BY HeadTailProperties DEF SrvCommand, IInv, TypeOK
<1>2. ~Lost
  BY <1>1 DEF Lost
<1>3. PICK code \in {1, 2, 3, 5} :
        /\ repQ' = Append(repQ, Answer(c, code))
        /\ c.verb \in Transfers => code \in {1, 5}
        /\ code # 1 => srv'.state = "ready" /\ srv'.job = srv.job
        /\ code = 1 => /\ c.verb \in Transfers /\ srv'.state = "opening"
                       /\ srv'.job.verb = c.verb /\ srv'.job.op = c.op
  <2> DEFINE Begin == [srv EXCEPT !.state = "opening", !.off = 0, !.blocks = 0,
                         !.job = [verb |-> c.verb, op |-> c.op,
                                  off |-> IF c.verb = "APPE" THEN c.off ELSE srv.off]]
             Yes(code, s) == repQ' = Append(repQ, Answer(c, code)) /\ srv' = s
  <2>1. \/ \E code \in {2, 3, 5} :
             \E s \in {srv, [srv EXCEPT !.type = c.type], [srv EXCEPT !.port = c.op],
                       [srv EXCEPT !.off = c.off]} :
                c.verb \notin Transfers /\ Yes(code, s)
        \/ c.verb \in Transfers /\ Yes(5, [srv EXCEPT !.off = 0])
        \/ c.verb \in Transfers /\ Yes(1, Begin)
    BY DEF SrvCommand, Transfers
  <2>2. \A s \in {srv, [srv EXCEPT !.type = c.type], [srv EXCEPT !.port = c.op],
                  [srv EXCEPT !.off = c.off], [srv EXCEPT !.off = 0]} :
           s.state = "ready" /\ s.job = srv.job
    BY <1>1 DEF SrvType
  <2>3. Begin.state = "opening" /\ Begin.job.verb = c.verb /\ Begin.job.op = c.op
    BY <1>1 DEF SrvType
  <2>4. CASE \E code \in {2, 3, 5} :
               \E s \in {srv, [srv EXCEPT !.type = c.type], [srv EXCEPT !.port = c.op],
                         [srv EXCEPT !.off = c.off]} :
                  c.verb \notin Transfers /\ Yes(code, s)
    <3> HIDE DEF Begin, c
    <3>1. PICK code \in {2, 3, 5} :
            /\ c.verb \notin Transfers /\ repQ' = Append(repQ, Answer(c, code))
            /\ srv'.state = "ready" /\ srv'.job = srv.job
      BY <2>2, <2>4
    <3> QED
      BY <3>1
  <2>5. CASE c.verb \in Transfers /\ Yes(5, [srv EXCEPT !.off = 0])
    BY <2>2, <2>5
  <2>6. CASE c.verb \in Transfers /\ Yes(1, Begin)
    BY <2>3, <2>6
  <2> QED
    BY <2>1, <2>4, <2>5, <2>6
<1> DEFINE r == Answer(c, code)
<1>4. r \in Reply /\ r.code = code /\ r.verb = c.verb /\ r.op = c.op
  BY <1>1 DEF Answer, Reply, Command
<1>5. ASSUME NEW v, Outstanding(v)
      PROVE  r.verb = v /\ r.op = op.no /\ cmdQ' = <<>>
  <2>1. c.verb = v /\ c.op = op.no
    BY <1>1, <1>5 DEF Outstanding
  <2>2. Len(Tail(cmdQ)) = 0 /\ Tail(cmdQ) \in Seq(Command)
    BY <1>1, <1>5, HeadTailProperties DEF Outstanding
  <2> QED
    BY <1>1, <1>4, <2>1, <2>2, EmptySeq
<1> HIDE DEF r
<1>6. /\ Unreads(0) => Unreads(1)' /\ Unread'[1] = r
      /\ Unreads(1) => Unreads(2)' /\ Unread'[1] = Unread[1] /\ Unread'[2] = r
  <2>1. repQ' = Append(repQ, r) /\ r.code # 421 /\ UNCHANGED cip
    BY <1>1, <1>3, <1>4 DEF r
  <2> QED
    BY <1>2, <1>4, <2>1, Answers
<1>7. /\ r.code # 1 => srv'.state = "ready" /\ srv'.job = srv.job
      /\ r.code = 1 => /\ r.verb \in Transfers /\ srv'.state = "opening"
                       /\ srv'.job.verb = r.verb /\ srv'.job.op = r.op
      /\ r.verb \in Transfers => r.code \in {1, 5}
  BY <1>3, <1>4 DEF r
<1>8. op' = op /\ ~NoCommand
  BY <1>1, <1>2 DEF NoCommand
<1>9. ASSUME NEW v, v \notin Transfers, Exchange(v) PROVE Exchange(v)'
  BY <1>1, <1>2, <1>5, <1>6, <1>7, <1>8, <1>9
     DEF Exchange, Asked, Answered, Own, SrvReady
<1>10. ASSUME op.cmd \in Transfers, StartAsked PROVE StartAsked'
  <2>1. Asked(op.cmd)
    BY <1>1, <1>10 DEF StartAsked, Answered
  <2>2. /\ r.verb = op.cmd /\ r.op = op.no /\ cmdQ' = <<>>
        /\ Unreads(1)' /\ Unread'[1] = r
    BY <1>2, <1>5, <1>6, <2>1 DEF Asked
  <2>3. Own(1, op.cmd)'
    BY <1>8, <2>2 DEF Own
  <2>4. CASE r.code = 5
    <3>1. Answered(op.cmd)' /\ Unread'[1].code = 5
      BY <1>7, <2>2, <2>3, <2>4 DEF Answered, SrvReady
    <3> QED
      BY <3>1 DEF StartAsked
  <2>5. CASE r.code = 1
    BY <1>7, <1>8, <2>2, <2>3, <2>5 DEF StartAsked, OwnJob, Running
  <2> QED
    BY <1>7, <1>10, <2>2, <2>4, <2>5
<1>11. ASSUME op.cmd \in Transfers, AbortAsked PROVE AbortAsked'
  <2>1. Unreads(1) /\ Own(1, op.cmd) /\ Outstanding("ABOR") /\ OwnJob /\ op.kind # "QUIT"
    BY <1>1, <1>2, <1>11 DEF AbortAsked, Running
  <2>2. r.verb = "ABOR" /\ r.op = op.no /\ cmdQ' = <<>>
    BY <1>5, <2>1
  <2>3. r.code # 1
    BY <1>7, <2>2 DEF Transfers
  <2> QED
    BY <1>6, <1>7, <1>8, <2>1, <2>2, <2>3 DEF AbortAsked, OwnJob, Own, SrvReady
<1>12. ~Quiet /\ ~Transferring
  BY <1>8 DEF Quiet, Transferring
<1>13. UNCHANGED <<pc, cip, op, abandoned>>
  BY <1>1
<1> QED
  BY <1>2, <1>9, <1>10, <1>11, <1>12, <1>13, OutsidePair

\* A transfer's end is reported once, after all that is unread.
LEMMA SrvEndsAnswers ==
  ASSUME IInv, srv.state \in {"opening", "xfer"}, NEW l, NEW code \in {2, 4},
         SrvEnds(<<code>>, l)
  PROVE  /\ UNCHANGED <<pc, cip, op, cmdQ, abandoned>> /\ ~Lost /\ ~SrvReady
         /\ srv' = [srv EXCEPT !.state = "ready", !.port = 0] /\ LinkBecomes(l)
         /\ LET r == Answer(srv.job, code) IN
              /\ r.code = code /\ r.verb = srv.job.verb /\ r.op = srv.job.op
              /\ Unreads(0) => Unreads(1)' /\ Unread'[1] = r
              /\ Unreads(1) => Unreads(2)' /\ Unread'[1] = Unread[1] /\ Unread'[2] = r
<1> DEFINE r == Answer(srv.job, code)
<1>1. /\ UNCHANGED <<pc, cip, op, abandoned>> /\ ~Lost /\ ~SrvReady /\ srv \in SrvType
      /\ srv' = [srv EXCEPT !.state = "ready", !.port = 0] /\ LinkBecomes(l)
  BY DEF SrvEnds, Lost, SrvReady, IInv, TypeOK
<1>2. cmdQ' = cmdQ /\ repQ' = repQ \o <<r>>
  <2>1. Len(<<code>>) = 1 /\ 1..1 = {1}
    OBVIOUS
  <2>2. [i \in 1..1 |-> IF i = 1 THEN r ELSE Answer(Head(cmdQ), <<code>>[i])] = <<r>>
    BY <2>1
  <2>3. cmdQ' = cmdQ
    BY <2>1 DEF SrvEnds
  <2>4. repQ' = repQ \o [i \in 1..1 |-> IF i = 1 THEN r ELSE Answer(Head(cmdQ), <<code>>[i])]
    BY <2>1 DEF SrvEnds
  <2> QED
    BY <2>2, <2>3, <2>4
<1>3. r \in Reply /\ r.code = code /\ r.verb = srv.job.verb /\ r.op = srv.job.op
  BY <1>1 DEF Answer, Reply, SrvType
<1> HIDE DEF r
<1>4. repQ' = Append(repQ, r)
  BY <1>2, <1>3, AppendIsConcat, ServerTypes
<1>5. /\ Unreads(0) => Unreads(1)' /\ Unread'[1] = r
      /\ Unreads(1) => Unreads(2)' /\ Unread'[1] = Unread[1] /\ Unread'[2] = r
  <2>1. r.code # 421
    BY <1>3
  <2> QED
    BY <1>1, <1>3, <1>4, <2>1, Answers
<1> QED
  BY <1>1, <1>2, <1>3, <1>5 DEF r

\* The pairing knows of the end of the one transfer under way.
LEMMA SrvEndsPair ==
  ASSUME IInv, PairInv, srv.state \in {"opening", "xfer"}, NEW l, NEW code \in {2, 4},
         SrvEnds(<<code>>, l)
  PROVE  PairInv'
<1> DEFINE r == Answer(srv.job, code)
<1>1. /\ UNCHANGED <<pc, cip, op, cmdQ, abandoned>> /\ ~Lost /\ ~SrvReady
      /\ srv' = [srv EXCEPT !.state = "ready", !.port = 0]
      /\ r.code = code /\ r.verb = srv.job.verb /\ r.op = srv.job.op
      /\ Unreads(0) => Unreads(1)' /\ Unread'[1] = r
      /\ Unreads(1) => Unreads(2)' /\ Unread'[1] = Unread[1] /\ Unread'[2] = r
  BY SrvEndsAnswers
<1> HIDE DEF r
<1>2. srv'.state = "ready" /\ srv'.job = srv.job
  BY <1>1 DEF IInv, TypeOK, SrvType
<1>6. op' = op /\ SrvReady' /\ OwnJob' = OwnJob
  BY <1>1, <1>2 DEF SrvReady, OwnJob
<1>7. StartAsked => StartAsked'
  <2>1. ASSUME StartAsked
        PROVE  cmdQ = <<>> /\ Own(1, op.cmd) /\ Unread[1].code = 1 /\ OwnJob /\ Unreads(1)
    BY <1>1, <2>1 DEF StartAsked, Asked, Answered
  <2> QED
    BY <1>1, <1>2, <1>6, <2>1 DEF StartAsked, OwnJob, Own
<1>8. Transferring => Transferring'
  BY <1>1, <1>2, <1>6 DEF Transferring, OwnJob, Own, NoCommand, Lost
<1>9. AbortAsked => AbortAsked'
  BY <1>1, <1>2, <1>6 DEF AbortAsked, OwnJob, Own, Outstanding, Lost
<1>10. ~Quiet /\ \A v : ~Exchange(v)
  BY <1>1 DEF Quiet, Exchange, Asked, Answered
<1> QED
  BY <1>1, <1>7, <1>8, <1>9, <1>10, OutsidePair

\* The urgent ABOR is answered after the transfer it ends.
LEMMA SrvAbortsPair ==
  ASSUME IInv, PairInv, SrvAborts
  PROVE  PairInv'
<1> DEFINE r == Answer(srv.job, 4)
           q == Answer(Head(cmdQ), 2)
<1>1. /\ srv.state \in {"opening", "xfer"} /\ cmdQ # <<>> /\ Head(cmdQ).verb = "ABOR"
      /\ UNCHANGED <<pc, cip, op, abandoned>> /\ srv \in SrvType /\ cmdQ \in Seq(Command)
      /\ Head(cmdQ) \in Command /\ TypeOK
  BY HeadTailProperties DEF SrvAborts, SrvEnds, IInv, TypeOK
<1>2. cmdQ' = Tail(cmdQ) /\ repQ' = repQ \o <<r, q>> /\ srv'.state = "ready" /\ srv'.job = srv.job
  <2>1. Len(<<4, 2>>) = 2 /\ 1..2 = {1, 2} /\ <<4, 2>>[1] = 4 /\ <<4, 2>>[2] = 2
    OBVIOUS
  <2>2. [i \in 1..2 |-> IF i = 1 THEN Answer(srv.job, <<4, 2>>[1])
                                 ELSE Answer(Head(cmdQ), <<4, 2>>[i])] = <<r, q>>
    BY <2>1
  <2>3. srv' = [srv EXCEPT !.state = "ready", !.port = 0] /\ cmdQ' = Tail(cmdQ)
    BY <2>1 DEF SrvAborts, SrvEnds
  <2>4. repQ' = repQ \o [i \in 1..2 |-> IF i = 1 THEN Answer(srv.job, <<4, 2>>[1])
                                                ELSE Answer(Head(cmdQ), <<4, 2>>[i])]
    BY <2>1 DEF SrvAborts, SrvEnds
  <2> QED
    BY <1>1, <2>2, <2>3, <2>4 DEF SrvType
<1>3. /\ r \in Reply /\ r.code = 4 /\ r.verb = srv.job.verb /\ r.op = srv.job.op
      /\ q \in Reply /\ q.code = 2 /\ q.verb = "ABOR" /\ q.op = Head(cmdQ).op
  BY <1>1 DEF Answer, Reply, SrvType, Command, Verbs
<1> HIDE DEF r, q
<1>4. ~Lost /\ ~SrvReady /\ ~NoCommand /\ SrvReady'
  BY <1>1, <1>2 DEF Lost, SrvReady, NoCommand
<1>5. /\ Unread \in Seq(Reply) /\ Unread' = Unread \o <<r, q>> /\ <<r, q>> \in Seq(Reply)
  <2>1. <<r, q>> \in Seq(Reply)
    BY <1>3
  <2>2. \A s, t, u \in Seq(Reply) : (s \o t) \o u = s \o (t \o u)
    BY ConcatAssociative
  <2>3. Unread' = cip.ctrlSrl \o (repQ \o <<r, q>>)
    BY <1>1, <1>2 DEF Unread
  <2> QED
    BY <1>1, <2>1, <2>2, <2>3, UnreadType DEF Unread
<1>6. Unreads(0) => Unreads(2)' /\ Unread'[1] = r /\ Unread'[2] = q
  <2>1. Unreads(0) => Len(Unread) = 0
    BY <1>4 DEF Unreads
  <2>2. Len(<<r, q>>) = 2 /\ <<r, q>>[1] = r /\ <<r, q>>[2] = q
    OBVIOUS
  <2>3. Len(Unread) = 0 => /\ Len(Unread') = 2
                           /\ \A i \in 1..2 : Unread'[i] = <<r, q>>[i]
    BY <1>5, <2>2, ConcatProperties
  <2>4. Len(Unread) = 0 => Len(Unread') = 2 /\ Unread'[1] = r /\ Unread'[2] = q
    BY <2>2, <2>3
  <2> QED
    BY <1>3, <2>1, <2>4 DEF Unreads
<1>7. ASSUME AbortAsked PROVE AbortAsked'
  <2>1. Unreads(0) /\ Outstanding("ABOR") /\ OwnJob /\ op.kind # "QUIT"
    BY <1>4, <1>7 DEF AbortAsked, NoCommand
  <2>2. cmdQ' = <<>> /\ Head(cmdQ).op = op.no
    <3>1. Len(Tail(cmdQ)) = 0 /\ Tail(cmdQ) \in Seq(Command)
      BY <1>1, <2>1, HeadTailProperties DEF Outstanding
    <3> QED
      BY <1>1, <1>2, <2>1, <3>1, EmptySeq DEF Outstanding
  <2> QED
    BY <1>1, <1>2, <1>3, <1>4, <1>6, <2>1, <2>2 DEF AbortAsked, OwnJob, Own
<1>8. ~Quiet /\ ~Transferring /\ ~StartAsked /\ \A v : ~Exchange(v)
  BY <1>1, <1>4 DEF Quiet, Transferring, StartAsked, Exchange, Asked, Answered
<1> QED
  BY <1>1, <1>4, <1>7, <1>8, OutsidePair

\* While a transfer runs at the server nothing reaches the control connection.
LEMMA SrvRunsPair ==
  ASSUME IInv, PairInv, SrvConnect \/ SrvMove
  PROVE  PairInv'
<1>1. /\ UNCHANGED <<pc, cip, op, cmdQ, repQ, abandoned>> /\ ~Lost /\ ~SrvReady
      /\ srv \in SrvType
  BY DEF SrvConnect, SrvMove, Lost, SrvReady, IInv, TypeOK
<1>2. srv'.state = "xfer" /\ srv'.job = srv.job
  BY <1>1 DEF SrvConnect, SrvMove, SrvType
<1>3. Unread' = Unread /\ \A n : Unreads(n) => Unreads(n)'
  <2>1. Unread' = Unread
    BY <1>1 DEF Unread
  <2> QED
    BY <1>1, <2>1 DEF Unreads
<1>4. ~Quiet /\ \A v : ~Exchange(v)
  BY <1>1 DEF Quiet, Exchange, Asked, Answered
<1>5. OwnJob' = OwnJob /\ Running' /\ op' = op /\ cmdQ' = cmdQ
  BY <1>1, <1>2 DEF OwnJob, Running
<1>6. StartAsked => StartAsked'
  BY <1>1, <1>3, <1>5 DEF StartAsked, Asked, Answered, Own
<1>7. Transferring => Transferring'
  BY <1>1, <1>3, <1>5 DEF Transferring, NoCommand
<1>8. AbortAsked => AbortAsked'
  BY <1>1, <1>3, <1>5 DEF AbortAsked, Outstanding
<1> QED
  BY <1>1, <1>4, <1>6, <1>7, <1>8, OutsidePair

\* A server that goes leaves what it has answered, and answers nothing more.
LEMMA SrvHangsUpPair ==
  ASSUME IInv, PairInv, SrvHangsUp
  PROVE  PairInv'
<1>1. /\ UNCHANGED <<pc, cip, op, cmdQ, abandoned>> /\ ~Lost /\ srv \in SrvType /\ TypeOK
      /\ srv' = [srv EXCEPT !.state = "gone"]
  BY DEF SrvHangsUp, Lost, IInv, TypeOK
<1>2. Lost' /\ SrvReady' /\ Running' /\ NoCommand' /\ srv'.job = srv.job
  BY <1>1 DEF Lost, SrvReady, Running, NoCommand, SrvType
<1>3. \A n \in Nat : Unreads(n) => Unreads(n)' /\ \A i \in 1..n : Unread'[i] = Unread[i]
  BY <1>1, HangsUp
<1>4. /\ Unreads(0) => Unreads(0)'
      /\ Unreads(1) => Unreads(1)' /\ Unread'[1] = Unread[1]
      /\ Unreads(2) => Unreads(2)' /\ Unread'[1] = Unread[1] /\ Unread'[2] = Unread[2]
  <2>1. 1 \in 1..1 /\ 1 \in 1..2 /\ 2 \in 1..2
    OBVIOUS
  <2> QED
    BY <1>3, <2>1
<1>5. op' = op /\ cmdQ' = cmdQ /\ OwnJob' = OwnJob
  BY <1>1, <1>2 DEF OwnJob
<1>6. Quiet => Quiet'
  BY <1>2, <1>4 DEF Quiet
<1>7. \A v : Exchange(v) => Exchange(v)'
  BY <1>2, <1>4, <1>5 DEF Exchange, Asked, Answered, Own
<1>8. StartAsked => StartAsked'
  BY <1>2, <1>4, <1>5 DEF StartAsked, Asked, Answered, Own
<1>9. Transferring => Transferring'
  BY <1>2, <1>4, <1>5 DEF Transferring, Own
<1>10. AbortAsked => AbortAsked'
  BY <1>2, <1>4, <1>5 DEF AbortAsked, Own
<1> QED
  BY <1>1, <1>6, <1>7, <1>8, <1>9, <1>10, OutsidePair

\* Every way a transfer ends at the server.
LEMMA ServerEndsPair ==
  ASSUME IInv, PairInv, SrvCannotConnect \/ SrvDone \/ SrvFails \/ SrvAborts
  PROVE  PairInv'
<1>1. CASE SrvCannotConnect
  BY <1>1, SrvEndsPair DEF SrvCannotConnect
<1>2. CASE SrvDone
  BY <1>2, SrvEndsPair DEF SrvDone
<1>3. CASE SrvFails
  BY <1>3, SrvEndsPair DEF SrvFails
<1>4. CASE SrvAborts
  BY <1>4, SrvAbortsPair
<1> QED
  BY <1>1, <1>2, <1>3, <1>4

-----------------------------------------------------------------------------
(* The invariant holds of every reachable state.                            *)

\* Nothing is under way once FTPOpenHost has logged in.
LEMMA InitPair == ASSUME Init PROVE PairInv
<1>1. /\ cip.ctrlSrl = <<>> /\ cip.ctrlSocket = "open" /\ srv.state = "ready"
      /\ repQ = <<>> /\ cmdQ = <<>> /\ pc = "idle"
  BY DEF Init, FreshCip, FreshSrv
<1>2. Unread = <<>> /\ Len(Unread) = 0
  <2>1. <<>> \o <<>> = <<>>
    BY EmptySeq, ConcatEmptySeq
  <2> QED
    BY <1>1, <2>1, EmptySeq DEF Unread
<1>3. Quiet
  BY <1>1, <1>2 DEF Quiet, Unreads, SrvReady, NoCommand
<1> QED
  BY <1>1, <1>3 DEF PairInv, ClosedOK, CmdOK, Paired

\* Every step of the library's thread preserves the pairing.
LEMMA LibraryPair ==
  ASSUME IInv, PairInv, Library
  PROVE  PairInv'
<1>1. CASE CmdReply \/ CheckReply \/ TypeReply \/ OpenReply
  BY <1>1, CmdReplyPair, CheckReplyPair, TypeReplyPair, OpenReplyPair
<1>2. CASE Connect \/ RestReply \/ StartReply \/ Rest0Reply
  BY <1>2, ConnectPair, RestReplyPair, StartReplyPair
<1>3. CASE Accept \/ UndoSeekFails \/ GetBlock \/ GetEnds \/ PutBlock \/ PutEnds \/ PutBreaks \/ PutDone
  BY <1>3, LoopPair, AbandonPair DEF Accept
<1>4. CASE FinalReply \/ AbortWait \/ AbortReply
  BY <1>4, FinalReplyPair, AbortWaitPair, AbortReplyPair
<1>5. CASE GiveUpAtOnce \/ ReplyTimesOut \/ ReplyIsEof \/ ReplyIs421 \/ QuitReply
  BY <1>5, EndOfSessionPair
<1>6. CASE ReadClosed \/ WriteFails
  BY <1>6, ReadClosedPair, WriteFailsPair
<1> QED
  BY <1>1, <1>2, <1>3, <1>4, <1>5, <1>6 DEF Library

\* Every step of the system preserves the pairing.
LEMMA StepPair ==
  ASSUME IInv, PairInv, [Next]_vars
  PROVE  PairInv'
<1>1. CASE Library
  BY <1>1, LibraryPair
<1>2. CASE Application
  BY <1>2, FTPCmdPair, FTPStartDataCmdPair, AbortPair, FTPCloseHostPair, FTPOpenHostPair
     DEF Application
<1>3. CASE Server
  BY <1>3, SrvCommandPair, SrvRunsPair, ServerEndsPair, SrvHangsUpPair DEF Server
<1>4. CASE UNCHANGED vars
  <2>1. UNCHANGED <<pc, cip, op, cmdQ, repQ, srv, abandoned>>
    BY <1>4 DEF vars
  <2>2. Unread' = Unread /\ \A n : Unreads(n) => Unreads(n)'
    BY <2>1, UnreadKept
  <2>3. /\ Quiet => Quiet'
        /\ \A v : Exchange(v) => Exchange(v)'
        /\ StartAsked => StartAsked'
        /\ Transferring => Transferring'
        /\ AbortAsked => AbortAsked'
    BY <2>1, <2>2 DEF Quiet, Exchange, Asked, Answered, StartAsked, Transferring, AbortAsked, Own,
         Outstanding, OwnJob, SrvReady, Running, NoCommand, Lost
  <2>4. UsesPORT' = UsesPORT
    BY <2>1 DEF UsesPORT
  <2>5. Paired => Paired'
    BY <2>1, <2>3, <2>4 DEF Paired
  <2> QED
    BY <2>1, <2>4, <2>5 DEF PairInv, ClosedOK, CmdOK, Lost
<1> QED
  BY <1>1, <1>2, <1>3, <1>4 DEF Next

\* The pairing of replies and commands is inductive.
THEOREM PairingInvariance == Spec => [](IInv /\ PairInv)
<1>1. Init => IInv /\ PairInv
  BY InitInv, InitPair
<1>2. IInv /\ PairInv /\ [Next]_vars => IInv' /\ PairInv'
  BY StepInv, StepPair
<1> QED
  BY <1>1, <1>2, PTL DEF Spec

-----------------------------------------------------------------------------
(* What follows.                                                            *)

\* Whenever the library reads a line for a command, and no path that abandons a
\* reply has been taken, the line answers that command of that call.
THEOREM Pairing == Spec => []RepliesPaired
<1>1. ASSUME IInv, PairInv, pc \in Awaiting, HaveReply, abandoned = {}, NextReply.code # 421
      PROVE  NextReply.op = op.no /\ NextReply.verb \in Expected
  <2>1. TypeOK /\ op.kind \in Verbs \cup {"CHECK"}
    BY <1>1, KindsAssumption DEF IInv, TypeOK, OpType, Verbs
  <2>2. cip.ctrlSocket = "closed" => ~HaveReply
    BY <1>1 DEF PairInv, ClosedOK, HaveReply
  <2>3. cip.ctrlSocket = "open"
    BY <1>1, <2>1, <2>2 DEF TypeOK, CipType
  <2>4. Paired /\ CmdOK
    BY <1>1, <2>3 DEF PairInv
  <2>5. NextReply = Unread[1] /\ Len(Unread) >= 1 /\ Len(Unread) \in Nat
    BY <1>1, <2>1, NextIsFirst, UnreadType, LenProperties
  <2>6. ~Unreads(0)
    BY <1>1, <2>5 DEF Unreads
  <2>7. \A v : Exchange(v) => Own(1, v)
    BY <2>6 DEF Exchange, Asked, Answered
  <2>8. (StartAsked \/ Transferring) => Own(1, op.cmd)
    BY <2>6 DEF StartAsked, Asked, Answered, Transferring
  <2>9. AbortAsked => Own(1, op.cmd)
    BY <2>6 DEF AbortAsked
  <2>10. CASE pc \in {"cmd", "check", "type", "check1", "check0", "rest", "rest0", "open", "quit"}
    BY <2>4, <2>5, <2>7, <2>10 DEF Paired, Own, Expected, CmdOK
  <2>11. CASE pc \in {"start", "appe", "final"}
    BY <2>4, <2>5, <2>8, <2>11 DEF Paired, Own, Expected
  <2>12. CASE pc \in {"abortReply", "abortReply2"}
    BY <2>4, <2>5, <2>7, <2>9, <2>12 DEF Paired, Own, Expected
  <2> QED
    BY <1>1, <2>10, <2>11, <2>12 DEF Awaiting, Starting, Simple
<1>2. IInv /\ PairInv => RepliesPaired
  BY <1>1 DEF RepliesPaired
<1> QED
  BY <1>2, PairingInvariance, PTL

\* Between two calls of a session whose server is there, nothing is left to be
\* answered, to be read or to be moved, unless a reply has been abandoned.
THEOREM Quietness == Spec => []QuietWhenIdle
<1>1. ASSUME IInv, PairInv, pc = "idle", cip.ctrlSocket = "open", srv.state # "gone", abandoned = {}
      PROVE  cmdQ = <<>> /\ repQ = <<>> /\ cip.ctrlSrl = <<>> /\ srv.state = "ready"
  <2>1. Quiet /\ ~Lost /\ TypeOK
    BY <1>1 DEF PairInv, Paired, Lost, IInv
  <2>2. Len(Unread) = 0 /\ cmdQ = <<>> /\ srv.state = "ready"
    BY <2>1 DEF Quiet, Unreads, SrvReady, NoCommand, Lost
  <2>3. Len(cip.ctrlSrl) = 0 /\ Len(repQ) = 0
    BY <2>1, <2>2, UnreadType
  <2> QED
    BY <2>1, <2>2, <2>3, UnreadType, EmptySeq
<1>2. IInv /\ PairInv => QuietWhenIdle
  BY <1>1 DEF QuietWhenIdle
<1> QED
  BY <1>2, PairingInvariance, PTL

-----------------------------------------------------------------------------
(* The data connection: its inductive invariant.                            *)

Sound == cip.ctrlSocket = "open" /\ abandoned = {}

\* The transfer command has been refused, or begun.
Refused == Answered(op.cmd) /\ Unread[1].code = 5
Started == cmdQ = <<>> /\ Own(1, op.cmd) /\ Unread[1].code = 1 /\ OwnJob

\* A transfer whose outcome can still be a success.
Live == pc \in {"accept", "xfer", "eofwait"} \/ (pc = "final" /\ op.result = "ok")

\* Which command a call may send, and what only some calls reach.
KindCmd ==
  /\ op.kind = "RETR" => op.cmd = "RETR"
  /\ op.kind = "STOR" => op.cmd \in {"STOR", "APPE"}
  /\ pc \in Simple => op.kind \notin {"RETR", "STOR"}
  /\ pc = "check" => op.type = "I"
  /\ pc = "eofwait" => op.kind = "STOR"

\* The data connection against the two ends that hold it.
LinkOK ==
  /\ link = "cut" => srv.state \in {"opening", "xfer"}
  /\ link \in {"up", "half", "fin", "reset"} => cip.dataSocket \in {"listen", "open"}
  /\ link = "half" => pc = "eofwait"
  /\ srv.state = "opening" => srv.blocks = 0
  /\ cip.ctrlSocket = "closed" /\ pc = "idle" => op.result = "err"

\* The cached transfer type is the server's, but for a TYPE under way.
TypesAgree ==
  /\ pc \in {"check", "type"} =>
       \/ Asked("TYPE") /\ srv.type = cip.curTransferType /\ (Lost \/ cmdQ[1].type = op.type)
       \/ Answered("TYPE")
            /\ srv.type = IF Unread[1].code = 2 THEN op.type ELSE cip.curTransferType
  /\ pc \notin {"check", "type"} => srv.type = cip.curTransferType
  /\ pc \in (Starting \ {"type"}) \cup {"connect", "accept", "xfer", "eofwait"}
       => cip.curTransferType = op.type

\* The server's restart offset, but for a REST or an APPE under way, and the
\* offset at which it has begun.
NoOff == Lost \/ srv.off = 0
RestPoint == IF pc = "rest" THEN op.start ELSE 1
CommandOff ==
  Lost \/ IF op.cmd = "APPE" THEN srv.off = 0 /\ cmdQ[1].off = cip.startPoint
                             ELSE srv.off = cip.startPoint

OffsAgree ==
  /\ pc \notin {"check1", "check0", "rest", "start", "appe"} => NoOff
  /\ pc \in {"check1", "rest"} =>
       \/ Asked("REST") /\ (Lost \/ (srv.off = 0 /\ cmdQ[1].off = RestPoint))
       \/ Answered("REST") /\ Unread[1].code \in {1, 2, 3}
            /\ (Lost \/ (srv.rest /\ srv.off = RestPoint))
       \/ Answered("REST") /\ Unread[1].code \notin {1, 2, 3} /\ NoOff
  /\ pc = "check0" =>
       \/ Asked("REST") /\ (Lost \/ (srv.rest /\ cmdQ[1].off = 0))
       \/ Answered("REST") /\ NoOff
  /\ pc = "rest0" =>
       \/ Asked("REST") /\ (Lost \/ cmdQ[1].off = 0)
       \/ Answered("REST")
  /\ pc \in {"start", "appe"} =>
       \/ Asked(op.cmd) /\ CommandOff
       \/ Refused /\ NoOff
       \/ Started /\ NoOff /\ srv.job.off = cip.startPoint
  /\ pc = "connect" => cip.startPoint = 0
  /\ pc \in {"rest0", "appe"} => cip.startPoint = op.start
  /\ pc = "start" => cip.startPoint \in {0, op.start}
  /\ Live => srv.job.off = cip.startPoint

\* Before the server begins nothing is in flight; from then on every block is
\* with one end, with the other, or in flight.
LinkFresh == link # "fin" /\ (link = "up" => wire = 0)
Flow ==
  /\ op.cmd = "RETR" => /\ link \in {"up", "fin"} => op.blocks + wire = srv.blocks
                        /\ link = "fin" => SrvReady
  /\ op.cmd # "RETR" => (link \in {"up", "half", "cut"} => op.blocks = srv.blocks + wire)

\* What a final reply of success says of the server's end, and what the
\* library's success says of both.
Complete == IF op.cmd = "RETR" THEN srv.job.off + srv.blocks = FileBlocks
                               ELSE op.blocks = srv.blocks /\ pc \in {"eofwait", "final"}
Whole == /\ op.kind = "RETR" => cip.startPoint + op.blocks = FileBlocks
         /\ op.kind = "STOR" => srv.job.off + srv.blocks = FileBlocks

DataAgree ==
  /\ cip.dataSocket # "bogus"
  /\ cip.dataSocket = "listen" =>
       cip.dataPortMode = "PORT" /\ pc \in {"rest", "start", "rest0", "appe", "accept"}
  /\ pc \in Starting \cup {"connect", "accept"} => op.blocks = 0
  /\ pc \in {"rest", "rest0"} => LinkFresh
  /\ pc \in {"start", "appe"} =>
       \/ (Asked(op.cmd) \/ Refused) /\ LinkFresh
       \/ Started /\ Flow /\ (Unreads(1) \/ (Unread[2].code = 2 => Complete))
  /\ Live => Flow /\ (Unreads(0) \/ (Unread[1].code = 2 => Complete))
  /\ link = "cut" => pc \in {"final"} \cup Aborting
  /\ pc \in {"eofwait", "final"} /\ op.result = "ok" /\ op.kind = "STOR"
       => cip.startPoint + op.blocks = FileBlocks
  /\ pc = "final" /\ op.result = "ok" /\ op.kind = "RETR" => op.blocks = srv.blocks /\ SrvReady
  /\ pc = "idle" /\ op.result = "ok" => Whole

EndInv == KindCmd /\ LinkOK /\ (Sound => TypesAgree /\ OffsAgree /\ DataAgree)
DataInv == IInv /\ PairInv /\ EndInv
-----------------------------------------------------------------------------
(* What the steps have in common.                                           *)

\* A read of the next reply, and the fields that it leaves as c has them.
LEMMA ReadsFields ==
  ASSUME TypeOK, NEW p, NEW Codes, NEW c \in CipType, GetResponse(p, Codes, c)
  PROVE  /\ pc = p /\ cip.ctrlSocket = "open" /\ cip'.ctrlSocket = c.ctrlSocket
         /\ cip'.dataSocket = c.dataSocket /\ cip'.dataPortMode = c.dataPortMode
         /\ cip'.hasPASV = c.hasPASV /\ cip'.startPoint = c.startPoint
         /\ cip'.curTransferType = c.curTransferType
         /\ Unread # <<>> /\ NextReply = Unread[1] /\ Unread[1].code \in Codes \ {421}
         /\ ~Unreads(0)
<1>1. PICK srl \in Seq(Reply) : cip' = [c EXCEPT !.ctrlSrl = srl]
  BY GetResponseReads
<1>2. HaveReply /\ NextReply.code \in Codes \ {421} /\ pc = p /\ cip.ctrlSocket = "open"
  BY DEF GetResponse
<1>3. Unread # <<>> /\ NextReply = Unread[1] /\ Len(Unread) >= 1 /\ Len(Unread) \in Nat
  BY <1>2, NextIsFirst, UnreadType, LenProperties
<1>4. ~Unreads(0)
  BY <1>2, <1>3 DEF Unreads
<1> QED
  BY <1>1, <1>2, <1>3, <1>4 DEF CipType

\* A command sent when nothing is under way, and what it asks for.
LEMMA SendOffers ==
  ASSUME Unreads(0)', SrvReady, NoCommand, UNCHANGED srv, NEW v, NEW off, Send(v, off)
  PROVE  /\ Asked(v)'
         /\ Lost' \/ (cmdQ'[1].off = off /\ cmdQ'[1].type = op'.type)
<1> DEFINE r == [verb |-> v, type |-> op'.type, off |-> off, op |-> op'.no]
<1>1. Asked(v)'
  BY SendAsks
<1>2. CASE cmdQ = <<>>
  <2>1. cmdQ' = Append(<<>>, r)
    BY <1>2 DEF Send
  <2>2. cmdQ'[1] = r
    BY <2>1
  <2> QED
    BY <1>1, <2>2
<1>3. CASE Lost
  BY <1>1, <1>3 DEF Lost
<1> QED
  BY <1>2, <1>3 DEF NoCommand

\* Whatever CloseDataConnection closes, the server is left with nothing or
\* with a connection that has been cut.
LEMMA ClosesLink ==
  ASSUME TypeOK, LinkOK, CloseLink
  PROVE  /\ link' \in {"none", "cut"}
         /\ link' = "cut" => /\ srv.state \in {"opening", "xfer"}
                             /\ link \in {"up", "half", "cut"} /\ wire' = wire
<1>1. link \in {"none", "up", "half", "fin", "reset", "cut"}
  BY DEF TypeOK
<1>2. Unlinked \in {"none", "cut"} /\ (Unlinked = "cut" => /\ srv.state \in {"opening", "xfer"}
                                                           /\ link \in {"up", "half", "cut"})
  BY <1>1 DEF Unlinked, LinkOK
<1> QED
  BY <1>2 DEF CloseLink, LinkBecomes

\* The two ends of a data connection that a step leaves alone.
LEMMA LinkKept ==
  ASSUME LinkOK, UNCHANGED <<link, srv>>,
         \/ cip'.dataSocket = cip.dataSocket
         \/ cip'.dataSocket \in {"listen", "open"}
         \/ cip.dataSocket = "closed",
         pc = "eofwait" => pc' = "eofwait",
         cip'.ctrlSocket = "closed" /\ pc' = "idle" => op'.result = "err"
  PROVE  LinkOK'
BY DEF LinkOK

\* The two ends after CloseDataConnection.
LEMMA LinkClosed ==
  ASSUME TypeOK, LinkOK, CloseLink, UNCHANGED srv,
         cip'.ctrlSocket = "closed" /\ pc' = "idle" => op'.result = "err"
  PROVE  LinkOK'
<1>1. /\ link' \in {"none", "cut"}
      /\ link' = "cut" => srv.state \in {"opening", "xfer"}
  BY ClosesLink
<1> QED
  BY <1>1 DEF LinkOK

\* The library's type and the server's, where neither changes.
LEMMA TypesKept ==
  ASSUME TypesAgree, pc \notin {"check", "type"}, pc' \notin {"check", "type"},
         srv'.type = srv.type, cip'.curTransferType = cip.curTransferType,
         \/ op'.type = op.type /\ pc \in (Starting \ {"type"}) \cup {"connect", "accept", "xfer", "eofwait"}
         \/ pc' \notin (Starting \ {"type"}) \cup {"connect", "accept", "xfer", "eofwait"}
  PROVE  TypesAgree'
BY DEF TypesAgree

\* The offsets, where no REST and no transfer command is under way.
LEMMA OffsKept ==
  ASSUME OffsAgree, pc \notin {"check1", "check0", "rest", "rest0", "start", "appe"},
         pc' \notin {"check1", "check0", "rest", "rest0", "start", "appe"},
         UNCHANGED srv, pc' = "connect" => cip'.startPoint = 0,
         Live' => Live /\ cip'.startPoint = cip.startPoint
  PROVE  OffsAgree'
BY DEF OffsAgree, NoOff, Lost

\* Where the server is to answer at once no data connection is left.
LEMMA CalmData ==
  ASSUME IInv', PairInv', LinkOK', Sound',
         pc' \in Simple \cup {"idle", "quit", "type", "open", "connect"},
         pc' \in {"type", "open", "connect"} => op'.blocks = 0,
         pc' = "idle" /\ op'.result = "ok" => Whole'
  PROVE  DataAgree'
<1>1. cip'.dataSocket = "closed"
  BY DEF IInv, SocketOK, Sound
<1>2. SrvReady'
  <2>1. Paired'
    BY DEF PairInv, Sound
  <2>2. \A v : Exchange(v)' => SrvReady'
    BY DEF Exchange, Asked, Answered
  <2> QED
    BY <2>1, <2>2 DEF Paired, Quiet, Simple
<1>3. link' # "cut"
  BY <1>2 DEF LinkOK, SrvReady
<1>4. ~Live'
  BY DEF Live, Simple
<1> QED
  BY <1>1, <1>3, <1>4 DEF DataAgree, Starting, Simple, Aborting
-----------------------------------------------------------------------------
(* Simple commands.                                                         *)

\* A call that is not a transfer finds the two ends agreed, and leaves them so
\* while its first command is under way.
LEMMA FTPCmdEnds ==
  ASSUME DataInv, IInv', PairInv', FTPCmd \/ FTPCheckForRestart
  PROVE  EndInv'
<1> USE DEF DataInv
<1>1. /\ pc = "idle" /\ cip.ctrlSocket = "open" /\ UNCHANGED <<cip, repQ, link, wire, srv, abandoned>>
      /\ \/ pc' = "cmd" /\ op'.kind = "CMD"
         \/ pc' = "check" /\ op'.kind = "CHECK" /\ op'.type = "I" /\ Send("TYPE", 0)
         \/ /\ pc' = "check1" /\ op'.kind = "CHECK" /\ Send("REST", 1)
  BY DEF FTPCmd, FTPCheckForRestart, NewOp
<1>2. KindCmd'
  BY <1>1 DEF KindCmd
<1>3. LinkOK'
  BY <1>1, LinkKept DEF EndInv
<1>4. ASSUME Sound' PROVE TypesAgree' /\ OffsAgree' /\ DataAgree'
  <2>1. Sound /\ TypesAgree /\ OffsAgree
    BY <1>1, <1>4 DEF Sound, EndInv
  <2>2. Unreads(0)' /\ SrvReady /\ NoCommand
    <3>1. Quiet
      BY <1>1, <2>1 DEF Sound, PairInv, Paired
    <3> QED
      BY <1>1, <3>1, UnreadKept DEF Quiet
  <2>3. \A v, off : Send(v, off) =>
          Asked(v)' /\ (Lost' \/ (cmdQ'[1].off = off /\ cmdQ'[1].type = op'.type))
    BY <1>1, <2>2, SendOffers
  <2>4. DataAgree'
    BY <1>1, <1>3, <1>4, CalmData DEF Simple
  <2>5. CASE pc' = "cmd"
    BY <1>1, <2>1, <2>4, <2>5, TypesKept, OffsKept DEF Starting, Live
  <2>6. CASE pc' = "check" /\ op'.type = "I" /\ Send("TYPE", 0)
    <3>1. TypesAgree'
      BY <1>1, <2>1, <2>3, <2>6 DEF TypesAgree, Starting
    <3> QED
      BY <1>1, <2>1, <2>4, <2>6, <3>1, OffsKept DEF Starting, Live
  <2>7. CASE pc' = "check1" /\ Send("REST", 1)
    <3>1. OffsAgree'
      BY <1>1, <2>1, <2>3, <2>7 DEF OffsAgree, NoOff, RestPoint, Lost, Live
    <3> QED
      BY <1>1, <2>1, <2>4, <2>7, <3>1, TypesKept DEF Starting
  <2> QED
    BY <1>1, <2>5, <2>6, <2>7
<1> QED
  BY <1>2, <1>3, <1>4 DEF EndInv

\* The two ends agree between two calls as soon as their type and offset do.
LEMMA IdleEnds ==
  ASSUME IInv', PairInv', KindCmd', LinkOK', pc' = "idle",
         Sound' => /\ srv'.type = cip'.curTransferType /\ NoOff'
                   /\ op'.result = "ok" => Whole'
  PROVE  EndInv'
<1>1. ASSUME Sound' PROVE TypesAgree' /\ OffsAgree' /\ DataAgree'
  <2>1. DataAgree'
    BY <1>1, CalmData
  <2>2. TypesAgree' /\ OffsAgree'
    BY <1>1 DEF TypesAgree, OffsAgree, Starting, Live
  <2> QED
    BY <2>1, <2>2
<1> QED
  BY <1>1 DEF EndInv

\* What a call's return changes.
LEMMA ReturnKeeps ==
  ASSUME op \in OpType, NEW result \in {"ok", "err"}, Return(result)
  PROVE  /\ pc' = "idle" /\ op'.kind = op.kind /\ op'.cmd = op.cmd /\ op'.type = op.type
         /\ op'.start = op.start /\ op'.blocks = op.blocks /\ op'.result = result
BY DEF Return, OpType

\* A simple command's reply leaves the ends as they are.
LEMMA CmdReplyEnds ==
  ASSUME DataInv, IInv', PairInv', CmdReply
  PROVE  EndInv'
<1> USE DEF DataInv
<1>1. PICK ok \in BOOLEAN : /\ GetResponse("cmd", IF ok THEN {2} ELSE {1, 3, 4, 5}, cip)
                            /\ Return(IF ok THEN "ok" ELSE "err")
  BY DEF CmdReply
<1>2. UNCHANGED <<cmdQ, link, wire, srv, abandoned>> /\ TypeOK /\ cip \in CipType /\ op \in OpType
  BY DEF CmdReply, IInv, TypeOK
<1>3. /\ pc = "cmd" /\ cip.ctrlSocket = "open" /\ cip'.ctrlSocket = "open" /\ pc' = "idle"
      /\ cip'.curTransferType = cip.curTransferType /\ cip'.dataSocket = cip.dataSocket
      /\ op'.kind = op.kind /\ op'.cmd = op.cmd /\ op.kind \notin {"RETR", "STOR"}
  BY <1>1, <1>2, ReadsFields, ReturnKeeps DEF EndInv, KindCmd, Simple
<1>4. KindCmd' /\ LinkOK'
  BY <1>2, <1>3, LinkKept DEF KindCmd, EndInv, Simple
<1>5. ASSUME Sound' PROVE srv'.type = cip'.curTransferType /\ NoOff' /\ Whole'
  <2>1. TypesAgree /\ OffsAgree
    BY <1>2, <1>3, <1>5 DEF Sound, EndInv
  <2> QED
    BY <1>2, <1>3, <2>1 DEF TypesAgree, OffsAgree, NoOff, Lost, Whole
<1> QED
  BY <1>3, <1>4, <1>5, IdleEnds

\* FTPCheckForRestartModeAvailability: the outcome of its TYPE is the server's
\* type, and its REST 0 takes the REST 1 back.
LEMMA CheckTypeReplyEnds ==
  ASSUME DataInv, IInv', PairInv', CheckTypeReply
  PROVE  EndInv'
<1> USE DEF DataInv
<1> DEFINE C(ok) == [cip EXCEPT !.curTransferType = IF ok THEN "I" ELSE cip.curTransferType]
<1>1. PICK ok \in BOOLEAN : GetResponse("check", IF ok THEN {2} ELSE {1, 3, 4, 5}, C(ok))
  BY DEF CheckTypeReply
<1>2. /\ C(ok) \in CipType /\ C(ok).ctrlSocket = cip.ctrlSocket /\ C(ok).dataSocket = cip.dataSocket
      /\ C(ok).curTransferType = IF ok THEN "I" ELSE cip.curTransferType
  BY DEF IInv, TypeOK, CipType
<1> HIDE DEF C
<1>3. UNCHANGED <<op, link, wire, srv, abandoned>> /\ Send("REST", 1) /\ pc' = "check1" /\ TypeOK
  BY DEF CheckTypeReply, IInv
<1>4. /\ pc = "check" /\ cip.ctrlSocket = "open" /\ cip'.ctrlSocket = "open"
      /\ cip'.dataSocket = cip.dataSocket /\ ~Unreads(0)
      /\ cip'.curTransferType = IF ok THEN "I" ELSE cip.curTransferType
      /\ Unread[1].code \in IF ok THEN {2} ELSE {1, 3, 4, 5}
  BY <1>1, <1>2, <1>3, ReadsFields
<1>5. KindCmd' /\ LinkOK' /\ op.type = "I"
  BY <1>3, <1>4, LinkKept DEF KindCmd, EndInv, Simple
<1>6. ASSUME Sound' PROVE TypesAgree' /\ OffsAgree' /\ DataAgree'
  <2>1. TypesAgree /\ OffsAgree /\ Exchange("TYPE")
    BY <1>3, <1>4, <1>6 DEF Sound, EndInv, PairInv, Paired
  <2>2. Asked("REST")' /\ (Lost' \/ cmdQ'[1].off = 1)
    <3>1. Unreads(0)' /\ SrvReady /\ NoCommand
      BY <1>1, <1>2, <1>3, <2>1, ReadAnswer DEF NoCommand
    <3> QED
      BY <1>3, <3>1, SendOffers
  <2>3. TypesAgree'
    BY <1>3, <1>4, <1>5, <2>1 DEF TypesAgree, Starting, Asked
  <2>4. OffsAgree'
    BY <1>3, <1>4, <2>1, <2>2 DEF OffsAgree, NoOff, RestPoint, Lost, Live
  <2>5. DataAgree'
    BY <1>3, <1>5, <1>6, CalmData DEF Simple
  <2> QED
    BY <2>3, <2>4, <2>5
<1> QED
  BY <1>5, <1>6 DEF EndInv

\* REST 1 is offered and REST 0 takes it back, or the server has neither.
LEMMA CheckRESTReplyEnds ==
  ASSUME DataInv, IInv', PairInv', CheckREST1Reply \/ CheckREST0Reply
  PROVE  EndInv'
<1> USE DEF DataInv
<1> DEFINE Reads(p, ok, has) ==
      /\ GetResponse(p, IF ok THEN {1, 2, 3} ELSE {4, 5}, [cip EXCEPT !.hasREST = has])
      /\ \/ p = "check1" /\ ok /\ Send("REST", 0) /\ pc' = "check0" /\ UNCHANGED op
         \/ p = "check1" /\ ~ok /\ Return("ok")
         \/ p = "check0" /\ Return("ok")
<1>0. PICK p \in {"check1", "check0"}, ok \in BOOLEAN : \E has \in LearnREST(ok) : Reads(p, ok, has)
  BY DEF CheckREST1Reply, CheckREST0Reply
<1>1. PICK has \in LearnREST(ok) : Reads(p, ok, has)
  BY <1>0
<1> DEFINE c == [cip EXCEPT !.hasREST = has]
<1>2. /\ c \in CipType /\ c.ctrlSocket = cip.ctrlSocket /\ c.dataSocket = cip.dataSocket
      /\ c.curTransferType = cip.curTransferType
  BY LearnedFields DEF IInv, TypeOK, CipType
<1>3. /\ GetResponse(p, IF ok THEN {1, 2, 3} ELSE {4, 5}, c)
      /\ \/ p = "check1" /\ ok /\ Send("REST", 0) /\ pc' = "check0" /\ UNCHANGED op
         \/ p = "check1" /\ ~ok /\ Return("ok")
         \/ p = "check0" /\ Return("ok")
  BY <1>1
<1> HIDE DEF c, Reads
<1>4. UNCHANGED <<link, wire, srv, abandoned>> /\ TypeOK /\ op \in OpType
  BY DEF CheckREST1Reply, CheckREST0Reply, IInv, TypeOK
<1>5. /\ pc = p /\ cip.ctrlSocket = "open" /\ cip'.ctrlSocket = "open"
      /\ cip'.dataSocket = cip.dataSocket /\ ~Unreads(0)
      /\ cip'.curTransferType = cip.curTransferType
      /\ Unread[1].code \in IF ok THEN {1, 2, 3} ELSE {4, 5}
  BY <1>2, <1>3, <1>4, ReadsFields
<1>6. op'.kind = op.kind /\ op'.cmd = op.cmd /\ pc' \in {"check0", "idle"}
      /\ op.kind \notin {"RETR", "STOR"}
  BY <1>3, <1>4, <1>5, ReturnKeeps DEF EndInv, KindCmd, Simple
<1>7. KindCmd' /\ LinkOK'
  BY <1>4, <1>5, <1>6, LinkKept DEF KindCmd, EndInv, Simple
<1>8. Sound' => Sound /\ TypesAgree /\ OffsAgree /\ Exchange("REST")
  BY <1>4, <1>5 DEF Sound, EndInv, PairInv, Paired
<1>9. CASE pc' = "check0"
  <2>1. p = "check1" /\ ok /\ Send("REST", 0) /\ UNCHANGED op
    BY <1>3, <1>4, <1>9, ReturnKeeps
  <2>2. ASSUME Sound' PROVE TypesAgree' /\ OffsAgree' /\ DataAgree'
    <3>1. Asked("REST")' /\ (Lost' \/ cmdQ'[1].off = 0)
      <4>1. Unreads(0)' /\ SrvReady /\ NoCommand
        BY <1>2, <1>3, <1>4, <1>8, <2>2, ReadAnswer DEF NoCommand
      <4> QED
        BY <1>4, <2>1, <4>1, SendOffers
    <3>2. Lost \/ srv.rest
      BY <1>5, <1>8, <2>1, <2>2 DEF OffsAgree, Asked
    <3>3. OffsAgree'
      BY <1>4, <1>9, <3>1, <3>2 DEF OffsAgree, Lost, Live
    <3>4. TypesAgree'
      BY <1>4, <1>5, <1>8, <1>9, <2>2, TypesKept DEF Starting
    <3>5. DataAgree'
      BY <1>7, <1>9, <2>2, CalmData DEF Simple
    <3> QED
      BY <3>3, <3>4, <3>5
  <2> QED
    BY <1>7, <2>2 DEF EndInv
<1>10. CASE pc' = "idle"
  <2>1. ASSUME Sound' PROVE srv'.type = cip'.curTransferType /\ NoOff' /\ Whole'
    <3>1. srv.type = cip.curTransferType
      BY <1>5, <1>8, <2>1 DEF TypesAgree
    <3>2. NoOff
      BY <1>3, <1>5, <1>8, <1>10, <2>1 DEF OffsAgree, Asked
    <3> QED
      BY <1>4, <1>5, <1>6, <3>1, <3>2 DEF Whole, NoOff, Lost
  <2> QED
    BY <1>7, <1>10, <2>1, IdleEnds
<1> QED
  BY <1>6, <1>9, <1>10
-----------------------------------------------------------------------------
(* Starting a transfer.                                                     *)

\* A transfer begins in the type the server has, or with a TYPE for its own.
LEMMA FTPStartDataCmdEnds ==
  ASSUME DataInv, IInv', PairInv', FTPStartDataCmd
  PROVE  EndInv'
<1> USE DEF DataInv
<1>1. PICK kind \in Kinds \cap Transfers, type \in Types, start \in Starts :
        /\ NewOp(kind, type, start)
        /\ \/ /\ cip.curTransferType # type
              /\ Send("TYPE", 0)
              /\ pc' = "type"
              /\ UNCHANGED <<cip, link, wire>>
           \/ /\ cip.curTransferType = type
              /\ SendOpen
              /\ pc' = "open"
              /\ cip' = Reset(cip)
              /\ CloseLink
        /\ UNCHANGED <<repQ, srv, abandoned>>
  BY DEF FTPStartDataCmd
<1>2. /\ pc = "idle" /\ cip.ctrlSocket = "open" /\ op'.kind = op'.cmd /\ op'.kind = kind
      /\ op'.type = type /\ op'.blocks = 0
  BY <1>1 DEF NewOp
<1>3. /\ cip'.ctrlSocket = "open" /\ cip'.ctrlSrl = cip.ctrlSrl
      /\ cip'.curTransferType = cip.curTransferType
  BY <1>1, <1>2 DEF IInv, TypeOK, CipType, Reset
<1>4. KindCmd'
  BY <1>1, <1>2 DEF KindCmd, Simple
<1>5. LinkOK'
  BY <1>1, <1>2, <1>3, LinkKept, LinkClosed DEF EndInv, IInv
<1>6. ASSUME Sound' PROVE TypesAgree' /\ OffsAgree' /\ DataAgree'
  <2>1. Sound /\ TypesAgree /\ OffsAgree
    BY <1>1, <1>2, <1>6 DEF Sound, EndInv
  <2>2. Unreads(0)' /\ SrvReady /\ NoCommand
    <3>1. Quiet
      BY <1>2, <2>1 DEF Sound, PairInv, Paired
    <3> QED
      BY <1>1, <1>3, <3>1, UnreadKept DEF Quiet
  <2>3. DataAgree'
    BY <1>1, <1>2, <1>5, <1>6, CalmData DEF Simple
  <2>4. OffsAgree'
    BY <1>1, <1>2, <2>1, OffsKept DEF Live
  <2>5. TypesAgree'
    <3>1. CASE pc' = "type" /\ Send("TYPE", 0)
      <4>1. Asked("TYPE")' /\ (Lost' \/ cmdQ'[1].type = op'.type)
        BY <1>1, <2>2, <3>1, SendOffers
      <4> QED
        BY <1>1, <1>2, <1>3, <2>1, <3>1, <4>1 DEF TypesAgree, Starting
    <3>2. CASE pc' = "open" /\ cip.curTransferType = type
      BY <1>1, <1>2, <1>3, <2>1, <3>2 DEF TypesAgree, Starting
    <3> QED
      BY <1>1, <3>1, <3>2
  <2> QED
    BY <2>3, <2>4, <2>5
<1> QED
  BY <1>4, <1>5, <1>6 DEF EndInv

\* The library's type becomes the one asked for only when the server's has.
LEMMA TypeReplyEnds ==
  ASSUME DataInv, IInv', PairInv', TypeReply
  PROVE  EndInv'
<1> USE DEF DataInv
<1>0. op \in OpType /\ cip \in CipType /\ TypeOK /\ LinkOK /\ KindCmd
  BY DEF IInv, TypeOK, EndInv
<1>1. CASE TypeAccepted
  <2> DEFINE c == [Reset(cip) EXCEPT !.curTransferType = op.type]
  <2>1. GetResponse("type", {2}, c)
    BY <1>1 DEF TypeAccepted
  <2>2. c \in CipType /\ c.ctrlSocket = cip.ctrlSocket /\ c.curTransferType = op.type
    BY <1>0 DEF CipType, OpType, Reset
  <2> HIDE DEF c
  <2>3. /\ pc = "type" /\ pc' = "open" /\ cip.ctrlSocket = "open" /\ cip'.ctrlSocket = "open"
        /\ UNCHANGED <<op, srv, abandoned>> /\ CloseLink
        /\ cip'.curTransferType = op.type /\ Unread[1].code = 2 /\ ~Unreads(0)
    BY <1>0, <1>1, <2>1, <2>2, ReadsFields DEF TypeAccepted
  <2>4. KindCmd' /\ LinkOK'
    BY <1>0, <2>3, LinkClosed DEF KindCmd, Simple
  <2>5. ASSUME Sound' PROVE TypesAgree' /\ OffsAgree' /\ DataAgree'
    <3>1. Sound /\ TypesAgree /\ OffsAgree /\ DataAgree
      BY <2>3, <2>5 DEF Sound, EndInv
    <3>2. DataAgree'
      <4>1. op'.blocks = 0
        BY <2>3, <3>1 DEF DataAgree, Starting
      <4> QED
        BY <2>3, <2>4, <2>5, <4>1, CalmData
    <3>3. OffsAgree'
      BY <2>3, <3>1, OffsKept DEF Live
    <3>4. TypesAgree'
      BY <2>3, <3>1 DEF TypesAgree, Asked, Starting
    <3> QED
      BY <3>2, <3>3, <3>4
  <2> QED
    BY <2>4, <2>5 DEF EndInv
<1>2. CASE TypeRefused
  <2>1. /\ GetResponse("type", {1, 3, 4, 5}, cip) /\ Return("err")
        /\ UNCHANGED <<cmdQ, link, wire, srv, abandoned>>
    BY <1>2 DEF TypeRefused
  <2>2. /\ pc = "type" /\ pc' = "idle" /\ cip.ctrlSocket = "open" /\ cip'.ctrlSocket = "open"
        /\ cip'.curTransferType = cip.curTransferType /\ cip'.dataSocket = cip.dataSocket
        /\ op'.kind = op.kind /\ op'.cmd = op.cmd /\ op'.result = "err"
        /\ Unread[1].code # 2 /\ ~Unreads(0)
    BY <1>0, <2>1, ReadsFields, ReturnKeeps
  <2>3. KindCmd' /\ LinkOK'
    BY <1>0, <2>1, <2>2, LinkKept DEF KindCmd, Simple
  <2>4. ASSUME Sound' PROVE srv'.type = cip'.curTransferType /\ NoOff'
    <3>1. TypesAgree /\ OffsAgree
      BY <2>1, <2>2, <2>4 DEF Sound, EndInv
    <3> QED
      BY <2>1, <2>2, <3>1 DEF TypesAgree, Asked, OffsAgree, NoOff, Lost
  <2> QED
    BY <2>2, <2>3, <2>4, IdleEnds
<1> QED
  BY <1>1, <1>2 DEF TypeReply

\* Before the data connection is open there is none, nor one that has been cut.
LEMMA NoLinkYet ==
  ASSUME DataInv, pc \in {"open", "connect"}
  PROVE  /\ link \in {"none", "cut"} /\ cip.dataSocket = "closed" /\ cip.ctrlSocket = "open"
         /\ op.kind \in {"RETR", "STOR"} /\ op.cmd = op.kind
         /\ Sound => SrvReady /\ link = "none"
<1>1. link \in {"none", "cut"} /\ cip.dataSocket = "closed" /\ cip.ctrlSocket = "open"
  BY DEF DataInv, EndInv, LinkOK, IInv, TypeOK, CipType, SocketOK
<1>2. op.kind \in {"RETR", "STOR"} /\ op.cmd = op.kind
  BY KindsAssumption DEF DataInv, IInv, TypeOK, OpType, KindOK, Starting, PairInv, CmdOK, Transfers
<1>3. Sound => SrvReady
  BY DEF Sound, DataInv, PairInv, Paired, Exchange, Asked, Answered, Quiet
<1>4. Sound => link = "none"
  BY <1>1, <1>3 DEF DataInv, EndInv, LinkOK, SrvReady
<1> QED
  BY <1>1, <1>2, <1>3, <1>4

\* REST asks for the start point, and without one the transfer command is sent
\* with the server at the beginning.
LEMMA RestOrCommandOffs ==
  ASSUME Unreads(0)', SrvReady, NoCommand, UNCHANGED srv, SendRestOrCommand, NoOff,
         op.cmd = op.kind, op.kind \in {"RETR", "STOR"}, cip'.startPoint = 0
  PROVE  /\ OffsAgree' /\ pc' \in {"rest", "start"} /\ op' = op
         /\ pc' = "start" => Asked(op.cmd)'
<1>1. CASE Send("REST", op.start) /\ pc' = "rest"
  <2>1. Asked("REST")' /\ (Lost' \/ cmdQ'[1].off = op.start)
    BY <1>1, SendOffers
  <2> QED
    BY <1>1, <2>1 DEF SendRestOrCommand, OffsAgree, NoOff, RestPoint, Lost, Live
<1>2. CASE Send(op.kind, 0) /\ pc' = "start"
  <2>1. PICK v : v = op.kind
    OBVIOUS
  <2>2. Asked(v)'
    BY <1>2, <2>1, SendOffers
  <2>3. Asked(op.cmd)' /\ op' = op
    BY <2>1, <2>2 DEF SendRestOrCommand, Asked
  <2> QED
    BY <1>2, <2>3 DEF OffsAgree, CommandOff, NoOff, Lost, Live
<1> QED
  BY <1>1, <1>2 DEF SendRestOrCommand

\* The data connection while REST or the transfer command has been sent.
LEMMA StartData ==
  ASSUME LinkFresh', link' # "cut", cip'.dataSocket # "bogus", op'.blocks = 0,
         cip'.dataSocket = "listen" => cip'.dataPortMode = "PORT",
         pc' \in {"rest", "start", "rest0", "appe"},
         pc' \in {"start", "appe"} => Asked(op.cmd)' \/ Refused'
  PROVE  DataAgree'
BY DEF DataAgree, Live, Starting

\* PORT: the library listens, and neither end has begun anything.
LEMMA PORTAcceptedEnds ==
  ASSUME DataInv, IInv', PairInv', PORTAccepted
  PROVE  EndInv'
<1> USE DEF DataInv
<1> DEFINE c == [cip EXCEPT !.dataSocket = "listen", !.dataPortMode = "PORT", !.startPoint = 0]
<1>0. op \in OpType /\ cip \in CipType /\ TypeOK /\ LinkOK /\ KindCmd
  BY DEF IInv, TypeOK, EndInv
<1>1. GetResponse("open", {2}, c) /\ SendRestOrCommand /\ UNCHANGED <<link, wire, srv, abandoned>>
  BY DEF PORTAccepted
<1>2. /\ c \in CipType /\ c.ctrlSocket = cip.ctrlSocket /\ c.dataSocket = "listen"
      /\ c.dataPortMode = "PORT" /\ c.startPoint = 0 /\ c.curTransferType = cip.curTransferType
  BY <1>0 DEF CipType
<1> HIDE DEF c
<1>3. /\ pc = "open" /\ cip'.ctrlSocket = "open" /\ cip'.dataSocket = "listen"
      /\ cip'.dataPortMode = "PORT" /\ cip'.startPoint = 0 /\ UNCHANGED op
      /\ cip'.curTransferType = cip.curTransferType /\ pc' \in {"rest", "start"}
  BY <1>0, <1>1, <1>2, ReadsFields DEF SendRestOrCommand
<1>4. /\ op.kind \in {"RETR", "STOR"} /\ op.cmd = op.kind
      /\ Sound => SrvReady /\ link = "none"
  BY <1>3, NoLinkYet
<1>5. KindCmd' /\ LinkOK'
  BY <1>0, <1>1, <1>3, LinkKept DEF KindCmd, Simple
<1>6. ASSUME Sound' PROVE TypesAgree' /\ OffsAgree' /\ DataAgree'
  <2>1. Sound /\ TypesAgree /\ OffsAgree /\ DataAgree
    BY <1>1, <1>2, <1>3, <1>6, ReadsFields, <1>0 DEF Sound, EndInv
  <2>2. TypesAgree'
    BY <1>1, <1>3, <2>1, TypesKept DEF Starting
  <2>3. /\ OffsAgree' /\ pc' \in {"rest", "start"} /\ op' = op
        /\ pc' = "start" => Asked(op.cmd)'
    <3>1. PICK v : Exchange(v)
      BY <1>3, <2>1 DEF Sound, PairInv, Paired
    <3>2. Unreads(0)' /\ SrvReady /\ NoCommand
      BY <1>0, <1>1, <1>2, <3>1, ReadAnswer DEF NoCommand
    <3>3. NoOff
      BY <1>3, <2>1 DEF OffsAgree
    <3> QED
      BY <1>1, <1>3, <1>4, <3>2, <3>3, RestOrCommandOffs
  <2>4. DataAgree'
    <3>1. op'.blocks = 0
      BY <1>3, <2>1 DEF DataAgree, Starting
    <3>2. LinkFresh' /\ link' # "cut"
      BY <1>1, <1>4, <2>1 DEF LinkFresh
    <3> QED
      BY <1>3, <2>3, <3>1, <3>2, StartData
  <2> QED
    BY <2>2, <2>3, <2>4
<1> QED
  BY <1>5, <1>6 DEF EndInv

\* While replies are paired with commands, a reply to PASV names a port.
LEMMA PASVNamesNoPortEnds ==
  ASSUME DataInv, IInv', PairInv', PASVNamesNoPort
  PROVE  EndInv'
<1> USE DEF DataInv
<1> DEFINE c == [cip EXCEPT !.dataSocket = "bogus", !.hasPASV = "available", !.startPoint = 0]
<1>0. op \in OpType /\ cip \in CipType /\ TypeOK /\ LinkOK /\ KindCmd
  BY DEF IInv, TypeOK, EndInv
<1>1. /\ GetResponse("open", {2}, c) /\ SendRestOrCommand /\ UNCHANGED <<link, wire, srv, abandoned>>
      /\ ~UsesPORT /\ NextReply.verb # "PASV"
  BY DEF PASVNamesNoPort
<1>2. c \in CipType /\ c.ctrlSocket = cip.ctrlSocket
  BY <1>0 DEF CipType
<1> HIDE DEF c
<1>3. /\ pc = "open" /\ cip.ctrlSocket = "open" /\ cip'.ctrlSocket = "open" /\ UNCHANGED op
      /\ pc' \in {"rest", "start"} /\ ~Unreads(0) /\ NextReply = Unread[1]
  BY <1>0, <1>1, <1>2, ReadsFields DEF SendRestOrCommand
<1>4. KindCmd' /\ LinkOK'
  <2>1. cip.dataSocket = "closed"
    BY <1>3, NoLinkYet
  <2> QED
    BY <1>0, <1>1, <1>3, <2>1, LinkKept DEF KindCmd, Simple
<1>5. ~Sound'
  <2>1. abandoned = {} => Exchange("PASV")
    BY <1>1, <1>3 DEF PairInv, Paired
  <2>2. Exchange("PASV") => Unread[1].verb = "PASV"
    BY <1>3 DEF Exchange, Asked, Answered, Own
  <2> QED
    BY <1>1, <1>3, <2>1, <2>2 DEF Sound
<1> QED
  BY <1>4, <1>5 DEF EndInv

\* PASV: the port is known, and the library goes to connect to it.
LEMMA PASVAcceptedEnds ==
  ASSUME DataInv, IInv', PairInv', PASVAccepted
  PROVE  EndInv'
<1> USE DEF DataInv
<1> DEFINE c == [cip EXCEPT !.startPoint = 0]
<1>0. op \in OpType /\ cip \in CipType /\ TypeOK /\ LinkOK /\ KindCmd
  BY DEF IInv, TypeOK, EndInv
<1>1. GetResponse("open", {2}, c) /\ UNCHANGED <<op, cmdQ, link, wire, srv, abandoned>> /\ pc' = "connect"
  BY DEF PASVAccepted
<1>2. /\ c \in CipType /\ c.ctrlSocket = cip.ctrlSocket /\ c.dataSocket = cip.dataSocket
      /\ c.startPoint = 0 /\ c.curTransferType = cip.curTransferType
  BY <1>0 DEF CipType
<1> HIDE DEF c
<1>3. /\ pc = "open" /\ cip.ctrlSocket = "open" /\ cip'.ctrlSocket = "open"
      /\ cip'.dataSocket = cip.dataSocket /\ cip'.startPoint = 0
      /\ cip'.curTransferType = cip.curTransferType
  BY <1>0, <1>1, <1>2, ReadsFields
<1>4. KindCmd' /\ LinkOK'
  BY <1>0, <1>1, <1>3, LinkKept DEF KindCmd, Simple
<1>5. ASSUME Sound' PROVE TypesAgree' /\ OffsAgree' /\ DataAgree'
  <2>1. Sound /\ TypesAgree /\ OffsAgree /\ DataAgree
    BY <1>1, <1>3, <1>5 DEF Sound, EndInv
  <2>2. TypesAgree' /\ OffsAgree'
    BY <1>1, <1>3, <2>1, TypesKept, OffsKept DEF Starting, Live
  <2>3. op'.blocks = 0
    BY <1>1, <1>3, <2>1 DEF DataAgree, Starting
  <2>4. DataAgree'
    BY <1>1, <1>4, <1>5, <2>3, CalmData
  <2> QED
    BY <2>2, <2>4
<1> QED
  BY <1>4, <1>5 DEF EndInv

\* A refused PASV or PORT ends the call, or PORT is tried in PASV's place.
LEMMA OpenRefusedEnds ==
  ASSUME DataInv, IInv', PairInv', OpenRefused
  PROVE  EndInv'
<1> USE DEF DataInv
<1> DEFINE c == PASVRefused(cip)
<1>0. op \in OpType /\ cip \in CipType /\ TypeOK /\ LinkOK /\ KindCmd
  BY DEF IInv, TypeOK, EndInv
<1>1. GetResponse("open", {1, 3, 4, 5}, c) /\ UNCHANGED abandoned
  BY DEF OpenRefused
<1>2. /\ c \in CipType /\ c.ctrlSocket = cip.ctrlSocket /\ c.dataSocket = cip.dataSocket
      /\ c.startPoint = cip.startPoint /\ c.curTransferType = cip.curTransferType
  BY <1>0 DEF CipType, PASVRefused
<1> HIDE DEF c
<1>3. /\ pc = "open" /\ cip.ctrlSocket = "open" /\ cip'.ctrlSocket = "open"
      /\ cip'.dataSocket = cip.dataSocket /\ cip'.startPoint = cip.startPoint
      /\ cip'.curTransferType = cip.curTransferType
  BY <1>0, <1>1, <1>2, ReadsFields
<1>4. Sound' => Sound /\ TypesAgree /\ OffsAgree /\ DataAgree
  BY <1>1, <1>3 DEF Sound, EndInv
<1>5. CASE ~UsesPORT /\ cip.dataPortMode = "FALLBACK"
  <2>1. UNCHANGED <<pc, op, link, wire, srv>>
    BY <1>5 DEF OpenRefused
  <2>2. KindCmd' /\ LinkOK'
    BY <1>0, <1>1, <1>3, <2>1, LinkKept DEF KindCmd, Simple
  <2>3. ASSUME Sound' PROVE TypesAgree' /\ OffsAgree' /\ DataAgree'
    <3>1. TypesAgree' /\ OffsAgree'
      BY <1>3, <1>4, <2>1, <2>3, TypesKept, OffsKept DEF Starting, Live
    <3>2. op'.blocks = 0
      BY <1>3, <1>4, <2>1, <2>3 DEF DataAgree, Starting
    <3>3. DataAgree'
      BY <1>3, <2>1, <2>2, <2>3, <3>2, CalmData
    <3> QED
      BY <3>1, <3>3
  <2> QED
    BY <2>2, <2>3 DEF EndInv
<1>6. CASE ~(~UsesPORT /\ cip.dataPortMode = "FALLBACK")
  <2>1. Return("err") /\ CloseLink /\ UNCHANGED srv
    BY <1>6 DEF OpenRefused, StartFails
  <2>2. pc' = "idle" /\ op'.kind = op.kind /\ op'.cmd = op.cmd /\ op'.result = "err"
    BY <1>0, <2>1, ReturnKeeps
  <2>3. KindCmd' /\ LinkOK'
    BY <1>0, <1>3, <2>1, <2>2, LinkClosed DEF KindCmd, Simple
  <2>4. Sound' => srv'.type = cip'.curTransferType /\ NoOff'
    BY <1>3, <1>4, <2>1, <2>2 DEF TypesAgree, OffsAgree, NoOff, Lost
  <2> QED
    BY <2>2, <2>3, <2>4, IdleEnds
<1> QED
  BY <1>5, <1>6

\* The connect to the server's port, and what is tried when it fails.
LEMMA ConnectEnds ==
  ASSUME DataInv, IInv', PairInv', Connect
  PROVE  EndInv'
<1> USE DEF DataInv
<1>0. /\ op \in OpType /\ cip \in CipType /\ TypeOK /\ LinkOK /\ KindCmd
      /\ pc = "connect" /\ UNCHANGED <<repQ, srv, abandoned>>
  <2>1. pc = "connect" /\ UNCHANGED <<repQ, srv, abandoned>>
    BY DEF Connect, Connected, ConnectAgain, ConnectFails, ConnectFallsBack, ConnectExhausted, StartFails
  <2> QED
    BY <2>1 DEF IInv, TypeOK, EndInv
<1>1. /\ link \in {"none", "cut"} /\ cip.dataSocket = "closed" /\ cip.ctrlSocket = "open"
      /\ op.kind \in {"RETR", "STOR"} /\ op.cmd = op.kind
      /\ Sound => SrvReady /\ link = "none"
  BY <1>0, NoLinkYet
<1>2. /\ cip'.ctrlSocket = "open" /\ cip'.ctrlSrl = cip.ctrlSrl /\ cip'.startPoint = cip.startPoint
      /\ cip'.curTransferType = cip.curTransferType
      /\ cip'.dataSocket \in {"closed", "open", "unconnected"}
  BY <1>0, <1>1 DEF Connect, Connected, ConnectAgain, ConnectFails, ConnectFallsBack, ConnectExhausted, CipType
<1>3. Sound' => Sound /\ TypesAgree /\ OffsAgree /\ DataAgree
  BY <1>0, <1>1, <1>2 DEF Sound, EndInv
<1>4. CASE Connected \/ ConnectExhausted
  <2>1. /\ SendRestOrCommand /\ pc' \in {"rest", "start"} /\ op' = op
        /\ \/ cip'.dataSocket = "open" /\ link' = "up" /\ wire' = 0
           \/ cip'.dataSocket = "unconnected" /\ UNCHANGED <<link, wire>>
    BY <1>0, <1>4 DEF Connected, ConnectExhausted, SendRestOrCommand, CipType
  <2>2. KindCmd' /\ LinkOK'
    BY <1>0, <1>1, <1>2, <2>1 DEF KindCmd, Simple, LinkOK
  <2>3. ASSUME Sound' PROVE TypesAgree' /\ OffsAgree' /\ DataAgree'
    <3>1. TypesAgree'
      BY <1>0, <1>2, <1>3, <2>1, <2>3, TypesKept DEF Starting
    <3>2. OffsAgree' /\ (pc' = "start" => Asked(op.cmd)')
      <4>1. Unreads(0)' /\ SrvReady /\ NoCommand
        BY <1>0, <1>2, <1>3, <2>3, UnreadKept DEF Sound, PairInv, Paired, Quiet
      <4>2. NoOff /\ cip'.startPoint = 0
        BY <1>0, <1>2, <1>3, <2>3 DEF OffsAgree
      <4> QED
        BY <1>0, <1>1, <2>1, <4>1, <4>2, RestOrCommandOffs
    <3>3. DataAgree'
      <4>1. op'.blocks = 0
        BY <1>0, <1>3, <2>1, <2>3 DEF DataAgree
      <4>2. LinkFresh' /\ link' # "cut"
        BY <1>1, <1>3, <2>1, <2>3 DEF LinkFresh
      <4> QED
        BY <2>1, <3>2, <4>1, <4>2, StartData
    <3> QED
      BY <3>1, <3>2, <3>3
  <2> QED
    BY <2>2, <2>3 DEF EndInv
<1>5. CASE ConnectAgain \/ ConnectFallsBack
  <2>1. /\ pc' = "open" /\ UNCHANGED <<link, wire>> /\ cip'.dataSocket = "closed"
        /\ op'.kind = op.kind /\ op'.cmd = op.cmd /\ op'.type = op.type /\ op'.blocks = op.blocks
    BY <1>0, <1>1, <1>5 DEF ConnectAgain, ConnectFallsBack, CipType, OpType
  <2>2. KindCmd' /\ LinkOK'
    BY <1>0, <1>1, <1>2, <2>1, LinkKept DEF KindCmd, Simple
  <2>3. ASSUME Sound' PROVE TypesAgree' /\ OffsAgree' /\ DataAgree'
    <3>1. TypesAgree' /\ OffsAgree'
      BY <1>0, <1>2, <1>3, <2>1, <2>3, TypesKept, OffsKept DEF Starting, Live
    <3>2. op'.blocks = 0
      BY <1>0, <1>3, <2>1, <2>3 DEF DataAgree
    <3>3. DataAgree'
      BY <2>1, <2>2, <2>3, <3>2, CalmData
    <3> QED
      BY <3>1, <3>3
  <2> QED
    BY <2>2, <2>3 DEF EndInv
<1>6. CASE ConnectFails
  <2>1. Return("err") /\ CloseLink /\ UNCHANGED cip
    BY <1>6 DEF ConnectFails, StartFails
  <2>2. pc' = "idle" /\ op'.kind = op.kind /\ op'.cmd = op.cmd /\ op'.result = "err"
    BY <1>0, <2>1, ReturnKeeps
  <2>3. KindCmd' /\ LinkOK'
    BY <1>0, <1>2, <2>1, <2>2, LinkClosed DEF KindCmd, Simple
  <2>4. Sound' => srv'.type = cip'.curTransferType /\ NoOff'
    BY <1>0, <1>2, <1>3 DEF TypesAgree, OffsAgree, NoOff, Lost
  <2> QED
    BY <2>2, <2>3, <2>4, IdleEnds
<1> QED
  BY <1>4, <1>5, <1>6 DEF Connect

\* A call that starts a transfer is a retrieve or a store.
LEMMA TransferKind ==
  ASSUME IInv, pc \in Starting \cup {"connect", "accept", "xfer", "eofwait", "final"}
  PROVE  op.kind \in {"RETR", "STOR"}
BY KindsAssumption DEF IInv, TypeOK, OpType, KindOK, Transfers

\* The start point is what the server has made of REST, or of the offset that
\* APPE implies.
LEMMA RestReplyEnds ==
  ASSUME DataInv, IInv', PairInv', RestReply
  PROVE  EndInv'
<1> USE DEF DataInv
<1> DEFINE App(ok) == ~ok /\ op.kind = "STOR" /\ UseAPPE
           C(ok, has) == [cip EXCEPT !.startPoint = IF ok \/ App(ok) THEN op.start ELSE 0,
                                     !.hasREST = has]
<1>0. op \in OpType /\ cip \in CipType /\ TypeOK /\ LinkOK /\ KindCmd /\ op.start \in Nat
  BY DEF IInv, TypeOK, EndInv, OpType
<1>1. PICK ok \in BOOLEAN : \E has \in LearnREST(ok) :
        /\ GetResponse("rest", IF ok THEN {1, 2, 3} ELSE {4, 5}, C(ok, has))
        /\ op' = [op EXCEPT !.cmd = IF App(ok) THEN "APPE" ELSE op.kind]
        /\ Send(op'.cmd, IF App(ok) THEN op.start ELSE 0) /\ pc' = "start"
        /\ UNCHANGED <<link, wire, srv, abandoned>>
  BY DEF RestReply
<1>2. PICK has \in LearnREST(ok) :
        GetResponse("rest", IF ok THEN {1, 2, 3} ELSE {4, 5}, C(ok, has))
  BY <1>1
<1>3. /\ op' = [op EXCEPT !.cmd = IF App(ok) THEN "APPE" ELSE op.kind]
      /\ Send(op'.cmd, IF App(ok) THEN op.start ELSE 0) /\ pc' = "start"
      /\ UNCHANGED <<link, wire, srv, abandoned>>
  BY <1>1
<1>4. LET c == C(ok, has) IN
      /\ c \in CipType /\ c.ctrlSocket = cip.ctrlSocket /\ c.dataSocket = cip.dataSocket
      /\ c.dataPortMode = cip.dataPortMode /\ c.curTransferType = cip.curTransferType
      /\ c.startPoint = IF ok \/ App(ok) THEN op.start ELSE 0
  <2>1. has \in {"unknown", "available", "unavailable"}
    BY <1>0 DEF CipType, LearnREST
  <2> QED
    BY <1>0, <2>1 DEF CipType
<1> HIDE DEF C
<1>5. /\ pc = "rest" /\ cip.ctrlSocket = "open" /\ cip'.ctrlSocket = "open"
      /\ cip'.dataSocket = cip.dataSocket /\ cip'.dataPortMode = cip.dataPortMode
      /\ cip'.curTransferType = cip.curTransferType
      /\ cip'.startPoint = IF ok \/ App(ok) THEN op.start ELSE 0
      /\ ~Unreads(0) /\ Unread[1].code \in IF ok THEN {1, 2, 3} ELSE {4, 5}
  BY <1>0, <1>2, <1>4, ReadsFields
<1>6. op.kind \in {"RETR", "STOR"}
  BY <1>5, TransferKind DEF Starting
<1>7. /\ op'.kind = op.kind /\ op'.cmd = IF App(ok) THEN "APPE" ELSE op.kind
      /\ op'.type = op.type /\ op'.start = op.start /\ op'.blocks = op.blocks
  BY <1>0, <1>3 DEF OpType
<1>8. KindCmd' /\ LinkOK'
  BY <1>0, <1>3, <1>5, <1>6, <1>7, LinkKept DEF KindCmd, Simple
<1>9. ASSUME Sound' PROVE TypesAgree' /\ OffsAgree' /\ DataAgree'
  <2>1. Sound /\ TypesAgree /\ OffsAgree /\ DataAgree /\ Exchange("REST")
    BY <1>3, <1>5, <1>9 DEF Sound, EndInv, PairInv, Paired
  <2>2. PICK v : v = op'.cmd
    OBVIOUS
  <2>3. Asked(v)' /\ (Lost' \/ cmdQ'[1].off = IF App(ok) THEN op.start ELSE 0)
    <3>1. Unreads(0)' /\ SrvReady /\ NoCommand
      BY <1>0, <1>2, <1>3, <1>4, <2>1, ReadAnswer DEF NoCommand
    <3> QED
      BY <1>3, <2>2, <3>1, SendOffers
  <2>4. Asked(op.cmd)'
    BY <2>2, <2>3 DEF Asked
  <2>5. TypesAgree'
    BY <1>3, <1>5, <1>7, <2>1, TypesKept DEF Starting
  <2>6. CommandOff'
    <3>1. IF ok THEN Lost \/ srv.off = op.start ELSE NoOff
      BY <1>5, <2>1 DEF OffsAgree, Asked, RestPoint
    <3> QED
      BY <1>3, <1>5, <1>6, <1>7, <2>3, <3>1 DEF CommandOff, NoOff, Lost
  <2>7. OffsAgree'
    BY <1>3, <1>5, <1>7, <2>4, <2>6 DEF OffsAgree, Live
  <2>8. DataAgree'
    <3>1. LinkFresh /\ link # "cut" /\ op.blocks = 0 /\ cip.dataSocket # "bogus"
          /\ (cip.dataSocket = "listen" => cip.dataPortMode = "PORT")
      BY <1>5, <2>1 DEF DataAgree, Starting, Aborting
    <3>2. LinkFresh'
      BY <1>3, <3>1 DEF LinkFresh
    <3> QED
      BY <1>3, <1>5, <1>7, <2>4, <3>1, <3>2, StartData
  <2> QED
    BY <2>5, <2>7, <2>8
<1> QED
  BY <1>8, <1>9 DEF EndInv

\* APPE after a REST 0, whatever came of that.
LEMMA Rest0ReplyEnds ==
  ASSUME DataInv, IInv', PairInv', Rest0Reply
  PROVE  EndInv'
<1> USE DEF DataInv
<1>0. op \in OpType /\ cip \in CipType /\ TypeOK /\ LinkOK /\ KindCmd
  BY DEF IInv, TypeOK, EndInv
<1>1. /\ GetResponse("rest0", {1, 2, 3, 4, 5}, cip) /\ UNCHANGED <<op, link, wire, srv, abandoned>>
      /\ Send("APPE", op.start) /\ pc' = "appe"
  BY DEF Rest0Reply
<1>2. /\ pc = "rest0" /\ cip.ctrlSocket = "open" /\ cip'.ctrlSocket = "open"
      /\ cip'.dataSocket = cip.dataSocket /\ cip'.dataPortMode = cip.dataPortMode
      /\ cip'.curTransferType = cip.curTransferType /\ cip'.startPoint = cip.startPoint
  BY <1>0, <1>1, ReadsFields
<1>3. KindCmd' /\ LinkOK' /\ op.cmd = "APPE"
  BY <1>0, <1>1, <1>2, LinkKept DEF KindCmd, Simple, PairInv, CmdOK
<1>4. ASSUME Sound' PROVE TypesAgree' /\ OffsAgree' /\ DataAgree'
  <2>1. Sound /\ TypesAgree /\ OffsAgree /\ DataAgree /\ Exchange("REST")
    BY <1>1, <1>2, <1>4 DEF Sound, EndInv, PairInv, Paired
  <2>2. Asked("APPE")' /\ (Lost' \/ cmdQ'[1].off = op.start)
    <3>1. Unreads(0)' /\ SrvReady /\ NoCommand
      BY <1>0, <1>1, <2>1, ReadAnswer DEF NoCommand
    <3> QED
      BY <1>1, <3>1, SendOffers
  <2>3. Asked(op.cmd)'
    BY <1>1, <1>3, <2>2 DEF Asked
  <2>4. TypesAgree'
    BY <1>1, <1>2, <2>1, TypesKept DEF Starting
  <2>5. OffsAgree'
    BY <1>1, <1>2, <1>3, <2>1, <2>2, <2>3 DEF OffsAgree, CommandOff, NoOff, Lost, Live
  <2>6. DataAgree'
    <3>1. LinkFresh /\ link # "cut" /\ op.blocks = 0 /\ cip.dataSocket # "bogus"
          /\ (cip.dataSocket = "listen" => cip.dataPortMode = "PORT")
      BY <1>2, <2>1 DEF DataAgree, Starting, Aborting
    <3>2. LinkFresh'
      BY <1>1, <3>1 DEF LinkFresh
    <3> QED
      BY <1>1, <1>2, <2>3, <3>1, <3>2, StartData
  <2> QED
    BY <2>4, <2>5, <2>6
<1> QED
  BY <1>3, <1>4 DEF EndInv

\* A preliminary reply: the server has begun where the library means it to.
LEMMA StartBegunEnds ==
  ASSUME DataInv, IInv', PairInv', NEW p \in {"start", "appe"},
         StartThenAccept(p) \/ StartThenTransfer(p)
  PROVE  EndInv'
<1> USE DEF DataInv
<1>0. op \in OpType /\ cip \in CipType /\ TypeOK /\ LinkOK /\ KindCmd
  BY DEF IInv, TypeOK, EndInv
<1>1. PICK c \in {cip, Begun(cip)} : GetResponse(p, {1, 2}, c)
  BY DEF StartThenAccept, StartThenTransfer
<1>2. /\ c \in CipType /\ c.ctrlSocket = cip.ctrlSocket /\ c.dataSocket = cip.dataSocket
      /\ c.dataPortMode = cip.dataPortMode /\ c.curTransferType = cip.curTransferType
      /\ c.startPoint = cip.startPoint
  BY <1>0 DEF CipType, Begun
<1>3. /\ UNCHANGED <<op, cmdQ, link, wire, srv, abandoned>>
      /\ \/ pc' = "accept" /\ cip.dataPortMode = "PORT"
         \/ pc' = "xfer" /\ cip.dataPortMode # "PORT"
  BY DEF StartThenAccept, StartThenTransfer
<1>4. /\ pc \in {"start", "appe"} /\ cip.ctrlSocket = "open" /\ cip'.ctrlSocket = "open"
      /\ cip'.dataSocket = cip.dataSocket /\ cip'.dataPortMode = cip.dataPortMode
      /\ cip'.curTransferType = cip.curTransferType /\ cip'.startPoint = cip.startPoint
      /\ ~Unreads(0) /\ Unread[1].code \in {1, 2}
  BY <1>0, <1>1, <1>2, ReadsFields
<1>5. KindCmd' /\ LinkOK'
  BY <1>0, <1>3, <1>4, LinkKept DEF KindCmd, Simple
<1>6. ASSUME Sound' PROVE TypesAgree' /\ OffsAgree' /\ DataAgree'
  <2>1. Sound /\ TypesAgree /\ OffsAgree /\ DataAgree /\ StartAsked
    BY <1>3, <1>4, <1>6 DEF Sound, EndInv, PairInv, Paired
  <2>2. TypesAgree'
    BY <1>3, <1>4, <2>1, TypesKept DEF Starting
  <2>3. ~Asked(op.cmd) /\ ~Refused
    BY <1>4 DEF Asked, Refused
  <2>4. OffsAgree'
    BY <1>3, <1>4, <2>1, <2>3 DEF OffsAgree, NoOff, Lost
  <2>5. Flow /\ (Unreads(1) \/ (Unread[2].code = 2 => Complete)) /\ op.blocks = 0
        /\ cip.dataSocket # "bogus" /\ (cip.dataSocket = "listen" => cip.dataPortMode = "PORT")
        /\ link # "cut"
    BY <1>4, <2>1, <2>3 DEF DataAgree, Starting, Aborting
  <2>6. Unreads(0)' \/ (Unread'[1].code = 2 => Complete)
    <3>1. Unreads(0)' \/ Unread'[1] = Unread[2]
      BY <1>0, <1>1, <1>2, <1>3, <1>4, <2>1, ReadStart
    <3>2. Unreads(1) => Unreads(0)'
      <4>1. HaveReply /\ Receive(c) /\ NextReply.code # 421
        BY <1>1 DEF GetResponse
      <4>2. Unreads(1) => Unreads(1 - 1)'
        BY <1>0, <1>2, <1>3, <4>1, ReadsOne
      <4>3. 1 - 1 = 0
        OBVIOUS
      <4> QED
        BY <4>2, <4>3
    <3> QED
      BY <2>5, <3>1, <3>2
  <2>7. Flow' /\ (Complete => Complete')
    BY <1>3, <1>4, <2>5 DEF Flow, Complete, SrvReady
  <2>8. DataAgree'
    BY <1>3, <1>4, <2>5, <2>6, <2>7 DEF DataAgree, Starting, Aborting
  <2> QED
    BY <2>2, <2>4, <2>8
<1> QED
  BY <1>5, <1>6 DEF EndInv

\* A refusal: the server is back at the beginning and has no data connection.
LEMMA StartRefusedEnds ==
  ASSUME DataInv, IInv', PairInv', NEW p \in {"start", "appe"},
         StartRetried(p) \/ StartRefused(p)
  PROVE  EndInv'
<1> USE DEF DataInv
<1>0. op \in OpType /\ cip \in CipType /\ TypeOK /\ LinkOK /\ KindCmd
  BY DEF IInv, TypeOK, EndInv
<1>1. CASE StartRetried(p)
  <2>1. /\ GetResponse(p, {3, 4, 5}, cip) /\ op' = [op EXCEPT !.cmd = "APPE"]
        /\ Send("REST", 0) /\ pc' = "rest0" /\ UNCHANGED <<link, wire, srv, abandoned>>
        /\ RetryAsAPPE
    BY <1>1 DEF StartRetried
  <2>2. /\ pc = "start" /\ cip.ctrlSocket = "open" /\ cip'.ctrlSocket = "open"
        /\ cip'.dataSocket = cip.dataSocket /\ cip'.dataPortMode = cip.dataPortMode
        /\ cip'.curTransferType = cip.curTransferType /\ cip'.startPoint = cip.startPoint
        /\ ~Unreads(0) /\ Unread[1].code \in {3, 4, 5}
    BY <1>0, <2>1, ReadsFields DEF RetryAsAPPE
  <2>3. /\ op'.kind = op.kind /\ op'.cmd = "APPE" /\ op'.type = op.type /\ op'.start = op.start
        /\ op'.blocks = op.blocks /\ op.kind = "STOR" /\ cip.startPoint # 0
    <3>1. op.kind \in {"RETR", "STOR"} /\ op.cmd = "STOR" /\ cip.startPoint # 0
      BY <2>1, <2>2, TransferKind DEF RetryAsAPPE, Starting
    <3> QED
      BY <1>0, <2>1, <3>1 DEF OpType, KindCmd
  <2>4. KindCmd' /\ LinkOK'
    BY <1>0, <2>1, <2>2, <2>3, LinkKept DEF KindCmd, Simple
  <2>5. ASSUME Sound' PROVE TypesAgree' /\ OffsAgree' /\ DataAgree'
    <3>1. Sound /\ TypesAgree /\ OffsAgree /\ DataAgree /\ StartAsked
      BY <2>1, <2>2, <2>5 DEF Sound, EndInv, PairInv, Paired
    <3>2. ~Asked(op.cmd) /\ ~Started
      BY <2>2 DEF Asked, Started
    <3>3. Asked("REST")' /\ (Lost' \/ cmdQ'[1].off = 0)
      <4>1. Unreads(0)' /\ SrvReady /\ NoCommand
        BY <1>0, <2>1, <2>2, <3>1, ReadStart DEF NoCommand
      <4> QED
        BY <2>1, <4>1, SendOffers
    <3>4. TypesAgree'
      BY <2>1, <2>2, <2>3, <3>1, TypesKept DEF Starting
    <3>5. OffsAgree'
      BY <2>1, <2>2, <2>3, <3>1, <3>2, <3>3 DEF OffsAgree, NoOff, Lost, Live
    <3>6. DataAgree'
      <4>1. LinkFresh /\ link # "cut" /\ op.blocks = 0 /\ cip.dataSocket # "bogus"
            /\ (cip.dataSocket = "listen" => cip.dataPortMode = "PORT")
        BY <2>2, <3>1, <3>2 DEF DataAgree, Starting, Aborting
      <4>2. LinkFresh'
        BY <2>1, <4>1 DEF LinkFresh
      <4> QED
        BY <2>1, <2>2, <2>3, <4>1, <4>2, StartData
    <3> QED
      BY <3>4, <3>5, <3>6
  <2> QED
    BY <2>4, <2>5 DEF EndInv
<1>2. CASE StartRefused(p)
  <2>1. /\ GetResponse(p, {3, 4, 5}, Closed(cip)) /\ Return("err") /\ CloseLink
        /\ UNCHANGED <<srv, abandoned>>
    BY <1>2 DEF StartRefused, StartFails
  <2>2. /\ Closed(cip) \in CipType /\ Closed(cip).ctrlSocket = cip.ctrlSocket
        /\ Closed(cip).curTransferType = cip.curTransferType
    BY <1>0 DEF CipType, Closed
  <2>3. /\ pc \in {"start", "appe"} /\ cip.ctrlSocket = "open" /\ cip'.ctrlSocket = "open"
        /\ cip'.curTransferType = cip.curTransferType
        /\ ~Unreads(0) /\ Unread[1].code \in {3, 4, 5}
    BY <1>0, <2>1, <2>2, ReadsFields
  <2>4. pc' = "idle" /\ op'.kind = op.kind /\ op'.cmd = op.cmd /\ op'.result = "err"
    BY <1>0, <2>1, ReturnKeeps
  <2>5. KindCmd' /\ LinkOK'
    BY <1>0, <2>1, <2>3, <2>4, LinkClosed DEF KindCmd, Simple
  <2>6. ASSUME Sound' PROVE srv'.type = cip'.curTransferType /\ NoOff'
    <3>1. TypesAgree /\ OffsAgree
      BY <2>1, <2>3, <2>6 DEF Sound, EndInv
    <3> QED
      BY <2>1, <2>3, <3>1 DEF TypesAgree, OffsAgree, NoOff, Lost, Asked, Started
  <2> QED
    BY <2>4, <2>5, <2>6, IdleEnds
<1> QED
  BY <1>1, <1>2
-----------------------------------------------------------------------------
(* The transfer and its end.                                                *)

\* What has been read of the control connection stays as it is while data
\* moves, and so do the types and the offsets.
LEMMA LoopAgrees ==
  ASSUME DataInv, UNCHANGED <<repQ, srv, abandoned>>, cip'.ctrlSrl = cip.ctrlSrl,
         cip'.ctrlSocket = cip.ctrlSocket, cip'.curTransferType = cip.curTransferType,
         cip'.startPoint = cip.startPoint, op'.type = op.type,
         pc \in {"accept", "xfer", "eofwait"}, pc' \in {"xfer", "eofwait", "final"}, Sound'
  PROVE  /\ Sound /\ TypesAgree' /\ OffsAgree' /\ DataAgree
         /\ Flow /\ (Unreads(0) \/ (Unread[1].code = 2 => Complete))
         /\ Unread' = Unread /\ (Unreads(0) => Unreads(0)')
<1>1. Sound /\ TypesAgree /\ OffsAgree /\ DataAgree
  BY DEF Sound, DataInv, EndInv
<1>2. Live
  BY DEF Live
<1>3. TypesAgree'
  BY <1>1, TypesKept DEF Starting
<1>4. OffsAgree'
  BY <1>1, <1>2, OffsKept
<1>5. Unread' = Unread /\ (Unreads(0) => Unreads(0)')
  BY UnreadKept
<1> QED
  BY <1>1, <1>2, <1>3, <1>4, <1>5 DEF DataAgree

\* What a step of the transfer loops leaves of the call and of the session.
LEMMA EndDataFields ==
  ASSUME TypeOK, NEW result \in {"ok", "err"},
         NEW c \in {cip, [cip EXCEPT !.dataTimedOut = TRUE], [cip EXCEPT !.cancelXfer = TRUE]},
         EndDataCmd(c, result)
  PROVE  /\ pc' = "final" /\ CloseLink /\ UNCHANGED <<cmdQ, repQ, srv, abandoned>>
         /\ cip'.dataSocket = "closed" /\ cip'.startPoint = cip.startPoint
         /\ cip'.curTransferType = cip.curTransferType /\ cip'.ctrlSocket = cip.ctrlSocket
         /\ cip'.ctrlSrl = cip.ctrlSrl /\ op'.result = result /\ op'.kind = op.kind
         /\ op'.cmd = op.cmd /\ op'.type = op.type /\ op'.blocks = op.blocks
<1>1. op \in OpType /\ c \in CipType
  BY DEF TypeOK, CipType
<1>2. /\ c.startPoint = cip.startPoint /\ c.curTransferType = cip.curTransferType
      /\ c.ctrlSocket = cip.ctrlSocket /\ c.ctrlSrl = cip.ctrlSrl
  BY DEF TypeOK, CipType
<1> QED
  BY <1>1, <1>2 DEF EndDataCmd, Closed, CipType, OpType

\* The library closes the data connection: a success has read all the server
\* has sent, or has written all it has to.
LEMMA EndDataEnds ==
  ASSUME DataInv, IInv', PairInv', pc \in {"xfer", "eofwait"}, NEW result \in {"ok", "err"},
         NEW c \in {cip, [cip EXCEPT !.dataTimedOut = TRUE], [cip EXCEPT !.cancelXfer = TRUE]},
         EndDataCmd(c, result),
         Sound /\ result = "ok" =>
           \/ op.kind = "RETR" /\ pc = "xfer" /\ link = "fin" /\ wire = 0
           \/ pc = "eofwait" /\ op.result = "ok"
  PROVE  EndInv'
<1> USE DEF DataInv
<1>0. TypeOK /\ LinkOK /\ KindCmd
  BY DEF IInv, EndInv
<1>1. /\ pc' = "final" /\ CloseLink /\ UNCHANGED <<cmdQ, repQ, srv, abandoned>>
      /\ cip'.dataSocket = "closed" /\ cip'.startPoint = cip.startPoint
      /\ cip'.curTransferType = cip.curTransferType /\ cip'.ctrlSocket = cip.ctrlSocket
      /\ cip'.ctrlSrl = cip.ctrlSrl /\ op'.result = result /\ op'.kind = op.kind
      /\ op'.cmd = op.cmd /\ op'.type = op.type /\ op'.blocks = op.blocks
  BY <1>0, EndDataFields
<1>2. KindCmd' /\ LinkOK'
  BY <1>0, <1>1, LinkClosed DEF KindCmd, Simple
<1>3. /\ link' \in {"none", "cut"}
      /\ link' = "cut" => link \in {"up", "half", "cut"} /\ wire' = wire
  BY <1>0, <1>1, ClosesLink
<1>4. ASSUME Sound' PROVE TypesAgree' /\ OffsAgree' /\ DataAgree'
  <2>1. /\ Sound /\ TypesAgree' /\ OffsAgree' /\ DataAgree
        /\ Flow /\ (Unreads(0) \/ (Unread[1].code = 2 => Complete))
        /\ Unread' = Unread /\ (Unreads(0) => Unreads(0)')
    BY <1>1, <1>4, LoopAgrees
  <2>2. CASE result = "err"
    BY <1>1, <1>3, <2>1, <2>2 DEF DataAgree, Live, Starting, Aborting
  <2>3. CASE result = "ok" /\ op.kind = "RETR" /\ pc = "xfer" /\ link = "fin" /\ wire = 0
    <3>1. op.cmd = "RETR" /\ link' = "none" /\ op.blocks \in Nat
      BY <1>0, <1>3, <2>3 DEF KindCmd, TypeOK, OpType
    <3>2. op.blocks = srv.blocks /\ SrvReady
      BY <2>1, <2>3, <3>1 DEF Flow
    <3>3. Flow' /\ (Complete => Complete') /\ SrvReady'
      BY <1>1, <3>1, <3>2 DEF Flow, Complete, SrvReady
    <3>4. op'.kind = "RETR" /\ op'.blocks = srv'.blocks
      BY <1>1, <2>3, <3>2
    <3> QED
      BY <1>1, <1>3, <2>1, <3>1, <3>3, <3>4 DEF DataAgree, Live, Starting, Aborting
  <2>4. CASE result = "ok" /\ pc = "eofwait" /\ op.result = "ok"
    <3>1. op.kind = "STOR" /\ op.cmd # "RETR"
      BY <1>0, <2>4 DEF KindCmd
    <3>2. cip.startPoint + op.blocks = FileBlocks
      BY <2>1, <2>4, <3>1 DEF DataAgree
    <3>3. Flow' /\ (Complete => Complete')
      BY <1>1, <1>3, <2>1, <3>1 DEF Flow, Complete
    <3>4. op'.kind = "STOR" /\ cip'.startPoint + op'.blocks = FileBlocks
      BY <1>1, <3>1, <3>2
    <3> QED
      BY <1>1, <1>3, <2>1, <3>1, <3>3, <3>4 DEF DataAgree, Live, Starting, Aborting
  <2> QED
    BY <2>1, <2>2, <2>3, <2>4
<1> QED
  BY <1>2, <1>4 DEF EndInv

\* accept() takes the server's connection as it is.
LEMMA AcceptedEnds ==
  ASSUME DataInv, IInv', PairInv', Accepted
  PROVE  EndInv'
<1> USE DEF DataInv
<1>0. TypeOK /\ LinkOK /\ KindCmd /\ cip \in CipType
  BY DEF IInv, EndInv, TypeOK
<1>1. /\ pc = "accept" /\ pc' = "xfer" /\ UNCHANGED <<op, cmdQ, repQ, link, wire, srv, abandoned>>
      /\ cip'.dataSocket = "open" /\ cip'.startPoint = cip.startPoint
      /\ cip'.curTransferType = cip.curTransferType /\ cip'.ctrlSocket = cip.ctrlSocket
      /\ cip'.ctrlSrl = cip.ctrlSrl
  BY <1>0 DEF Accepted, Begun, CipType, net
<1>2. KindCmd' /\ LinkOK'
  BY <1>0, <1>1, LinkKept DEF KindCmd, Simple
<1>3. ASSUME Sound' PROVE TypesAgree' /\ OffsAgree' /\ DataAgree'
  <2>1. /\ Sound /\ TypesAgree' /\ OffsAgree' /\ DataAgree
        /\ Flow /\ (Unreads(0) \/ (Unread[1].code = 2 => Complete))
        /\ Unread' = Unread /\ (Unreads(0) => Unreads(0)')
    BY <1>1, <1>3, LoopAgrees
  <2>2. Flow' /\ (Complete => Complete')
    BY <1>1, <2>1 DEF Flow, Complete, SrvReady
  <2> QED
    BY <1>1, <2>1, <2>2 DEF DataAgree, Live, Starting, Aborting
<1> QED
  BY <1>2, <1>3 DEF EndInv

\* A block read or written was in flight, or is now.
LEMMA BlockEnds ==
  ASSUME DataInv, IInv', PairInv', GetBlock \/ PutBlock
  PROVE  EndInv'
<1> USE DEF DataInv
<1>0. TypeOK /\ LinkOK /\ KindCmd /\ op \in OpType /\ op.blocks \in Nat /\ wire \in Nat /\ srv.blocks \in Nat
  BY DEF IInv, EndInv, TypeOK, OpType, SrvType
<1>1. /\ pc = "xfer" /\ UNCHANGED <<pc, cip, cmdQ, repQ, link, srv, abandoned>>
      /\ op'.kind = op.kind /\ op'.cmd = op.cmd /\ op'.type = op.type
      /\ op'.blocks = op.blocks + 1
      /\ \/ cip.dataSocket = "bogus"
         \/ op.kind = "RETR" /\ wire > 0 /\ wire' = wire - 1
         \/ op.kind = "STOR" /\ link = "up" /\ wire' = wire + 1
  BY <1>0 DEF GetBlock, PutBlock, CanRead, OpType
<1>2. KindCmd' /\ LinkOK'
  BY <1>0, <1>1, LinkKept DEF KindCmd, Simple
<1>3. ASSUME Sound' PROVE TypesAgree' /\ OffsAgree' /\ DataAgree'
  <2>1. /\ Sound /\ TypesAgree' /\ OffsAgree' /\ DataAgree
        /\ Flow /\ (Unreads(0) \/ (Unread[1].code = 2 => Complete))
        /\ Unread' = Unread /\ (Unreads(0) => Unreads(0)')
    BY <1>1, <1>3, LoopAgrees
  <2>2. cip.dataSocket # "bogus"
    BY <2>1 DEF DataAgree
  <2>3. Flow'
    BY <1>0, <1>1, <2>1, <2>2 DEF Flow, KindCmd, SrvReady
  <2>4. Complete => Complete'
    BY <1>1 DEF Complete
  <2> QED
    BY <1>1, <2>1, <2>3, <2>4 DEF DataAgree, Live, Starting, Aborting
<1> QED
  BY <1>2, <1>3 DEF EndInv

\* shutdown() follows the last block of a store that has written all its file.
LEMMA PutEndsEnds ==
  ASSUME DataInv, IInv', PairInv', PutEnds
  PROVE  EndInv'
<1> USE DEF DataInv
<1>0. /\ TypeOK /\ LinkOK /\ KindCmd /\ op \in OpType /\ op.blocks \in Nat
      /\ cip.startPoint \in Nat /\ FileBlocks \in Nat
  BY SizesAssumption DEF IInv, EndInv, TypeOK, OpType, CipType
<1>1. /\ pc = "xfer" /\ pc' = "eofwait" /\ UNCHANGED <<cip, cmdQ, repQ, wire, srv, abandoned>>
      /\ op.kind = "STOR" /\ op'.kind = op.kind /\ op'.cmd = op.cmd /\ op'.type = op.type
      /\ op'.blocks = op.blocks
      /\ op'.result = "err" \/ op.blocks = FileBlocks - cip.startPoint
      /\ link' = IF cip.dataSocket = "open" /\ link = "up" THEN "half" ELSE link
  BY <1>0 DEF PutEnds, OpType
<1>2. KindCmd' /\ LinkOK'
  BY <1>0, <1>1 DEF KindCmd, LinkOK, Simple
<1>3. ASSUME Sound' PROVE TypesAgree' /\ OffsAgree' /\ DataAgree'
  <2>1. /\ Sound /\ TypesAgree' /\ OffsAgree' /\ DataAgree
        /\ Flow /\ (Unreads(0) \/ (Unread[1].code = 2 => Complete))
        /\ Unread' = Unread /\ (Unreads(0) => Unreads(0)')
    BY <1>1, <1>3, LoopAgrees
  <2>2. Flow'
    BY <1>0, <1>1, <2>1 DEF Flow, KindCmd
  <2>3. Complete => Complete'
    BY <1>0, <1>1 DEF Complete, KindCmd
  <2>4. op'.result = "ok" => cip'.startPoint + op'.blocks = FileBlocks
    <3>1. op.blocks = FileBlocks - cip.startPoint => cip.startPoint + op.blocks = FileBlocks
      BY <1>0
    <3> QED
      BY <1>1, <3>1
  <2>5. link' # "cut"
    BY <1>1, <2>1 DEF DataAgree, Aborting
  <2> QED
    BY <1>1, <2>1, <2>2, <2>3, <2>4, <2>5 DEF DataAgree, Live, Starting, Aborting
<1> QED
  BY <1>2, <1>3 DEF EndInv

\* Every way out of the transfer loops closes the data connection.
LEMMA LoopEnds ==
  ASSUME DataInv, IInv', PairInv', GetEnds \/ PutBreaks \/ PutDone
  PROVE  EndInv'
<1> USE DEF DataInv
<1>0. op.result \in {"ok", "err"}
  BY DEF IInv, TypeOK, OpType
<1> DEFINE C == {cip, [cip EXCEPT !.dataTimedOut = TRUE], [cip EXCEPT !.cancelXfer = TRUE]}
<1>1. CASE \E c \in C : EndDataCmd(c, "err") /\ pc = "xfer"
  BY <1>1, EndDataEnds
<1>2. CASE op.kind = "RETR" /\ pc = "xfer" /\ AtEof /\ EndDataCmd(cip, "ok")
  <2>1. Sound => link = "fin" /\ wire = 0
    BY <1>2 DEF AtEof, EndInv, DataAgree
  <2> QED
    BY <1>2, <2>1, EndDataEnds
<1>3. CASE PutDone
  <2>1. \E c \in C : EndDataCmd(c, op.result) /\ pc = "eofwait"
    BY <1>3 DEF PutDone
  <2> QED
    BY <1>0, <2>1, EndDataEnds
<1> QED
  BY <1>1, <1>2, <1>3 DEF GetEnds, PutBreaks

\* The two failures after which the final reply is not read end what the
\* invariant says of the session, and leave the connection as it says.
LEMMA AbandonEnds ==
  ASSUME DataInv, IInv', PairInv', AcceptFails \/ UndoSeekFails
  PROVE  EndInv'
<1> USE DEF DataInv
<1>0. TypeOK /\ LinkOK /\ KindCmd /\ cip \in CipType /\ op \in OpType
  BY DEF IInv, EndInv, TypeOK
<1>1. /\ pc \in {"accept", "xfer"} /\ abandoned' # {} /\ Return("err") /\ UNCHANGED srv
      /\ \/ CloseLink
         \/ UNCHANGED <<cip, link, wire>>
  BY DEF AcceptFails, UndoSeekFails, StartFails, net
<1>2. pc' = "idle" /\ op'.kind = op.kind /\ op'.cmd = op.cmd /\ op'.result = "err"
  BY <1>0, <1>1, ReturnKeeps
<1>3. KindCmd' /\ LinkOK'
  BY <1>0, <1>1, <1>2, LinkKept, LinkClosed DEF KindCmd, Simple
<1> QED
  BY <1>1, <1>3 DEF EndInv, Sound

\* The final reply of success makes a transfer that has gone well whole.
LEMMA FinalReplyEnds ==
  ASSUME DataInv, IInv', PairInv', FinalReply
  PROVE  EndInv'
<1> USE DEF DataInv
<1>0. TypeOK /\ LinkOK /\ KindCmd /\ cip \in CipType /\ op \in OpType
  BY DEF IInv, EndInv, TypeOK
<1>1. PICK ok \in BOOLEAN : /\ GetResponse("final", IF ok THEN {2} ELSE {1, 3, 4, 5}, cip)
                            /\ Return(IF ok THEN op.result ELSE "err")
                            /\ UNCHANGED <<cmdQ, link, wire, srv, abandoned>>
  BY DEF FinalReply
<1>2. /\ pc = "final" /\ cip.ctrlSocket = "open" /\ cip'.ctrlSocket = "open"
      /\ cip'.dataSocket = cip.dataSocket /\ cip'.startPoint = cip.startPoint
      /\ cip'.curTransferType = cip.curTransferType
      /\ ~Unreads(0) /\ Unread[1].code \in IF ok THEN {2} ELSE {1, 3, 4, 5}
  BY <1>0, <1>1, ReadsFields
<1>3. /\ pc' = "idle" /\ op'.kind = op.kind /\ op'.cmd = op.cmd /\ op'.blocks = op.blocks
      /\ op'.result = IF ok THEN op.result ELSE "err"
  <2>1. (IF ok THEN op.result ELSE "err") \in {"ok", "err"}
    BY <1>0 DEF OpType
  <2> QED
    BY <1>0, <1>1, <2>1, ReturnKeeps
<1>4. KindCmd' /\ LinkOK'
  BY <1>0, <1>1, <1>2, <1>3, LinkKept DEF KindCmd, Simple
<1>5. ASSUME Sound' PROVE /\ srv'.type = cip'.curTransferType /\ NoOff'
                          /\ op'.result = "ok" => Whole'
  <2>1. TypesAgree /\ OffsAgree /\ DataAgree
    BY <1>1, <1>2, <1>5 DEF Sound, EndInv
  <2>2. srv'.type = cip'.curTransferType /\ NoOff'
    BY <1>1, <1>2, <2>1 DEF TypesAgree, OffsAgree, NoOff, Lost
  <2>3. ASSUME op'.result = "ok" PROVE Whole'
    <3>1. ok /\ op.result = "ok" /\ Live
      BY <1>2, <1>3, <2>3 DEF Live
    <3>2. Complete /\ srv.job.off = cip.startPoint
      BY <1>2, <2>1, <3>1 DEF DataAgree, OffsAgree
    <3>3. op.kind = "RETR" => op.cmd = "RETR" /\ op.blocks = srv.blocks
      BY <1>0, <1>2, <2>1, <3>1 DEF KindCmd, DataAgree
    <3>4. op.kind = "STOR" => op.cmd # "RETR" /\ cip.startPoint + op.blocks = FileBlocks
      BY <1>0, <1>2, <2>1, <3>1 DEF KindCmd, DataAgree
    <3>5. Whole
      BY <3>2, <3>3, <3>4 DEF Complete, Whole
    <3> QED
      BY <1>1, <1>2, <1>3, <3>5 DEF Whole
  <2> QED
    BY <2>2, <2>3
<1> QED
  BY <1>3, <1>4, <1>5, IdleEnds
-----------------------------------------------------------------------------
(* The abort, the end of a session and the next one.                        *)

\* A call that is being aborted has no success to answer for.
LEMMA AbortData ==
  ASSUME cip'.dataSocket \notin {"bogus", "listen"},
         pc' \in Aborting \/ (pc' = "final" /\ op'.result = "err")
  PROVE  DataAgree'
BY DEF DataAgree, Live, Starting, Aborting

\* What the steps of an abort leave of the types and the offsets.
LEMMA AbortAgrees ==
  ASSUME DataInv, UNCHANGED <<op, srv, abandoned>>, cip'.ctrlSocket = cip.ctrlSocket,
         cip'.curTransferType = cip.curTransferType, pc \in Aborting,
         pc' \in Aborting \/ (pc' = "final" /\ op'.result = "err"), Sound'
  PROVE  Sound /\ TypesAgree' /\ OffsAgree' /\ DataAgree
<1>1. Sound /\ TypesAgree /\ OffsAgree /\ DataAgree
  BY DEF Sound, DataInv, EndInv
<1>2. TypesAgree'
  BY <1>1, TypesKept DEF Starting, Aborting
<1>3. OffsAgree'
  BY <1>1, OffsKept DEF Live, Aborting
<1> QED
  BY <1>1, <1>2, <1>3

\* ABOR is sent over whatever the data connection is at.
LEMMA AbortEnds ==
  ASSUME DataInv, IInv', PairInv', Abort
  PROVE  EndInv'
<1> USE DEF DataInv
<1>0. TypeOK /\ LinkOK /\ KindCmd /\ cip \in CipType /\ op \in OpType
  BY DEF IInv, EndInv, TypeOK
<1>1. /\ pc = "xfer" /\ pc' = "abort1" /\ UNCHANGED <<repQ, link, wire, srv, abandoned>>
      /\ cip'.dataSocket = cip.dataSocket /\ cip'.startPoint = cip.startPoint
      /\ cip'.curTransferType = cip.curTransferType /\ cip'.ctrlSocket = cip.ctrlSocket
      /\ op'.kind = op.kind /\ op'.cmd = op.cmd
  BY <1>0 DEF Abort, CipType, OpType
<1>2. KindCmd' /\ LinkOK'
  BY <1>0, <1>1, LinkKept DEF KindCmd, Simple
<1>3. ASSUME Sound' PROVE TypesAgree' /\ OffsAgree' /\ DataAgree'
  <2>1. TypesAgree /\ OffsAgree /\ DataAgree
    BY <1>1, <1>3 DEF Sound, EndInv
  <2>2. TypesAgree' /\ OffsAgree'
    BY <1>1, <2>1, TypesKept, OffsKept DEF Starting, Live
  <2>3. DataAgree'
    BY <1>1, <2>1, AbortData DEF DataAgree, Aborting
  <2> QED
    BY <2>2, <2>3
<1> QED
  BY <1>2, <1>3 DEF EndInv

\* FTPCloseHost has nothing to abort while the session is sound.
LEMMA FTPCloseHostEnds ==
  ASSUME DataInv, IInv', PairInv', FTPCloseHost
  PROVE  EndInv'
<1> USE DEF DataInv
<1>0. TypeOK /\ LinkOK /\ KindCmd /\ cip \in CipType
  BY DEF IInv, EndInv, TypeOK
<1>1. /\ pc = "idle" /\ pc' \in {"quit", "abort1"} /\ UNCHANGED <<repQ, link, wire, srv, abandoned>>
      /\ cip.dataSocket = "closed" => pc' = "quit"
      /\ cip'.dataSocket = cip.dataSocket /\ cip'.startPoint = cip.startPoint
      /\ cip'.curTransferType = cip.curTransferType /\ cip'.ctrlSocket = cip.ctrlSocket
      /\ op'.kind = "QUIT"
  BY <1>0 DEF FTPCloseHost, NewOp, CipType
<1>2. KindCmd' /\ LinkOK'
  BY <1>0, <1>1, LinkKept DEF KindCmd, Simple
<1>3. ASSUME Sound' PROVE TypesAgree' /\ OffsAgree' /\ DataAgree'
  <2>1. TypesAgree /\ OffsAgree /\ DataAgree
    BY <1>1, <1>3 DEF Sound, EndInv
  <2>2. TypesAgree' /\ OffsAgree'
    BY <1>1, <2>1, TypesKept, OffsKept DEF Starting, Live
  <2>3. cip.dataSocket = "closed"
    BY <1>1, <1>3 DEF IInv, SocketOK, Sound
  <2>4. DataAgree'
    BY <1>1, <1>2, <1>3, <2>3, CalmData
  <2> QED
    BY <2>2, <2>4
<1> QED
  BY <1>2, <1>3 DEF EndInv

\* Waiting for the answer to ABOR, and closing the data connection meanwhile.
LEMMA AbortWaitEnds ==
  ASSUME DataInv, IInv', PairInv', AbortWait
  PROVE  EndInv'
<1> USE DEF DataInv
<1>0. TypeOK /\ LinkOK /\ KindCmd /\ cip \in CipType /\ op \in OpType
  BY DEF IInv, EndInv, TypeOK
<1>1. /\ pc \in Aborting /\ UNCHANGED <<op, srv>> /\ pc' \in Aborting \cup {"final", "quit"}
      /\ pc' \in {"final", "quit"} => AbortGivesUp \/ AbortUnsent
      /\ UNCHANGED abandoned \/ abandoned' # {}
      /\ \/ CloseLink /\ cip'.dataSocket = "closed"
         \/ UNCHANGED <<link, wire>> /\ cip'.dataSocket = cip.dataSocket
      /\ cip'.startPoint = cip.startPoint /\ cip'.ctrlSocket = cip.ctrlSocket
      /\ cip'.curTransferType = cip.curTransferType
  <2>1. CASE AbortSeen
    BY <1>0, <2>1 DEF AbortSeen, Aborting, net
  <2>2. CASE AbortCloses
    BY <1>0, <2>2 DEF AbortCloses, Closed, CipType, Aborting
  <2>3. CASE AbortGivesUp
    BY <1>0, <2>3 DEF AbortGivesUp, AbortReturns, CipType, Aborting
  <2>4. CASE AbortUnsent
    BY <1>0, <2>4 DEF AbortUnsent, AbortReturns, Closed, CipType, Aborting
  <2> QED
    BY <2>1, <2>2, <2>3, <2>4 DEF AbortWait
<1>2. KindCmd' /\ LinkOK'
  BY <1>0, <1>1, LinkKept, LinkClosed DEF KindCmd, Simple, Aborting
<1>3. ASSUME Sound' PROVE TypesAgree' /\ OffsAgree' /\ DataAgree'
  <2>1. (UNCHANGED abandoned /\ DataAgree /\ AbortAsked) \/ pc = "abortReply2"
    BY <1>1, <1>3 DEF Sound, EndInv, PairInv, Paired, Aborting
  <2>2. pc' \in Aborting \/ (pc' = "final" /\ op'.result = "err")
    <3>1. CASE pc' \in {"final", "quit"}
      <4>1. AbortUnsent
        BY <1>1, <1>3, <3>1 DEF Sound, AbortGivesUp
      <4>2. AbortAsked /\ op.kind # "QUIT"
        BY <2>1, <4>1 DEF AbortUnsent, AbortAsked
      <4>3. op.result = "err"
        BY <1>1, <4>2 DEF IInv, KindOK, FlagOK
      <4> QED
        BY <1>1, <4>1, <4>2, <4>3 DEF AbortUnsent, AbortReturns
    <3> QED
      BY <1>1, <3>1
  <2>3. Sound /\ TypesAgree' /\ OffsAgree' /\ DataAgree
    BY <1>1, <1>3, <2>2, AbortAgrees DEF Sound
  <2>4. cip'.dataSocket \notin {"bogus", "listen"}
    BY <1>1, <2>3 DEF DataAgree, Aborting
  <2> QED
    BY <2>2, <2>3, <2>4, AbortData
<1> QED
  BY <1>2, <1>3 DEF EndInv

\* The replies to an aborted transfer and to its ABOR.
LEMMA AbortReplyEnds ==
  ASSUME DataInv, IInv', PairInv', AbortReply
  PROVE  EndInv'
<1> USE DEF DataInv
<1>0. TypeOK /\ LinkOK /\ KindCmd /\ cip \in CipType /\ op \in OpType
  BY DEF IInv, EndInv, TypeOK
<1>1. CASE TransferAborted
  <2>1. /\ GetResponse("abortReply", {4}, cip) /\ pc' = "abortReply2"
        /\ UNCHANGED <<op, cmdQ, link, wire, srv, abandoned>>
    BY <1>1 DEF TransferAborted
  <2>2. /\ pc = "abortReply" /\ cip.ctrlSocket = "open" /\ cip'.ctrlSocket = "open"
        /\ cip'.dataSocket = cip.dataSocket /\ cip'.startPoint = cip.startPoint
        /\ cip'.curTransferType = cip.curTransferType
    BY <1>0, <2>1, ReadsFields
  <2>3. KindCmd' /\ LinkOK'
    BY <1>0, <2>1, <2>2, LinkKept DEF KindCmd, Simple
  <2>4. ASSUME Sound' PROVE TypesAgree' /\ OffsAgree' /\ DataAgree'
    <3>1. Sound /\ TypesAgree' /\ OffsAgree' /\ DataAgree
      BY <2>1, <2>2, <2>4, AbortAgrees DEF Aborting
    <3>2. DataAgree'
      BY <2>1, <2>2, <3>1, AbortData DEF DataAgree, Aborting
    <3> QED
      BY <3>1, <3>2
  <2> QED
    BY <2>3, <2>4 DEF EndInv
<1>2. ASSUME NEW p \in {"abortReply", "abortReply2"}, NEW Codes, Aborted(p, Codes)
      PROVE  EndInv'
  <2> DEFINE c == [Closed(cip) EXCEPT !.canceled = TRUE, !.canceling = FALSE]
  <2>1. /\ GetResponse(p, Codes, c) /\ CloseLink /\ UNCHANGED <<op, srv>>
        /\ pc' \in {"quit", "idle"} /\ (pc' = "idle" => op.kind # "QUIT")
        /\ abandoned' = {} => abandoned = {}
    BY <1>2 DEF Aborted, AbortReturns
  <2>2. /\ c \in CipType /\ c.ctrlSocket = cip.ctrlSocket
        /\ c.curTransferType = cip.curTransferType
    BY <1>0 DEF CipType, Closed
  <2> HIDE DEF c
  <2>3. /\ pc = p /\ cip.ctrlSocket = "open" /\ cip'.ctrlSocket = "open"
        /\ cip'.curTransferType = cip.curTransferType
    BY <1>0, <2>1, <2>2, ReadsFields
  <2>4. KindCmd' /\ LinkOK'
    BY <1>0, <2>1, <2>3, LinkClosed DEF KindCmd, Simple
  <2>5. ASSUME Sound' PROVE TypesAgree /\ OffsAgree
    BY <2>1, <2>3, <2>5 DEF Sound, EndInv
  <2>6. CASE pc' = "idle"
    <3>1. op'.result = "err"
      BY <2>1, <2>3, <2>6 DEF IInv, KindOK, FlagOK, Aborting
    <3>2. Sound' => srv'.type = cip'.curTransferType /\ NoOff'
      BY <2>1, <2>3, <2>5 DEF TypesAgree, OffsAgree, NoOff, Lost
    <3> QED
      BY <2>4, <2>6, <3>1, <3>2, IdleEnds
  <2>7. CASE pc' = "quit"
    <3>1. ASSUME Sound' PROVE TypesAgree' /\ OffsAgree' /\ DataAgree'
      <4>1. TypesAgree' /\ OffsAgree'
        BY <2>1, <2>3, <2>5, <2>7, <3>1, TypesKept, OffsKept DEF Starting, Live
      <4>2. DataAgree'
        BY <2>4, <2>7, <3>1, CalmData
      <4> QED
        BY <4>1, <4>2
    <3> QED
      BY <2>4, <3>1 DEF EndInv
  <2> QED
    BY <2>1, <2>6, <2>7
<1> QED
  BY <1>1, <1>2 DEF AbortReply

\* FTPShutdownHost leaves no connection to say anything of.
LEMMA EndOfSessionEnds ==
  ASSUME DataInv, IInv', PairInv',
         GiveUpAtOnce \/ ReplyTimesOut \/ ReplyIsEof \/ ReplyIs421 \/ QuitReply
  PROVE  EndInv'
<1> USE DEF DataInv
<1>0. KindCmd /\ cip \in CipType /\ op \in OpType /\ srv \in SrvType
  BY DEF IInv, EndInv, TypeOK
<1>1. PICK errNo \in {"none", "kErrControlTimedOut", "kErrRemoteHostClosedConnection"} :
        ShutdownHost(errNo)
  BY DEF GiveUpAtOnce, ReplyTimesOut, ReplyIsEof, ReplyIs421, QuitReply
<1>2. /\ link' = "none" /\ pc' \in {"final", "idle"} /\ op'.result = "err"
      /\ op'.kind = op.kind /\ op'.cmd = op.cmd /\ srv'.state = "gone"
  BY <1>0, <1>1 DEF ShutdownHost, OpType, SrvType
<1>3. cip'.ctrlSocket = "closed"
  <2>1. PASVRefused(cip) \in CipType
    BY <1>0, RefusedFields
  <2> QED
    BY <1>1, <2>1 DEF ShutdownHost, CipType
<1> QED
  BY <1>0, <1>2, <1>3 DEF EndInv, KindCmd, LinkOK, Sound, Simple

\* The call that has lost its session fails.
LEMMA ReadClosedEnds ==
  ASSUME DataInv, IInv', PairInv', ReadClosed
  PROVE  EndInv'
<1> USE DEF DataInv
<1>0. LinkOK /\ KindCmd /\ op \in OpType
  BY DEF IInv, EndInv, TypeOK
<1>1. /\ pc = "final" /\ cip.ctrlSocket = "closed" /\ Return("err")
      /\ UNCHANGED <<cip, link, wire, srv, abandoned>>
  BY DEF ReadClosed, net
<1>2. pc' = "idle" /\ op'.kind = op.kind /\ op'.cmd = op.cmd /\ op'.result = "err"
  BY <1>0, <1>1, ReturnKeeps
<1>3. KindCmd' /\ LinkOK'
  BY <1>0, <1>1, <1>2, LinkKept DEF KindCmd, Simple
<1> QED
  BY <1>1, <1>3 DEF EndInv, Sound

\* A command that cannot be written has changed nothing at the server.
LEMMA WriteFailsEnds ==
  ASSUME DataInv, IInv', PairInv', WriteFails
  PROVE  EndInv'
<1> USE DEF DataInv
<1>0. TypeOK /\ LinkOK /\ KindCmd /\ cip \in CipType /\ op \in OpType
  BY DEF IInv, EndInv, TypeOK
<1>1. /\ pc \in (Starting \ {"rest0", "appe"}) \cup Simple /\ Lost /\ cmdQ # <<>>
      /\ cip.ctrlSocket = "open" /\ Return("err") /\ UNCHANGED <<repQ, srv, abandoned>>
      /\ \/ UNCHANGED <<cip, link, wire>>
         \/ cip' = PASVRefused(Closed(cip)) /\ CloseLink
  BY DEF WriteFails, Lost
<1>2. pc' = "idle" /\ op'.kind = op.kind /\ op'.cmd = op.cmd /\ op'.result = "err"
  BY <1>0, <1>1, ReturnKeeps
<1>3. cip'.curTransferType = cip.curTransferType /\ cip'.ctrlSocket = "open"
  <2>1. \A c \in CipType : /\ PASVRefused(c).curTransferType = c.curTransferType
                           /\ PASVRefused(c).ctrlSocket = c.ctrlSocket
    BY DEF PASVRefused, CipType
  <2>2. /\ Closed(cip) \in CipType /\ Closed(cip).curTransferType = cip.curTransferType
        /\ Closed(cip).ctrlSocket = cip.ctrlSocket
    BY <1>0 DEF Closed, CipType
  <2> QED
    BY <1>1, <2>1, <2>2
<1>4. KindCmd' /\ LinkOK'
  BY <1>0, <1>1, <1>2, <1>3, LinkKept, LinkClosed DEF KindCmd, Simple, Starting
<1>5. ASSUME Sound' PROVE srv'.type = cip'.curTransferType /\ NoOff'
  <2>1. TypesAgree
    BY <1>1, <1>5 DEF Sound, EndInv
  <2>2. srv.type = cip.curTransferType
    BY <1>1, <2>1 DEF TypesAgree, Answered
  <2> QED
    BY <1>1, <1>3, <2>2 DEF NoOff, Lost
<1> QED
  BY <1>2, <1>4, <1>5, IdleEnds

\* FTPOpenHost begins with nothing left of the session before.
LEMMA FTPOpenHostEnds ==
  ASSUME DataInv, IInv', PairInv', FTPOpenHost
  PROVE  EndInv'
<1> USE DEF DataInv
<1>0. TypeOK /\ LinkOK /\ KindCmd
  BY DEF IInv, EndInv, TypeOK
<1>1. /\ pc = "idle" /\ pc' = "idle" /\ cip.ctrlSocket = "closed" /\ UNCHANGED <<op, link, wire>>
      /\ cip'.curTransferType = "A" /\ srv'.type = "A" /\ srv'.off = 0 /\ srv'.state = "ready"
      /\ cip'.ctrlSocket = "open"
  BY DEF FTPOpenHost, FreshCip, FreshSrv, net
<1>2. link = "none" /\ op.result = "err"
  BY <1>0, <1>1 DEF LinkOK, TypeOK, IInv, SocketOK, PairInv, ClosedOK, Lost
<1>3. KindCmd' /\ LinkOK'
  BY <1>0, <1>1, <1>2 DEF KindCmd, LinkOK, Simple
<1> QED
  BY <1>1, <1>2, <1>3, IdleEnds DEF NoOff
-----------------------------------------------------------------------------
(* The server and the network.                                              *)

\* Where the library can be while a transfer runs at the server.
LEMMA RunningAt ==
  ASSUME IInv, PairInv, Sound, ~SrvReady
  PROVE  /\ OwnJob
         /\ \/ pc \in {"start", "appe"} /\ Started /\ Unreads(1)
            \/ pc \in {"accept", "xfer", "eofwait", "final"} /\ NoCommand /\ Unreads(0)
            \/ pc \in {"abort1", "abort2", "abortReply"}
<1>1. Paired
  BY DEF PairInv, Sound
<1>2. ~Quiet /\ \A v : ~Exchange(v)
  BY DEF Quiet, Exchange, Asked, Answered
<1>3. StartAsked => Started /\ Unreads(1)
  BY DEF StartAsked, Started, Asked, Answered
<1>4. Transferring => NoCommand /\ Unreads(0) /\ OwnJob
  BY DEF Transferring
<1>5. (AbortAsked => OwnJob) /\ (Started => OwnJob)
  BY DEF AbortAsked, Started
<1>6. pc \in PCs
  BY DEF IInv, TypeOK
<1> QED
  BY <1>1, <1>2, <1>3, <1>4, <1>5, <1>6
    DEF Paired, PCs, Awaiting, Starting, Simple

\* What the server does with one command of verb v, and the code it answers.
Handled(v, code) ==
  /\ Unreads(0) => Unreads(1)' /\ Own(1, v)' /\ Unread'[1].code = code
  /\ srv'.rest = srv.rest
  /\ srv'.type = IF v = "TYPE" /\ code = 2 THEN cmdQ[1].type ELSE srv.type
  /\ srv'.off = IF v = "REST" /\ srv.rest THEN cmdQ[1].off
                    ELSE IF v \in Transfers THEN 0 ELSE srv.off
  /\ v = "REST" => code = IF srv.rest THEN 3 ELSE 5
  /\ v \in Transfers => code \in {1, 5}
  /\ code = 1 =>
       /\ v \in Transfers /\ srv'.state = "opening" /\ srv'.blocks = 0
       /\ srv'.job = [verb |-> v, op |-> op.no,
                      off |-> IF v = "APPE" THEN cmdQ[1].off ELSE srv.off]
  /\ code # 1 => srv'.state = "ready" /\ srv'.job = srv.job /\ srv'.blocks = srv.blocks

LEMMA SrvCommandDoes ==
  ASSUME IInv, SrvCommand, NEW v, Outstanding(v)
  PROVE  /\ srv.state = "ready" /\ UNCHANGED <<pc, cip, op, link, wire, abandoned>>
         /\ cmdQ' = <<>> /\ \E code \in {1, 2, 3, 5} : Handled(v, code)
<1> DEFINE c == Head(cmdQ)
           Yes(code, s) == repQ' = Append(repQ, Answer(c, code)) /\ srv' = s
           Begin == [srv EXCEPT !.state = "opening", !.off = 0, !.blocks = 0,
                       !.job = [verb |-> c.verb, op |-> c.op,
                                off |-> IF c.verb = "APPE" THEN c.off ELSE srv.off]]
<1>1. /\ srv.state = "ready" /\ cmdQ # <<>> /\ cmdQ' = Tail(cmdQ)
      /\ UNCHANGED <<pc, cip, op, link, wire, abandoned>>
      /\ srv \in SrvType /\ cmdQ \in Seq(Command) /\ c \in Command /\ ~Lost
  BY HeadTailProperties DEF SrvCommand, IInv, TypeOK, Lost
<1>2. c = cmdQ[1] /\ c.verb = v /\ c.op = op.no /\ cmdQ' = <<>>
  <2>1. Len(Tail(cmdQ)) = 0 /\ Tail(cmdQ) \in Seq(Command)
    BY <1>1, HeadTailProperties DEF Outstanding
  <2> QED
    BY <1>1, <2>1, EmptySeq DEF Outstanding
<1>3. /\ Answer(c, 1) \in Reply /\ Answer(c, 2) \in Reply /\ Answer(c, 3) \in Reply
      /\ Answer(c, 5) \in Reply
      /\ \A code : /\ Answer(c, code).code = code /\ Answer(c, code).verb = v
                   /\ Answer(c, code).op = op.no
  BY <1>1, <1>2 DEF Answer, Reply, Command
<1>4. /\ \A x : [srv EXCEPT !.type = x].type = x
      /\ \A x : [srv EXCEPT !.off = x].off = x
      /\ \A x : LET s == [srv EXCEPT !.type = x] IN
           /\ s.rest = srv.rest /\ s.off = srv.off /\ s.state = "ready" /\ s.job = srv.job
           /\ s.blocks = srv.blocks
      /\ \A x : LET s == [srv EXCEPT !.off = x] IN
           /\ s.rest = srv.rest /\ s.type = srv.type /\ s.state = "ready" /\ s.job = srv.job
           /\ s.blocks = srv.blocks
      /\ \A x : LET s == [srv EXCEPT !.port = x] IN
           /\ s.rest = srv.rest /\ s.type = srv.type /\ s.state = "ready" /\ s.job = srv.job
           /\ s.blocks = srv.blocks /\ s.off = srv.off
  BY <1>1 DEF SrvType
<1>5. /\ Begin.rest = srv.rest /\ Begin.type = srv.type /\ Begin.state = "opening"
      /\ Begin.off = 0 /\ Begin.blocks = 0
      /\ Begin.job = [verb |-> v, op |-> op.no,
                      off |-> IF v = "APPE" THEN cmdQ[1].off ELSE srv.off]
  BY <1>1, <1>2 DEF SrvType
<1>6. \/ v \in {"CMD", "ABOR", "QUIT"} /\ \E r \in {2, 5} : Yes(r, srv)
      \/ v = "TYPE" /\ (Yes(2, [srv EXCEPT !.type = c.type]) \/ Yes(5, srv))
      \/ v \in {"PORT", "PASV"} /\ (Yes(2, [srv EXCEPT !.port = c.op]) \/ Yes(5, srv))
      \/ v = "REST" /\ IF srv.rest THEN Yes(3, [srv EXCEPT !.off = c.off]) ELSE Yes(5, srv)
      \/ v \in Transfers /\ (Yes(5, [srv EXCEPT !.off = 0]) \/ Yes(1, Begin))
  BY <1>2 DEF SrvCommand
<1> HIDE DEF c, Begin
<1> DEFINE Does(code) ==
        /\ repQ' = Append(repQ, Answer(c, code)) /\ srv'.rest = srv.rest
        /\ srv'.type = IF v = "TYPE" /\ code = 2 THEN cmdQ[1].type ELSE srv.type
        /\ srv'.off = IF v = "REST" /\ srv.rest THEN cmdQ[1].off
                          ELSE IF v \in Transfers THEN 0 ELSE srv.off
        /\ v = "REST" => code = IF srv.rest THEN 3 ELSE 5
        /\ v \in Transfers => code \in {1, 5}
        /\ code = 1 =>
             /\ v \in Transfers /\ srv'.state = "opening" /\ srv'.blocks = 0
             /\ srv'.job = [verb |-> v, op |-> op.no,
                            off |-> IF v = "APPE" THEN cmdQ[1].off ELSE srv.off]
        /\ code # 1 => srv'.state = "ready" /\ srv'.job = srv.job /\ srv'.blocks = srv.blocks
<1>7. Does(1) \/ Does(2) \/ Does(3) \/ Does(5)
  <2>1. ASSUME v \in {"CMD", "ABOR", "QUIT"}, NEW r \in {2, 5}, Yes(r, srv) PROVE Does(r)
    BY <1>1, <2>1 DEF Transfers
  <2>2. ASSUME v = "TYPE", Yes(2, [srv EXCEPT !.type = c.type]) PROVE Does(2)
    BY <1>1, <1>2, <1>4, <2>2 DEF Transfers
  <2>3. ASSUME v \in {"TYPE", "PORT", "PASV", "REST"}, Yes(5, srv),
               v = "REST" => ~srv.rest
        PROVE  Does(5)
    BY <1>1, <2>3 DEF Transfers
  <2>4. ASSUME v \in {"PORT", "PASV"}, Yes(2, [srv EXCEPT !.port = c.op]) PROVE Does(2)
    BY <1>1, <1>4, <2>4 DEF Transfers
  <2>5. ASSUME v = "REST", srv.rest, Yes(3, [srv EXCEPT !.off = c.off]) PROVE Does(3)
    <3>1. srv.rest = TRUE
      BY <1>1, <2>5 DEF SrvType
    <3>2. /\ srv' = [srv EXCEPT !.off = cmdQ[1].off]
          /\ repQ' = Append(repQ, Answer(c, 3))
      BY <1>2, <2>5
    <3>3. /\ srv'.off = cmdQ[1].off /\ srv'.rest = srv.rest /\ srv'.type = srv.type
          /\ srv'.state = "ready" /\ srv'.job = srv.job /\ srv'.blocks = srv.blocks
      BY <1>1, <1>4, <3>2
    <3>4. 3 = (IF srv.rest THEN 3 ELSE 5)
      BY <3>1
    <3>5. cmdQ[1].off = (IF v = "REST" /\ srv.rest THEN cmdQ[1].off
                           ELSE IF v \in Transfers THEN 0 ELSE srv.off)
      BY <2>5
    <3>6. v = "REST" /\ v # "TYPE" /\ v \notin Transfers
      BY <2>5 DEF Transfers
    <3> QED
      BY <3>2, <3>3, <3>4, <3>5, <3>6
  <2>6. ASSUME v \in Transfers, Yes(5, [srv EXCEPT !.off = 0]) PROVE Does(5)
    BY <1>1, <1>4, <2>6 DEF Transfers
  <2>7. ASSUME v \in Transfers, Yes(1, Begin) PROVE Does(1)
    BY <1>5, <2>7 DEF Transfers
  <2> HIDE DEF Does, Yes
  <2>8. CASE v \in {"CMD", "ABOR", "QUIT"} /\ \E r \in {2, 5} : Yes(r, srv)
    BY <2>1, <2>8
  <2>9. CASE v = "REST" /\ IF srv.rest THEN Yes(3, [srv EXCEPT !.off = c.off]) ELSE Yes(5, srv)
    BY <2>3, <2>5, <2>9
  <2> QED
    BY <1>6, <2>2, <2>3, <2>4, <2>6, <2>7, <2>8, <2>9
<1>8. PICK code \in {1, 2, 3, 5} : Does(code)
  <2> HIDE DEF Does
  <2> QED
    BY <1>7
<1>9. Unreads(0) => Unreads(1)' /\ Unread'[1] = Answer(c, code)
  <2>1. Answer(c, code) \in Reply /\ Answer(c, code).code # 421
    BY <1>3
  <2> QED
    BY <1>1, <1>8, <2>1, Answers
<1>10. Unreads(0) => Unreads(1)' /\ Own(1, v)' /\ Unread'[1].code = code
  BY <1>1, <1>3, <1>9 DEF Own
<1>11. Handled(v, code)
  BY <1>8, <1>10 DEF Handled
<1> QED
  BY <1>1, <1>2, <1>11

\* Where the library is when the server has a command to read.
LEMMA CommandAt ==
  ASSUME IInv, PairInv, Sound, srv.state = "ready", cmdQ # <<>>
  PROVE  \/ pc = "cmd" /\ Asked("CMD")
         \/ pc \in {"check", "type"} /\ Asked("TYPE")
         \/ pc \in {"check1", "check0", "rest", "rest0"} /\ Asked("REST")
         \/ pc = "open" /\ \E v \in {"PORT", "PASV"} : Asked(v)
         \/ pc \in {"start", "appe"} /\ Asked(op.cmd)
         \/ pc \in {"abort1", "abort2", "abortReply"} /\ Outstanding("ABOR")
         \/ pc = "abortReply2" /\ Asked("ABOR")
         \/ pc = "quit" /\ Asked("QUIT")
<1>1. Paired /\ ~NoCommand /\ ~Lost
  BY DEF PairInv, Sound, NoCommand, Lost
<1>2. ~Quiet /\ ~Transferring
  BY <1>1 DEF Quiet, Transferring
<1>3. \A v : Exchange(v) => Asked(v)
  BY DEF Exchange, Answered
<1>4. StartAsked => Asked(op.cmd)
  BY DEF StartAsked, Answered
<1>5. AbortAsked => Outstanding("ABOR")
  BY <1>1 DEF AbortAsked
<1>6. pc \in PCs
  BY DEF IInv, TypeOK
<1> QED
  BY <1>1, <1>2, <1>3, <1>4, <1>5, <1>6 DEF Paired, PCs, Awaiting, Starting, Simple

\* The data connection is no concern of a command that begins no transfer.
LEMMA SrvCommandLink ==
  ASSUME IInv, LinkOK, SrvCommand
  PROVE  LinkOK' /\ ~Lost' /\ UNCHANGED <<pc, cip, op, link, wire, abandoned>>
<1>1. /\ srv.state = "ready" /\ srv \in SrvType
      /\ UNCHANGED <<pc, cip, op, link, wire, abandoned>>
  BY DEF SrvCommand, IInv, TypeOK
<1>2. srv'.state = "ready" \/ (srv'.state = "opening" /\ srv'.blocks = 0)
  BY <1>1 DEF SrvCommand, SrvType
<1>3. link # "cut"
  BY <1>1 DEF LinkOK
<1> QED
  BY <1>1, <1>2, <1>3 DEF LinkOK, Lost

\* The server handles one command.
LEMMA SrvCommandEnds ==
  ASSUME DataInv, IInv', PairInv', SrvCommand
  PROVE  EndInv'
<1> USE DEF DataInv
<1>1. LinkOK' /\ ~Lost' /\ UNCHANGED <<pc, cip, op, link, wire, abandoned>>
  BY SrvCommandLink DEF EndInv
<1>2. KindCmd'
  BY <1>1 DEF KindCmd, EndInv
<1>3. ASSUME Sound' PROVE TypesAgree' /\ OffsAgree' /\ DataAgree'
  <2>1. Sound /\ TypesAgree /\ OffsAgree /\ DataAgree /\ KindCmd /\ LinkOK
    BY <1>1, <1>3 DEF Sound, EndInv
  <2>2. srv.state = "ready" /\ cmdQ # <<>> /\ ~Lost
    BY DEF SrvCommand, Lost
  <2>3. \A v : /\ Asked(v) => Outstanding(v) /\ Unreads(0)
               /\ ~Answered(v)
    BY <2>2 DEF Asked, Answered
  <2>4. ~Refused /\ ~Started
    BY <2>2, <2>3 DEF Refused, Started
  <2>5. ASSUME NEW v, Outstanding(v), v \notin {"TYPE", "REST"} \cup Transfers,
               pc \in {"cmd", "open", "quit"} \cup Aborting
        PROVE  TypesAgree' /\ OffsAgree' /\ DataAgree'
    <3>1. srv'.type = srv.type /\ srv'.off = srv.off
      BY <2>5, SrvCommandDoes DEF Handled
    <3>2. TypesAgree'
      BY <1>1, <2>1, <2>5, <3>1, TypesKept DEF Starting, TypesAgree, Aborting
    <3>3. OffsAgree'
      BY <1>1, <2>1, <2>2, <2>5, <3>1 DEF OffsAgree, NoOff, Aborting, Live
    <3>4. DataAgree'
      BY <1>1, <2>1, <2>5 DEF DataAgree, Aborting, Live, Starting
    <3> QED
      BY <3>2, <3>3, <3>4
  <2>6. CASE pc \in {"check", "type"} /\ Asked("TYPE")
    <3>1. Outstanding("TYPE") /\ Unreads(0)
      BY <2>3, <2>6
    <3>2. cmdQ' = <<>> /\ \E code \in {1, 2, 3, 5} : Handled("TYPE", code)
      BY <3>1, SrvCommandDoes
    <3>3. PICK code \in {1, 2, 3, 5} : Handled("TYPE", code)
      BY <3>2
    <3>4. /\ Unreads(1)' /\ Own(1, "TYPE")' /\ Unread'[1].code = code
          /\ srv'.type = IF code = 2 THEN cmdQ[1].type ELSE srv.type
          /\ srv'.off = srv.off /\ srv'.state = "ready"
      BY <3>1, <3>3 DEF Handled, Transfers
    <3>5. Answered("TYPE")'
      BY <3>2, <3>4 DEF Answered, SrvReady
    <3>6. srv.type = cip.curTransferType /\ cmdQ[1].type = op.type
      BY <2>1, <2>2, <2>3, <2>6 DEF TypesAgree
    <3>7. TypesAgree'
      BY <1>1, <2>1, <2>6, <3>4, <3>5, <3>6 DEF TypesAgree, Starting
    <3>8. OffsAgree'
      BY <1>1, <2>1, <2>2, <2>6, <3>4 DEF OffsAgree, NoOff, Live
    <3>9. DataAgree'
      BY <1>1, <2>1, <2>6 DEF DataAgree, Aborting, Live, Starting
    <3> QED
      BY <3>7, <3>8, <3>9
  <2>7. CASE pc \in {"check1", "check0", "rest", "rest0"} /\ Asked("REST")
    <3>1. Outstanding("REST") /\ Unreads(0)
      BY <2>3, <2>7
    <3>2. cmdQ' = <<>> /\ \E code \in {1, 2, 3, 5} : Handled("REST", code)
      BY <3>1, SrvCommandDoes
    <3>3. PICK code \in {1, 2, 3, 5} : Handled("REST", code)
      BY <3>2
    <3>4. /\ Unreads(1)' /\ Own(1, "REST")' /\ Unread'[1].code = code
          /\ srv'.type = srv.type /\ srv'.rest = srv.rest
          /\ srv'.off = IF srv.rest THEN cmdQ[1].off ELSE srv.off
          /\ code = IF srv.rest THEN 3 ELSE 5
          /\ srv'.state = "ready"
      BY <3>1, <3>3 DEF Handled, Transfers
    <3>5. Answered("REST")'
      BY <3>2, <3>4 DEF Answered, SrvReady
    <3>6. TypesAgree'
      BY <1>1, <2>1, <2>7, <3>4 DEF TypesAgree, Starting
    <3>7. pc \in {"check1", "rest"} =>
            \/ Unread'[1].code \in {1, 2, 3} /\ srv'.rest /\ srv'.off = RestPoint
            \/ Unread'[1].code \notin {1, 2, 3} /\ srv'.off = 0
      <4>1. pc \in {"check1", "rest"} => srv.off = 0 /\ cmdQ[1].off = RestPoint
        BY <2>1, <2>2, <2>3 DEF OffsAgree
      <4> QED
        BY <3>4, <4>1
    <3>8. pc \in {"check0", "rest0"} => srv'.off = 0
      <4>1. pc = "check0" => srv.rest /\ cmdQ[1].off = 0
        BY <2>1, <2>2, <2>3 DEF OffsAgree
      <4>2. pc = "rest0" => srv.off = 0 /\ cmdQ[1].off = 0
        BY <2>1, <2>2, <2>3 DEF OffsAgree, NoOff
      <4> QED
        BY <3>4, <4>1, <4>2
    <3>9. RestPoint' = RestPoint
      BY <1>1 DEF RestPoint
    <3>10. OffsAgree'
      BY <1>1, <2>1, <2>7, <3>5, <3>7, <3>8, <3>9 DEF OffsAgree, NoOff, Live
    <3>11. DataAgree'
      BY <1>1, <2>1, <2>7 DEF DataAgree, Aborting, Live, Starting, LinkFresh
    <3> QED
      BY <3>6, <3>10, <3>11
  <2>8. CASE pc \in {"start", "appe"} /\ Asked(op.cmd)
    <3>1. Outstanding(op.cmd) /\ Unreads(0) /\ op.cmd \in Transfers
      BY <2>3, <2>8 DEF IInv, KindOK, Starting
    <3>2. PICK v : v = op.cmd
      OBVIOUS
    <3>3. cmdQ' = <<>> /\ \E code \in {1, 2, 3, 5} : Handled(v, code)
      BY <3>1, <3>2, SrvCommandDoes
    <3>4. PICK code \in {1, 2, 3, 5} : Handled(v, code)
      BY <3>3
    <3>5. /\ code \in {1, 5} /\ cmdQ' = <<>>
          /\ Unreads(1)' /\ Own(1, v)' /\ Unread'[1].code = code
          /\ srv'.type = srv.type /\ srv'.off = 0
          /\ code = 1 =>
               /\ srv'.state = "opening" /\ srv'.blocks = 0
               /\ srv'.job = [verb |-> v, op |-> op.no,
                              off |-> IF v = "APPE" THEN cmdQ[1].off ELSE srv.off]
          /\ code # 1 => srv'.state = "ready"
      BY <3>1, <3>2, <3>3, <3>4 DEF Handled, Transfers
    <3>6. srv.off = cip.startPoint \/ (v = "APPE" /\ cmdQ[1].off = cip.startPoint)
      BY <2>1, <2>2, <2>4, <2>8, <3>2 DEF OffsAgree, CommandOff
    <3>7. v = "APPE" => cmdQ[1].off = cip.startPoint
      BY <2>1, <2>2, <2>4, <2>8, <3>2 DEF OffsAgree, CommandOff
    <3>8. LinkFresh /\ op.blocks = 0
      BY <2>1, <2>4, <2>8 DEF DataAgree, Starting
    <3>9. TypesAgree'
      BY <1>1, <2>1, <2>8, <3>5 DEF TypesAgree, Starting
    <3>10. Own(1, op.cmd)'
      BY <1>1, <3>2, <3>5 DEF Own
    <3>11. CASE code = 5
      <4>1. Refused'
        BY <3>5, <3>10, <3>11 DEF Refused, Answered, SrvReady
      <4>2. OffsAgree'
        BY <1>1, <2>1, <2>8, <3>5, <4>1 DEF OffsAgree, NoOff, Live
      <4>3. LinkFresh'
        BY <1>1, <3>8 DEF LinkFresh
      <4>4. DataAgree'
        BY <1>1, <2>1, <2>8, <4>1, <4>3 DEF DataAgree, Live, Starting, Aborting
      <4> QED
        BY <3>9, <4>2, <4>4
    <3>12. CASE code = 1
      <4>1. srv'.job.verb = v /\ srv'.job.op = op.no /\ srv'.job.off = cip.startPoint
        BY <3>5, <3>6, <3>7, <3>12
      <4>2. Started'
        BY <1>1, <3>2, <3>5, <3>10, <3>12, <4>1 DEF Started, OwnJob
      <4>3. OffsAgree'
        BY <1>1, <2>1, <2>8, <3>5, <4>1, <4>2 DEF OffsAgree, NoOff, Live
      <4>4. Flow'
        <5>1. link \notin {"half", "cut", "fin"}
          BY <2>1, <2>8, <3>8 DEF LinkOK, LinkFresh, DataAgree, Aborting
        <5>2. link = "up" => wire = 0
          BY <3>8 DEF LinkFresh
        <5> QED
          BY <1>1, <3>5, <3>8, <3>12, <5>1, <5>2 DEF Flow
      <4>5. DataAgree'
        BY <1>1, <2>1, <2>8, <3>5, <4>2, <4>4 DEF DataAgree, Live, Starting, Aborting
      <4> QED
        BY <3>9, <4>3, <4>5
    <3> QED
      BY <3>5, <3>11, <3>12
  <2>9. pc = "open" /\ (\E v \in {"PORT", "PASV"} : Asked(v)) =>
          TypesAgree' /\ OffsAgree' /\ DataAgree'
    BY <2>3, <2>5 DEF Transfers
  <2> QED
    BY <2>1, <2>2, <2>3, <2>5, <2>6, <2>7, <2>8, <2>9, CommandAt DEF Transfers, Aborting
<1> QED
  BY <1>1, <1>2, <1>3 DEF EndInv

\* While the transfer runs, and as it ends, what the offset and the type are
\* does not change, and a preliminary reply stays the first one.
LEMMA RunningKept ==
  ASSUME IInv, PairInv, Sound, ~SrvReady, TypesAgree, OffsAgree, DataAgree,
         UNCHANGED <<pc, cip, op, abandoned>>,
         srv'.type = srv.type, srv'.off = srv.off, srv'.job = srv.job, srv.off \in Nat,
         Started /\ Unreads(1) => Started'
  PROVE  /\ TypesAgree' /\ OffsAgree' /\ OwnJob
         /\ pc \in {"start", "appe"} => Started /\ Started' /\ Unreads(1) /\ Flow
         /\ Live => Unreads(0) /\ Flow
         /\ pc \in {"start", "appe", "accept", "xfer", "eofwait", "final"} \cup Aborting
<1>1. /\ OwnJob
      /\ \/ pc \in {"start", "appe"} /\ Started /\ Unreads(1)
         \/ pc \in {"accept", "xfer", "eofwait", "final"} /\ NoCommand /\ Unreads(0)
         \/ pc \in {"abort1", "abort2", "abortReply"}
  BY RunningAt
<1>2. ~Lost /\ ~Refused /\ ~Asked(op.cmd)
  BY DEF Lost, SrvReady, Refused, Answered, Asked
<1>3. srv.off = 0
  BY <1>1, <1>2 DEF OffsAgree, NoOff
<1>4. NoOff'
  BY <1>3 DEF NoOff
<1>5. TypesAgree'
  BY <1>1 DEF TypesAgree
<1>6. OffsAgree'
  BY <1>1, <1>2, <1>4 DEF OffsAgree, Live
<1>7. pc \in {"start", "appe"} => Flow
  BY <1>2 DEF DataAgree
<1>8. Live => Unreads(0) /\ Flow
  BY <1>1 DEF DataAgree, Live
<1> QED
  BY <1>1, <1>5, <1>6, <1>7, <1>8 DEF Aborting

\* The server connects, and moves blocks.
LEMMA SrvRunsEnds ==
  ASSUME DataInv, IInv', PairInv', SrvConnect \/ SrvMove
  PROVE  EndInv'
<1> USE DEF DataInv
<1>1. /\ srv \in SrvType /\ wire \in Nat /\ op.blocks \in Nat
      /\ ~SrvReady /\ srv.state \in {"opening", "xfer"}
      /\ UNCHANGED <<pc, cip, op, cmdQ, repQ, abandoned>>
  BY DEF IInv, TypeOK, OpType, SrvConnect, SrvMove, SrvReady
<1>2. /\ srv'.type = srv.type /\ srv'.off = srv.off /\ srv'.job = srv.job
      /\ srv.off \in Nat /\ srv.blocks \in Nat /\ srv'.state = "xfer"
      /\ \/ srv'.blocks = srv.blocks /\ UNCHANGED <<link, wire>>
         \/ /\ srv'.blocks = srv.blocks /\ srv.state = "opening" /\ cip.dataSocket = "listen"
            /\ link' = "up" /\ wire' = 0
         \/ /\ srv'.blocks = srv.blocks + 1 /\ link' = link
            /\ \/ srv.job.verb = "RETR" /\ link = "up" /\ wire' = wire + 1
               \/ srv.job.verb # "RETR" /\ wire > 0 /\ wire' = wire - 1
  BY <1>1 DEF SrvConnect, SrvMove, SrvType
<1>3. LinkOK'
  BY <1>1, <1>2 DEF LinkOK, EndInv
<1>4. KindCmd'
  BY <1>1 DEF KindCmd, EndInv
<1>5. ASSUME Sound' PROVE TypesAgree' /\ OffsAgree' /\ DataAgree'
  <2>1. Sound /\ TypesAgree /\ OffsAgree /\ DataAgree /\ LinkOK
    BY <1>1, <1>5 DEF Sound, EndInv
  <2>2. Started => Started'
    BY <1>1, <1>2 DEF Started, Own, OwnJob, Unread
  <2>3. /\ TypesAgree' /\ OffsAgree' /\ OwnJob
        /\ pc \in {"start", "appe"} => Started' /\ Unreads(1) /\ Flow
        /\ Live => Unreads(0) /\ Flow
        /\ pc \in {"start", "appe", "accept", "xfer", "eofwait", "final"} \cup Aborting
    BY <1>1, <1>2, <2>1, <2>2, RunningKept
  <2>4. ASSUME Flow PROVE Flow'
    <3>1. srv.job.verb = op.cmd
      BY <2>3 DEF OwnJob
    <3>2. CASE srv'.blocks = srv.blocks /\ UNCHANGED <<link, wire>>
      BY <1>1, <2>4, <3>2 DEF Flow, SrvReady
    <3>3. CASE srv'.blocks = srv.blocks /\ srv.state = "opening"
                 /\ cip.dataSocket = "listen" /\ link' = "up" /\ wire' = 0
      <4>1. op.blocks = 0 /\ srv.blocks = 0
        BY <2>1, <3>3 DEF DataAgree, LinkOK, Starting
      <4> QED
        BY <1>1, <3>3, <4>1 DEF Flow
    <3>4. CASE srv'.blocks = srv.blocks + 1 /\ link' = link /\ srv.job.verb = "RETR"
                 /\ link = "up" /\ wire' = wire + 1
      BY <1>1, <1>2, <2>4, <3>1, <3>4 DEF Flow
    <3>5. CASE srv'.blocks = srv.blocks + 1 /\ link' = link /\ srv.job.verb # "RETR"
                 /\ wire > 0 /\ wire' = wire - 1
      BY <1>1, <1>2, <2>4, <3>1, <3>5 DEF Flow
    <3> QED
      BY <1>2, <3>2, <3>3, <3>4, <3>5
  <2>5. \A n \in {0, 1} : Unreads(n) => Unreads(n)'
    BY <1>1, <1>2 DEF Unreads, Unread, Lost, SrvReady
  <2>6. pc = "final" /\ op.result = "ok" => op.kind # "RETR"
    BY <1>1, <2>1 DEF DataAgree
  <2>7. link' = "cut" => link = "cut"
    BY <1>2
  <2>8. Live' = Live
    BY <1>1 DEF Live
  <2>9. DataAgree'
    BY <1>1, <2>1, <2>3, <2>4, <2>5, <2>6, <2>7, <2>8 DEF DataAgree, Starting, Aborting
  <2> QED
    BY <2>3, <2>9
<1> QED
  BY <1>3, <1>4, <1>5 DEF EndInv

\* The transfer ends at the server, and the data connection with it.
LEMMA SrvEndsEnds ==
  ASSUME DataInv, IInv', PairInv', srv.state \in {"opening", "xfer"},
         NEW l \in {"fin", "reset"}, NEW code \in {2, 4}, SrvEnds(<<code>>, Gone(l)),
         code = 2 => IF srv.job.verb = "RETR" THEN srv.job.off + srv.blocks = FileBlocks
                                              ELSE link \in {"half", "cut"} /\ wire = 0
  PROVE  EndInv'
<1> USE DEF DataInv
<1> DEFINE r == Answer(srv.job, code)
<1>1. /\ UNCHANGED <<pc, cip, op, cmdQ, abandoned>> /\ ~Lost /\ ~SrvReady
      /\ srv' = [srv EXCEPT !.state = "ready", !.port = 0] /\ LinkBecomes(Gone(l))
      /\ r.code = code /\ r.verb = srv.job.verb /\ r.op = srv.job.op
      /\ Unreads(0) => Unreads(1)' /\ Unread'[1] = r
      /\ Unreads(1) => Unreads(2)' /\ Unread'[1] = Unread[1] /\ Unread'[2] = r
  BY SrvEndsAnswers
<1> HIDE DEF r
<1>2. /\ srv'.state = "ready" /\ srv'.job = srv.job /\ srv'.type = srv.type
      /\ srv'.off = srv.off /\ srv'.blocks = srv.blocks /\ srv.off \in Nat
      /\ srv.blocks \in Nat /\ op.blocks \in Nat
  BY <1>1 DEF IInv, TypeOK, SrvType, OpType
<1>3. link' \in {"none", "fin", "reset"} /\ (link' # "none" => link \in {"up", "half"} /\ wire' = wire)
  BY <1>1 DEF LinkBecomes, Gone
<1>4. LinkOK'
  BY <1>1, <1>2, <1>3 DEF LinkOK, EndInv
<1>5. KindCmd'
  BY <1>1 DEF KindCmd, EndInv
<1>6. ASSUME Sound' PROVE TypesAgree' /\ OffsAgree' /\ DataAgree'
  <2>1. Sound /\ TypesAgree /\ OffsAgree /\ DataAgree /\ LinkOK /\ KindCmd
    BY <1>1, <1>6 DEF Sound, EndInv
  <2>2. Started /\ Unreads(1) => Started'
    BY <1>1, <1>2 DEF Started, Own, OwnJob
  <2>3. /\ TypesAgree' /\ OffsAgree' /\ OwnJob
        /\ pc \in {"start", "appe"} => Started' /\ Unreads(1) /\ Flow
        /\ Live => Unreads(0) /\ Flow
        /\ pc \in {"start", "appe", "accept", "xfer", "eofwait", "final"} \cup Aborting
    BY <1>1, <1>2, <2>1, <2>2, RunningKept
  <2>4. link = "half" => pc = "eofwait" /\ op.kind = "STOR" /\ op.cmd # "RETR"
    BY <2>1 DEF LinkOK, KindCmd
  <2>5. ASSUME Flow PROVE Flow'
    BY <1>1, <1>2, <1>3, <2>4, <2>5 DEF Flow, SrvReady
  <2>6. ASSUME pc \in {"start", "appe"} \/ Live, Flow, code = 2 PROVE Complete'
    <3>1. CASE op.cmd = "RETR"
      BY <1>1, <1>2, <2>3, <2>6, <3>1 DEF Complete, OwnJob
    <3>2. CASE op.cmd # "RETR"
      <4>1. link \in {"half", "cut"} /\ wire = 0
        BY <2>3, <2>6, <3>2 DEF OwnJob
      <4>2. op.blocks = srv.blocks
        BY <1>2, <2>6, <3>2, <4>1 DEF Flow
      <4>3. pc \in {"eofwait", "final"}
        BY <2>1, <2>4, <2>6, <4>1 DEF DataAgree, Live, Aborting
      <4> QED
        BY <1>1, <1>2, <3>2, <4>2, <4>3 DEF Complete
    <3> QED
      BY <3>1, <3>2
  <2>7. Live' = Live
    BY <1>1 DEF Live
  <2>8. pc \in {"start", "appe"} => /\ Started' /\ Flow'
                                    /\ Unread'[2].code = 2 => Complete'
    BY <1>1, <2>3, <2>5, <2>6
  <2>9. Live => Flow' /\ (Unread'[1].code = 2 => Complete')
    BY <1>1, <2>3, <2>5, <2>6
  <2>10. pc = "final" /\ op.result = "ok" => op.kind # "RETR"
    BY <1>1, <2>1 DEF DataAgree
  <2>11. DataAgree'
    BY <1>1, <1>3, <2>1, <2>3, <2>7, <2>8, <2>9, <2>10 DEF DataAgree, Starting, Aborting
  <2> QED
    BY <2>3, <2>11
<1> QED
  BY <1>4, <1>5, <1>6 DEF EndInv

\* An ABOR noticed ends a transfer that can no longer be a success.
LEMMA SrvAbortsEnds ==
  ASSUME DataInv, IInv', PairInv', SrvAborts
  PROVE  EndInv'
<1> USE DEF DataInv
<1>1. /\ srv.state \in {"opening", "xfer"} /\ cmdQ # <<>>
      /\ UNCHANGED <<pc, cip, op, abandoned>> /\ ~Lost /\ ~SrvReady
      /\ srv' = [srv EXCEPT !.state = "ready", !.port = 0] /\ LinkBecomes(Gone("fin"))
  BY DEF SrvAborts, SrvEnds, Lost, SrvReady
<1>2. /\ srv'.state = "ready" /\ srv'.type = srv.type /\ srv'.off = srv.off
  BY <1>1 DEF IInv, TypeOK, SrvType
<1>3. link' \in {"none", "fin"} /\ (link' # "none" => link \in {"up", "half"})
  BY <1>1 DEF LinkBecomes, Gone
<1>4. LinkOK'
  BY <1>1, <1>2, <1>3 DEF LinkOK, EndInv
<1>5. KindCmd'
  BY <1>1 DEF KindCmd, EndInv
<1>6. ASSUME Sound' PROVE TypesAgree' /\ OffsAgree' /\ DataAgree'
  <2>1. Sound /\ TypesAgree /\ OffsAgree /\ DataAgree
    BY <1>1, <1>6 DEF Sound, EndInv
  <2>2. pc \in {"abort1", "abort2", "abortReply"}
    BY <1>1, <2>1, RunningAt DEF Started, NoCommand
  <2> QED
    BY <1>1, <1>2, <1>3, <2>1, <2>2
      DEF TypesAgree, OffsAgree, NoOff, Lost, DataAgree, Live, Starting, Aborting
<1> QED
  BY <1>4, <1>5, <1>6 DEF EndInv

\* The server goes: what it has answered is still there to be read.
LEMMA SrvHangsUpEnds ==
  ASSUME DataInv, IInv', PairInv', SrvHangsUp
  PROVE  EndInv'
<1> USE DEF DataInv
<1>1. /\ UNCHANGED <<pc, cip, op, cmdQ, abandoned>> /\ ~Lost /\ srv \in SrvType
      /\ srv' = [srv EXCEPT !.state = "gone"] /\ LinkBecomes(Gone("reset"))
  BY DEF SrvHangsUp, Lost, IInv, TypeOK
<1>2. /\ srv'.state = "gone" /\ srv'.type = srv.type /\ srv'.off = srv.off
      /\ srv'.rest = srv.rest /\ srv'.job = srv.job /\ srv'.blocks = srv.blocks
      /\ Lost' /\ SrvReady'
  BY <1>1 DEF SrvType, Lost, SrvReady
<1>3. link' \in {"none", "reset"} /\ (link' # "none" => link \in {"up", "half"})
  BY <1>1 DEF LinkBecomes, Gone
<1>4. LinkOK'
  BY <1>1, <1>2, <1>3 DEF LinkOK, EndInv
<1>5. KindCmd'
  BY <1>1 DEF KindCmd, EndInv
<1>6. ASSUME Sound' PROVE TypesAgree' /\ OffsAgree' /\ DataAgree'
  <2>1. Sound /\ TypesAgree /\ OffsAgree /\ DataAgree /\ Paired
    BY <1>1, <1>6 DEF Sound, EndInv, PairInv
  <2>2. /\ Unreads(0) => Unreads(0)'
        /\ Unreads(1) => Unreads(1)' /\ Unread'[1] = Unread[1]
        /\ Unreads(2) => Unreads(2)' /\ Unread'[1] = Unread[1] /\ Unread'[2] = Unread[2]
    BY HangsUp DEF IInv
  <2>3. \A v : Asked(v) => Asked(v)'
    BY <1>2, <2>2 DEF Asked
  <2>4. \A v : Answered(v) => Answered(v)' /\ Unread'[1] = Unread[1]
    BY <1>1, <1>2, <2>2 DEF Answered, Own
  <2>5. op' = op /\ (Asked(op.cmd) => Asked(op.cmd)') /\ (Refused => Refused')
    BY <1>1, <2>3, <2>4, <1>2, <2>2 DEF Refused, Asked, Answered, Own
  <2>6. ASSUME pc \in {"start", "appe"}, Started
        PROVE  /\ Started' /\ (Unreads(1) => Unreads(1)')
               /\ ~Unreads(1) => Unread'[2] = Unread[2]
    <3>1. Unreads(1) \/ Unreads(2)
      BY <1>1, <2>1, <2>6 DEF Paired, StartAsked, Started, Asked, Outstanding, Answered
    <3> QED
      BY <1>1, <1>2, <2>2, <2>6, <3>1 DEF Started, Own, OwnJob
  <2>7. Live => Unreads(0) \/ Unreads(1)
    BY <2>1 DEF Live, Paired, Transferring
  <2>8. Live' = Live /\ NoOff' /\ CommandOff' /\ Flow' /\ LinkFresh' /\ Complete' = Complete
    BY <1>1, <1>2, <1>3 DEF Live, NoOff, CommandOff, Flow, LinkFresh, Complete
  <2>9. TypesAgree'
    BY <1>1, <1>2, <2>1, <2>3, <2>4 DEF TypesAgree
  <2>10. OffsAgree'
    <3>1. RestPoint' = RestPoint
      BY <1>1 DEF RestPoint
    <3> QED
      BY <1>1, <1>2, <2>1, <2>3, <2>4, <2>5, <2>6, <2>8, <3>1 DEF OffsAgree
  <2>11. DataAgree'
    <3>1. Live => Flow' /\ (Unreads(0)' \/ (Unread'[1].code = 2 => Complete'))
      BY <2>1, <2>2, <2>7, <2>8 DEF DataAgree
    <3>2. pc \in {"start", "appe"} =>
            \/ (Asked(op.cmd)' \/ Refused') /\ LinkFresh'
            \/ Started' /\ Flow' /\ (Unreads(1)' \/ (Unread'[2].code = 2 => Complete'))
      BY <2>1, <2>5, <2>6, <2>8 DEF DataAgree
    <3>3. Whole' = Whole
      BY <1>1, <1>2 DEF Whole
    <3> QED
      BY <1>1, <1>2, <1>3, <2>1, <2>8, <3>1, <3>2, <3>3 DEF DataAgree
  <2> QED
    BY <2>9, <2>10, <2>11
<1> QED
  BY <1>4, <1>5, <1>6 DEF EndInv

\* Every way a transfer ends at the server.
LEMMA ServerEndsEnds ==
  ASSUME DataInv, IInv', PairInv', SrvCannotConnect \/ SrvDone \/ SrvFails \/ SrvAborts
  PROVE  EndInv'
<1>1. CASE SrvCannotConnect
  BY <1>1, SrvEndsEnds DEF SrvCannotConnect
<1>2. CASE SrvDone
  BY <1>2, SrvEndsEnds DEF SrvDone
<1>3. CASE SrvFails
  BY <1>3, SrvEndsEnds DEF SrvFails
<1>4. CASE SrvAborts
  BY <1>4, SrvAbortsEnds
<1> QED
  BY <1>1, <1>2, <1>3, <1>4

-----------------------------------------------------------------------------
(* The invariant holds of every reachable state.                            *)

\* A fresh login finds the ends agreed: type ASCII, no offset, no connection.
LEMMA InitEnds == ASSUME Init PROVE EndInv
<1>1. /\ pc = "idle" /\ op.kind = "CMD" /\ op.result = "ok" /\ link = "none"
      /\ cip.dataSocket = "closed" /\ cip.curTransferType = "A" /\ cip.ctrlSocket = "open"
      /\ srv.type = "A" /\ srv.off = 0 /\ srv.state = "ready"
  BY DEF Init, FreshCip, FreshSrv
<1> QED
  BY <1>1 DEF EndInv, KindCmd, LinkOK, TypesAgree, OffsAgree, NoOff, DataAgree, Live, Whole,
       Simple, Starting

\* Every step of the library's thread keeps the two ends agreed.
LEMMA LibraryEnds ==
  ASSUME DataInv, IInv', PairInv', Library
  PROVE  EndInv'
<1>1. CASE CmdReply \/ CheckReply \/ TypeReply
  BY <1>1, CmdReplyEnds, CheckTypeReplyEnds, CheckRESTReplyEnds, TypeReplyEnds DEF CheckReply
<1>2. CASE OpenReply \/ Connect \/ RestReply \/ Rest0Reply
  BY <1>2, PORTAcceptedEnds, PASVAcceptedEnds, PASVNamesNoPortEnds, OpenRefusedEnds,
     ConnectEnds, RestReplyEnds, Rest0ReplyEnds DEF OpenReply
<1>3. CASE StartReply
  BY <1>3, StartBegunEnds, StartRefusedEnds DEF StartReply
<1>4. CASE Accept \/ UndoSeekFails \/ GetBlock \/ PutBlock \/ PutEnds
  BY <1>4, AcceptedEnds, AbandonEnds, BlockEnds, PutEndsEnds DEF Accept
<1>5. CASE GetEnds \/ PutBreaks \/ PutDone \/ FinalReply \/ AbortWait \/ AbortReply
  BY <1>5, LoopEnds, FinalReplyEnds, AbortWaitEnds, AbortReplyEnds
<1>6. CASE GiveUpAtOnce \/ ReplyTimesOut \/ ReplyIsEof \/ ReplyIs421 \/ QuitReply
  BY <1>6, EndOfSessionEnds
<1>7. CASE ReadClosed \/ WriteFails
  BY <1>7, ReadClosedEnds, WriteFailsEnds
<1> QED
  BY <1>1, <1>2, <1>3, <1>4, <1>5, <1>6, <1>7 DEF Library

\* Every step of the system keeps the two ends agreed.
LEMMA StepEnds ==
  ASSUME DataInv, [Next]_vars
  PROVE  DataInv'
<1>1. IInv' /\ PairInv'
  BY StepInv, StepPair DEF DataInv
<1>2. CASE Library
  BY <1>1, <1>2, LibraryEnds DEF DataInv
<1>3. CASE Application
  <2>1. EndInv'
    BY <1>1, <1>3, FTPCmdEnds, FTPStartDataCmdEnds, AbortEnds, FTPCloseHostEnds, FTPOpenHostEnds
       DEF Application
  <2> QED
    BY <1>1, <2>1 DEF DataInv
<1>4. CASE Server
  <2>1. EndInv'
    BY <1>1, <1>4, SrvCommandEnds, SrvRunsEnds, ServerEndsEnds, SrvHangsUpEnds DEF Server
  <2> QED
    BY <1>1, <2>1 DEF DataInv
<1>5. CASE UNCHANGED vars
  <2>1. UNCHANGED <<pc, cip, op, cmdQ, repQ, link, wire, srv, abandoned>>
    BY <1>5 DEF vars
  <2>2. KindCmd' = KindCmd /\ LinkOK' = LinkOK /\ Sound' = Sound
    BY <2>1 DEF KindCmd, LinkOK, Sound
  <2>3. /\ Unread' = Unread /\ (\A n : Unreads(n)' = Unreads(n)) /\ OwnJob' = OwnJob
        /\ SrvReady' = SrvReady /\ NoCommand' = NoCommand /\ Lost' = Lost /\ Live' = Live
    BY <2>1, UnreadKept DEF Unread, Unreads, OwnJob, SrvReady, NoCommand, Lost, Live
  <2>4. \A v : Asked(v)' = Asked(v) /\ Answered(v)' = Answered(v)
    BY <2>1, <2>3 DEF Asked, Answered, Own, Outstanding
  <2>5. Asked(op.cmd)' = Asked(op.cmd) /\ Refused' = Refused /\ Started' = Started
    BY <2>1, <2>3 DEF Asked, Answered, Refused, Started, Own, Outstanding
  <2>6. TypesAgree' = TypesAgree
    BY <2>1, <2>3, <2>4 DEF TypesAgree
  <2>7. NoOff' = NoOff /\ RestPoint' = RestPoint /\ CommandOff' = CommandOff
    BY <2>1, <2>3 DEF NoOff, RestPoint, CommandOff
  <2>8. OffsAgree' = OffsAgree
    BY <2>1, <2>3, <2>4, <2>5, <2>7 DEF OffsAgree
  <2>9. LinkFresh' = LinkFresh /\ Flow' = Flow /\ Complete' = Complete /\ Whole' = Whole
    BY <2>1, <2>3 DEF LinkFresh, Flow, Complete, Whole
  <2>10. DataAgree' = DataAgree
    BY <2>1, <2>3, <2>5, <2>9 DEF DataAgree
  <2> QED
    BY <1>1, <2>2, <2>6, <2>8, <2>10 DEF DataInv, EndInv
<1> QED
  BY <1>2, <1>3, <1>4, <1>5 DEF Next

\* The agreement of the two ends is inductive.
THEOREM DataInvariance == Spec => []DataInv
<1>1. Init => DataInv
  BY InitInv, InitPair, InitEnds DEF DataInv
<1>2. DataInv /\ [Next]_vars => DataInv'
  BY StepEnds
<1> QED
  BY <1>1, <1>2, PTL DEF Spec

-----------------------------------------------------------------------------
(* What follows.                                                            *)

\* While data can flow, the server's type is the one the call asked for and the
\* cached one, and the server began where the library's start point says,
\* whatever REST, APPE and their refusals have done before.
THEOREM TypeAndOffset == Spec => []EndsAgree
<1>1. ASSUME DataInv, pc \in {"accept", "xfer", "eofwait"}, abandoned = {}
      PROVE  srv.type = op.type /\ cip.curTransferType = op.type /\ srv.job.off = cip.startPoint
  <2>1. cip.ctrlSocket = "open"
    BY <1>1 DEF DataInv, IInv, TypeOK, CipType, SocketOK
  <2>2. TypesAgree /\ OffsAgree
    BY <1>1, <2>1 DEF DataInv, EndInv, Sound
  <2> QED
    BY <1>1, <2>2 DEF TypesAgree, OffsAgree, Live
<1>2. DataInv => EndsAgree
  BY <1>1 DEF EndsAgree
<1> QED
  BY <1>2, DataInvariance, PTL

\* A retrieve that reports success has the file to its last block, and a store
\* that reports success has left it with the server.
THEOREM Wholeness == Spec => []SuccessIsWhole
<1>1. ASSUME DataInv, pc = "idle", op.result = "ok", abandoned = {}
      PROVE  Whole
  <2>1. cip.ctrlSocket = "open"
    BY <1>1 DEF DataInv, IInv, TypeOK, CipType, EndInv, LinkOK
  <2> QED
    BY <1>1, <2>1 DEF DataInv, EndInv, Sound, DataAgree
<1>2. DataInv => SuccessIsWhole
  BY <1>1 DEF SuccessIsWhole, Whole
<1> QED
  BY <1>2, DataInvariance, PTL

\* All of a session's promises, in both modes and through the fallback.
THEOREM SessionRight == Spec => []SessionInv
<1>1. RepliesPaired /\ QuietWhenIdle /\ NoSocketLeft /\ SuccessIsWhole /\ EndsAgree => SessionInv
  BY DEF SessionInv
<1> QED
  BY <1>1, Pairing, Quietness, SocketsClosed, Wholeness, TypeAndOffset, PTL
=============================================================================
