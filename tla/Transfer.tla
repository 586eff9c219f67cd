------------------------------ MODULE Transfer ------------------------------
(***************************************************************************)
(* What FTPGetOneF (io_get.c) and FTPPutOneF (io_put.c) do to the two      *)
(* files they are about: whether a transfer starts from nothing, goes on   *)
(* where an earlier one stopped, appends or is not needed at all, what an  *)
(* interrupted one leaves, the temporary name of an upload, the times put  *)
(* on the files, and when the source is deleted; and the two that have the *)
(* application's memory for the local file, FTPGetFileToMemory             *)
(* (io_getmem.c) and FTPPutFileFromMemory (io_putmem.c).  The connection   *)
(* itself is FtpSession's.                                                 *)
(*                                                                         *)
(* A file is a sequence of characters.  Version v of the source has        *)
(* Lines[v] lines, each one character that tells version and line apart,   *)
(* and a newline; in type "A" a newline is two characters on the wire.     *)
(* Time is a counter of seconds.                                           *)
(***************************************************************************)
EXTENDS Integers, Sequences, FiniteSets, SequencesExt

CONSTANTS
  Kinds,          \* a subset of AllKinds
  Types,          \* a subset of {"A", "I"}
  Lines,          \* Lines[v]: the number of lines of version v of the source
  Servers,        \* what the server may be capable of, records of Server
  Heuristic,      \* cip->recentMdtmHeuristic, as the set of its bits 1 and 2
  Threshold,      \* cip->recentMdtmThreshold, in seconds
  UtimeBlocks,    \* cip->utimeBlocks
  MemStarts,      \* the start points of FTPGetFileToMemory
  MemRooms,       \* the sizes of its caller's memory
  MaxCalls,       \* bound on the calls of the library
  MaxNow          \* bound on the clock

AllKinds == {"GET", "PUT", "GETMEM", "PUTMEM"}
Versions == DOMAIN Lines
Bits == {1, 2}
Server == [mlst: BOOLEAN, size: BOOLEAN, sizeA: BOOLEAN, mdtm: BOOLEAN,
           rest: BOOLEAN, restA: BOOLEAN, over: BOOLEAN]

ASSUME ConstantsAssumption ==
  /\ Kinds \subseteq AllKinds /\ Types \subseteq {"A", "I"}
  /\ Lines \in Seq(Nat) /\ Servers \subseteq Server
  /\ Heuristic \subseteq Bits /\ Threshold \in Nat
  /\ MemStarts \subseteq Nat /\ MemRooms \subseteq Nat \ {0}
  /\ UtimeBlocks \in BOOLEAN /\ MaxCalls \in Nat /\ MaxNow \in Nat \ {0}

Unknown == -1       \* kSizeUnknown and kModTimeUnknown
Names   == {"dst", "tmp"}

VARIABLES
  local,      \* the local file, or the memory in its place
  remote,     \* the files of the server: dst, and tmp for dst with the affixes
  srv,        \* what the server can do
  cip,        \* hasSIZE, hasMDTM and hasAPPE: "unknown", "yes" or "no"
  now,        \* the time
  used,       \* the versions that the source has had
  mixed,      \* history: the destinations that may be no beginning of one version
  pc, op, w,  \* the call: where it is, its parameters, its locals
  calls       \* bounds the calls

vars == <<local, remote, srv, cip, now, used, mixed, pc, op, w, calls>>

------------------------------------------------------------------------------
(* Files and their two forms *)

NL == <<0, "nl">>
CR == <<0, "cr">>
LF == <<0, "lf">>

NoFile == [there |-> FALSE, data |-> <<>>, mtime |-> 0]
File(d, t) == [there |-> TRUE, data |-> d, mtime |-> t]

Text(v) == FlattenSeq([i \in 1 .. Lines[v] |-> <<<<v, i>>, NL>>])

\* What is sent for a character of a file, and what is written for one that was
\* received: a CR ends a line, also when it is the last character that has come.
OnWire(c) == IF c = NL THEN <<CR, LF>> ELSE <<c>>
InFile(c) == IF c = CR THEN <<NL>> ELSE IF c = LF THEN <<>> ELSE <<c>>

ToNet(d, type) ==
  IF type = "I" THEN d ELSE FlattenSeq([i \in 1 .. Len(d) |-> OnWire(d[i])])

FromNet(n, type) ==
  IF type = "I" THEN n ELSE FlattenSeq([i \in 1 .. Len(n) |-> InFile(n[i])])

\* FTPLocalASCIIFileSize, and what SIZE reports in either type.
Size(d, type) == Len(ToNet(d, type))

From(n, start) == SubSeq(n, start + 1, Len(n))

\* FTPASCIILocalFileSeek finds the place in the local file that is `start'
\* characters into its wire form, unless that is in the middle of a line's end.
Seekable(d, start) ==
  \E k \in 0 .. Len(d) : Size(SubSeq(d, 1, k), "A") = start

------------------------------------------------------------------------------
(* Calls *)

Target == IF op.kind = "PUT" /\ op.tmp THEN "tmp" ELSE "dst"

NoOp == [kind |-> "none", type |-> "I", resume |-> FALSE, append |-> FALSE,
         progress |-> FALSE, delete |-> FALSE, tmp |-> FALSE, batch |-> 0,
         answer |-> "none", start |-> 0, room |-> 0]

Downloads == op.kind \in {"GET", "GETMEM"}
Uploads   == op.kind \in {"PUT", "PUTMEM"}
NoLocals == [size |-> Unknown, mdtm |-> Unknown, zaction |-> "none", start |-> 0,
             append |-> FALSE, base |-> <<>>, wire |-> <<>>, res |-> "none",
             skipped |-> FALSE]

Init ==
  /\ \E v \in Versions, k \in Kinds, s \in Servers :
       /\ local  = IF k \in {"PUT", "PUTMEM"} THEN File(Text(v), 1) ELSE NoFile
       /\ remote = [n \in Names |-> IF k \in {"GET", "GETMEM"} /\ n = "dst"
                                    THEN File(Text(v), 1) ELSE NoFile]
       /\ used = {v} /\ srv = s
       /\ op = [NoOp EXCEPT !.kind = k]
  /\ cip = [hasSIZE |-> "unknown", hasMDTM |-> "unknown", hasAPPE |-> "unknown"]
  /\ now = 1 /\ mixed = {}
  /\ pc = "idle" /\ w = NoLocals /\ calls = 0

\* The application's parameters, the combinations that ask for different steps.
\* A confirmation procedure that answers is asked only about a file that is there;
\* "Resume" is resuming where it ends.
Params(kind) ==
  {o \in [kind: {kind}, type: Types, resume: BOOLEAN, append: BOOLEAN,
          progress: BOOLEAN, delete: BOOLEAN, tmp: BOOLEAN, batch: {0, 1, now},
          answer: {"none", "Resume", "Skip", "Cancel"}, start: {0}, room: {0}] :
     /\ o.append => ~o.resume /\ ~o.delete /\ ~o.tmp
     /\ o.progress => kind = "GET" /\ ~o.resume
     /\ o.answer # "none" => ~o.resume /\ ~o.append /\ ~o.progress
     /\ o.tmp => kind = "PUT" /\ o.answer = "none"
     /\ o.batch > 0 => kind = "PUT" /\ o.resume}

Return(res) ==
  /\ pc' = "idle" /\ op' = [NoOp EXCEPT !.kind = op.kind]
  /\ w' = [NoLocals EXCEPT !.res = res, !.skipped = w.skipped]

Asks == op.resume \/ op.progress \/ op.answer # "none"

FTPGetOneF ==
  /\ pc = "idle" /\ op.kind = "GET" /\ calls < MaxCalls
  /\ \E o \in Params("GET") : op' = o
  /\ w' = NoLocals /\ calls' = calls + 1 /\ pc' = "ask"
  /\ UNCHANGED <<local, remote, srv, cip, now, used, mixed>>

\* The local file is opened first, and a directory or no file ends the call.
FTPPutOneF ==
  /\ pc = "idle" /\ op.kind = "PUT" /\ calls < MaxCalls /\ local.there
  /\ \E o \in Params("PUT") : op' = o
  /\ w' = NoLocals /\ calls' = calls + 1 /\ pc' = "ask"
  /\ UNCHANGED <<local, remote, srv, cip, now, used, mixed>>

\* FTPFileSizeAndModificationTime by MLST, which answers both; the size it gives
\* is that of the file as it is stored, whatever the type.
AskMLST ==
  /\ pc = "ask" /\ Asks /\ srv.mlst /\ remote[Target].there
  /\ w' = [w EXCEPT !.size = Len(remote[Target].data), !.mdtm = remote[Target].mtime]
  /\ pc' = "decide"
  /\ UNCHANGED <<local, remote, srv, cip, now, used, mixed, op, calls>>

\* By SIZE: where it fails the time is not asked for.
AskSIZE ==
  /\ pc = "ask" /\ Asks /\ ~(srv.mlst /\ remote[Target].there)
  /\ LET answered == srv.size /\ remote[Target].there /\ (op.type = "A" => srv.sizeA)
     IN /\ w' = IF answered THEN [w EXCEPT !.size = Size(remote[Target].data, op.type)] ELSE w
        /\ pc' = IF answered THEN "askMDTM" ELSE "decide"
        /\ cip' = [cip EXCEPT !.hasSIZE = IF answered THEN "yes"
                                          ELSE IF ~srv.size THEN "no" ELSE @]
  /\ UNCHANGED <<local, remote, srv, now, used, mixed, op, calls>>

AskMDTM ==
  /\ pc = "askMDTM"
  /\ LET answered == srv.mdtm /\ remote[Target].there
     IN /\ w' = IF answered THEN [w EXCEPT !.mdtm = remote[Target].mtime] ELSE w
        /\ cip' = [cip EXCEPT !.hasMDTM = IF answered THEN "yes"
                                          ELSE IF ~srv.mdtm THEN "no" ELSE @]
  /\ pc' = "decide"
  /\ UNCHANGED <<local, remote, srv, now, used, mixed, op, calls>>

\* Nothing is learnt, for a reason of the moment, the loss of the session among them.
AskFails ==
  /\ pc = "ask" /\ Asks
  /\ pc' = "decide"
  /\ UNCHANGED <<local, remote, srv, cip, now, used, mixed, op, w, calls>>

DoNotAsk ==
  /\ pc = "ask" /\ ~Asks
  /\ w' = IF op.kind = "PUT" THEN [w EXCEPT !.size = 0] ELSE w
  /\ pc' = "decide"
  /\ UNCHANGED <<local, remote, srv, cip, now, used, mixed, op, calls>>

------------------------------------------------------------------------------
(* FTPGetOneF's decision *)

Recent(t) == now - t < Threshold

\* The size at which the local file would be resumed.
StartPointOfStat == Len(local.data)

StartPoint == Size(local.data, op.type)

\* The first heuristic: a local time that may be that of an interrupted
\* transfer is not compared.
NoMdtmCheck ==
  \/ w.mdtm = Unknown
  \/ /\ 1 \in Heuristic /\ Threshold > 0
     /\ local.mtime > now \/ (Recent(local.mtime) /\ ~Recent(w.mdtm))

NotOlder == w.mdtm >= local.mtime - 1

SameTime == w.mdtm \in {local.mtime - 1, local.mtime, local.mtime + 1}

\* The second: a local file that was written just now may be resumed although it
\* is the newer one.
WrittenJustNow ==
  2 \in Heuristic /\ Threshold > 0 /\ (local.mtime > now \/ Recent(local.mtime))

\* What BestGuess comes to when a local file is there.
GuessGet ==
  IF w.size = Unknown
  THEN IF cip.hasMDTM = "yes" \/ cip.hasSIZE # "yes" THEN "Skip" ELSE "Overwrite"
  ELSE IF NoMdtmCheck \/ SameTime
  THEN IF StartPoint = w.size THEN "Same"
       ELSE IF StartPoint > w.size THEN "Overwrite" ELSE "Resume"
  ELSE IF w.mdtm < local.mtime
  THEN IF WrittenJustNow THEN "Resume" ELSE "Newer"
  ELSE "Overwrite"

GetAction ==
  IF ~local.there THEN "Overwrite"
  ELSE IF op.answer # "none" THEN op.answer
  ELSE IF op.append THEN "Append"
  ELSE IF op.resume /\ srv.rest THEN GuessGet
  ELSE "Overwrite"

DeletesSource(res) ==
  IF op.delete THEN pc' = "delete" /\ w' = [w EXCEPT !.res = res] /\ UNCHANGED op
  ELSE Return(res)

\* Nothing is done, which counts as success (kConfirmResumeProcSaidSkip), and the flag
\* is followed all the same.  w.skipped is history.
Skips ==
  IF op.delete
  THEN pc' = "delete" /\ w' = [w EXCEPT !.res = "ok", !.skipped = TRUE] /\ UNCHANGED op
  ELSE /\ pc' = "idle" /\ op' = [NoOp EXCEPT !.kind = op.kind]
       /\ w' = [NoLocals EXCEPT !.res = "ok", !.skipped = TRUE]

\* Nothing to fetch: the local file is taken to be the remote one already.  With
\* the flag set the remote file is deleted.
GetSame ==
  /\ pc = "decide" /\ op.kind = "GET"
  /\ \/ GetAction = "Same" /\ DeletesSource("same")
     \/ GetAction = "Resume" /\ StartPoint = w.size /\ DeletesSource("ok")
  /\ UNCHANGED <<local, remote, srv, cip, now, used, mixed, calls>>

GetSkip ==
  /\ pc = "decide" /\ op.kind = "GET" /\ GetAction = "Skip" /\ Skips
  /\ UNCHANGED <<local, remote, srv, cip, now, used, mixed, calls>>

GetRefuses ==
  /\ pc = "decide" /\ op.kind = "GET"
  /\ \/ GetAction = "Newer" /\ Return("error")
     \/ GetAction = "Cancel" /\ Return("error")
     \/ GetAction = "Resume" /\ w.size # Unknown /\ StartPoint > w.size /\ Return("error")
     \/ GetAction = "Resume" /\ w.size = Unknown /\ Return("error")
  /\ UNCHANGED <<local, remote, srv, cip, now, used, mixed, calls>>

\* The local file is opened: made or emptied, or for O_APPEND.
GetOpens(z, start, emptied) ==
  /\ w' = [w EXCEPT !.zaction = z, !.start = start]
  /\ local' = IF emptied THEN File(<<>>, now)
              ELSE IF local.there THEN local ELSE File(<<>>, now)
  /\ mixed' = IF emptied THEN {}
              ELSE IF z = "Append" \/ op.answer # "none" THEN {"dst"} ELSE mixed
  /\ pc' = "start"
  /\ UNCHANGED <<remote, srv, cip, now, used, op, calls>>

GetOverwrites ==
  /\ pc = "decide" /\ op.kind = "GET" /\ GetAction = "Overwrite"
  /\ GetOpens("Overwrite", 0, TRUE)

GetResumes ==
  /\ pc = "decide" /\ op.kind = "GET" /\ GetAction = "Resume"
  /\ w.size # Unknown /\ StartPoint < w.size
  /\ GetOpens("Resume", StartPoint, FALSE)

GetAppends ==
  /\ pc = "decide" /\ op.kind = "GET" /\ GetAction = "Append" /\ w.size # 0
  /\ GetOpens("Append", 0, FALSE)

StampedAlways(f) == [f EXCEPT !.mtime = w.mdtm]

Stamped(f) == IF w.mdtm = Unknown THEN f ELSE [f EXCEPT !.mtime = w.mdtm]

\* An empty file needs no transfer to be appended.
GetAppendsNothing ==
  /\ pc = "decide" /\ op.kind = "GET" /\ GetAction = "Append" /\ w.size = 0
  /\ local' = Stamped(local) /\ DeletesSource("ok")
  /\ UNCHANGED <<remote, srv, cip, now, used, mixed, calls>>

------------------------------------------------------------------------------
(* FTPGetOneF's transfer *)

\* Whether the server takes a start point that is not 0.
RESTAccepted == srv.rest /\ (op.type = "A" => srv.restA)

\* RETR begins.  A start point that is refused becomes 0, and the local file is
\* sought to its beginning, which does not matter to one that is open to append.
GetStarts ==
  /\ pc = "start" /\ op.kind = "GET" /\ remote["dst"].there
  /\ LET start == IF RESTAccepted THEN w.start ELSE 0
     IN w' = [w EXCEPT !.start = start, !.base = local.data,
                       !.wire = From(ToNet(remote["dst"].data, op.type), start)]
  /\ mixed' = IF w.start # 0 /\ ~RESTAccepted THEN {"dst"} ELSE mixed
  /\ pc' = "transfer"
  /\ UNCHANGED <<local, remote, srv, cip, now, used, op, calls>>

\* The file is not there or is refused: a local file that was emptied is removed.
GetStartFails ==
  /\ pc = "start" /\ op.kind = "GET"
  /\ local' = IF w.zaction = "Overwrite" /\ ~op.append THEN NoFile ELSE local
  /\ Return("error")
  /\ UNCHANGED <<remote, srv, cip, now, used, mixed, calls>>

Received(k) == [local EXCEPT !.data = w.base \o FromNet(SubSeq(w.wire, 1, k), op.type),
                             !.mtime = IF k > 0 THEN now ELSE @]

GetEnds ==
  /\ pc = "transfer" /\ op.kind = "GET"
  /\ local' = Stamped(Received(Len(w.wire)))
  /\ DeletesSource("ok")
  /\ UNCHANGED <<remote, srv, cip, now, used, mixed, calls>>

\* A timeout, a cancel or a lost connection: what has come is kept and stamped.
GetBreaks ==
  /\ pc = "transfer" /\ op.kind = "GET"
  /\ \E k \in 0 .. Len(w.wire) : local' = Stamped(Received(k))
  /\ Return("error")
  /\ UNCHANGED <<remote, srv, cip, now, used, mixed, calls>>

\* The process ends: only utimeBlocks has stamped what has come.
GetKilled ==
  /\ pc = "transfer" /\ op.kind = "GET"
  /\ \E k \in 0 .. Len(w.wire) :
       local' = IF UtimeBlocks /\ k > 0 THEN Stamped(Received(k)) ELSE Received(k)
  /\ Return("error")
  /\ UNCHANGED <<remote, srv, cip, now, used, mixed, calls>>

\* FTPDelete, or a server that refuses it.
DeleteRemote ==
  /\ pc = "delete" /\ Downloads
  /\ remote' = [remote EXCEPT !["dst"] = NoFile]
  /\ Return(w.res)
  /\ UNCHANGED <<local, srv, cip, now, used, mixed, calls>>

DeleteRefused ==
  /\ pc = "delete" /\ Downloads
  /\ Return(IF w.res = "ok" /\ w.zaction # "none" THEN "error" ELSE w.res)
  /\ UNCHANGED <<local, remote, srv, cip, now, used, mixed, calls>>

------------------------------------------------------------------------------
(* FTPPutOneF's decision *)

LocalSize == Size(local.data, op.type)

\* The confirmation procedure is asked about a file that is known to be there.
Confirms ==
  /\ op.answer # "none"
  /\ \/ w.mdtm # Unknown \/ w.size # Unknown
     \/ cip.hasMDTM # "yes" /\ cip.hasSIZE # "yes" /\ remote[Target].there

LocalIsNewer == w.mdtm # Unknown /\ local.mtime > w.mdtm + 1

CanResumePut == srv.rest \/ cip.hasAPPE = "yes"

GuessPut ==
  IF LocalIsNewer THEN "Overwrite"
  ELSE IF LocalSize = w.size THEN "Same"
  ELSE IF /\ w.size # Unknown /\ LocalSize > w.size /\ CanResumePut
          /\ op.batch # 0 => w.mdtm # Unknown /\ w.mdtm >= op.batch
  THEN "Resume"
  ELSE "Overwrite"

PutAction ==
  IF Confirms THEN op.answer
  ELSE IF op.append THEN "Append"
  ELSE IF op.resume THEN GuessPut
  ELSE "Overwrite"

PutNotNeeded ==
  /\ pc = "decide" /\ op.kind = "PUT"
  /\ \/ PutAction = "Same" /\ DeletesSource("same")
     \/ PutAction = "Skip" /\ Skips
     \/ PutAction = "Resume" /\ LocalSize = w.size /\ DeletesSource("ok")
  /\ UNCHANGED <<local, remote, srv, cip, now, used, mixed, calls>>

PutCanceled ==
  /\ pc = "decide" /\ op.kind = "PUT" /\ PutAction = "Cancel" /\ Return("error")
  /\ UNCHANGED <<local, remote, srv, cip, now, used, mixed, calls>>

\* STOR or APPE, from `start' of the local file's wire form on.
PutOpens(z, start, append) ==
  /\ w' = [w EXCEPT !.zaction = z, !.start = start, !.append = append]
  /\ pc' = "start"
  /\ UNCHANGED <<local, remote, srv, cip, now, used, mixed, op, calls>>

PutOverwrites ==
  /\ pc = "decide" /\ op.kind = "PUT" /\ PutAction = "Overwrite"
  /\ PutOpens("Overwrite", 0, FALSE)

PutAppends ==
  /\ pc = "decide" /\ op.kind = "PUT" /\ PutAction = "Append"
  /\ PutOpens("Append", 0, TRUE)

\* Text is resumed with APPE, or sent anew when the place cannot be found.
PutResumes ==
  /\ pc = "decide" /\ op.kind = "PUT" /\ PutAction = "Resume" /\ LocalSize # w.size
  /\ IF op.type = "A"
     THEN IF w.size >= 0 /\ Seekable(local.data, w.size)
          THEN PutOpens("Append", w.size, TRUE)
          ELSE PutOpens("Resume", 0, FALSE)
     ELSE IF srv.rest /\ w.size # Unknown
          THEN PutOpens("Resume", w.size, FALSE)
          ELSE PutOpens("Resume", 0, FALSE)

------------------------------------------------------------------------------
(* FTPPutOneF's transfer *)

PutStarts ==
  /\ pc = "start" /\ Uploads /\ local.there
  /\ LET old  == remote[Target].data
         base == IF w.append THEN old ELSE SubSeq(old, 1, Min({w.start, Len(old)}))
     IN /\ w' = [w EXCEPT !.base = base, !.wire = From(ToNet(local.data, op.type), w.start)]
        /\ remote' = [remote EXCEPT ![Target] = File(base, now)]
  /\ mixed' = IF ~w.append /\ w.start = 0 THEN mixed \ {Target}
              ELSE IF op.append \/ op.answer # "none" \/ (w.append /\ srv.mlst)
              THEN mixed \cup {Target} ELSE mixed
  /\ pc' = "transfer"
  /\ UNCHANGED <<local, srv, cip, now, used, op, calls>>

PutStartFails ==
  /\ pc = "start" /\ Uploads /\ Return("error")
  /\ UNCHANGED <<local, remote, srv, cip, now, used, mixed, calls>>

Stored(k) == [remote EXCEPT ![Target] =
                File(w.base \o FromNet(SubSeq(w.wire, 1, k), op.type), now)]

\* The upload is complete; only an upload by STOR is renamed.
PutEnds ==
  /\ pc = "transfer" /\ op.kind = "PUT"
  /\ remote' = Stored(Len(w.wire))
  /\ w' = [w EXCEPT !.res = "ok"]
  /\ cip' = [cip EXCEPT !.hasAPPE = IF w.append THEN "yes" ELSE @]
  /\ pc' = IF op.tmp /\ ~w.append THEN "rename" ELSE "utime"
  /\ UNCHANGED <<local, srv, now, used, mixed, op, calls>>

PutGoesOn ==
  /\ pc = "transfer" /\ op.kind = "PUT"
  /\ \E k \in 0 .. Len(w.wire) : remote' = Stored(k)
  /\ pc' = IF op.tmp /\ ~w.append THEN "rename" ELSE "utime"
  /\ w' = [w EXCEPT !.res = "ok"]
  /\ UNCHANGED <<local, srv, cip, now, used, mixed, op, calls>>

\* What has arrived stays.  The server does not store half an end of line.
PutBreaks ==
  /\ pc = "transfer" /\ Uploads
  /\ \E k \in 0 .. Len(w.wire) :
       /\ k > 0 => w.wire[k] # CR
       /\ remote' = Stored(k)
  /\ Return("error")
  /\ UNCHANGED <<local, srv, cip, now, used, mixed, calls>>

\* FTPRename: the server may refuse a name that is taken.
Renames ==
  /\ remote' = [remote EXCEPT !["dst"] = remote["tmp"], !["tmp"] = NoFile]
  /\ mixed' = IF "tmp" \in mixed THEN {"dst"} ELSE {}

Rename ==
  /\ pc = "rename" /\ (srv.over \/ ~remote["dst"].there)
  /\ Renames /\ pc' = "utime"
  /\ UNCHANGED <<local, srv, cip, now, used, op, w, calls>>

\* Then the file of that name is deleted ...
RenameRefused ==
  /\ pc = "rename" /\ remote["dst"].there /\ ~srv.over
  /\ remote' = [remote EXCEPT !["dst"] = NoFile] /\ pc' = "rename2"
  /\ UNCHANGED <<local, srv, cip, now, used, mixed, op, w, calls>>

\* ... and the upload is renamed once more.
RenameAgain ==
  /\ pc = "rename2" /\ Renames /\ pc' = "utime"
  /\ UNCHANGED <<local, srv, cip, now, used, op, w, calls>>

\* Either may fail for want of permission; the upload keeps its temporary name.
RenameFails ==
  /\ pc \in {"rename", "rename2"}
  /\ w' = [w EXCEPT !.res = "error"] /\ pc' = "utime"
  /\ UNCHANGED <<local, remote, srv, cip, now, used, mixed, op, calls>>

\* FTPUtime gives the file of the final name the local file's time, as it is by
\* now, also when the upload has kept its temporary name.  It may fail.
SetTime ==
  /\ pc = "utime"
  /\ remote' \in {remote} \cup (IF ~remote["dst"].there THEN {}
                                ELSE {[remote EXCEPT !["dst"].mtime = local.mtime]})
  /\ mixed' = IF op.tmp /\ (w.append \/ w.res = "error") THEN mixed \cup {"dst"} ELSE mixed
  /\ IF w.res = "ok" THEN DeletesSource("ok") ELSE Return(w.res)
  /\ UNCHANGED <<local, srv, cip, now, used, calls>>

DeleteLocal ==
  /\ pc = "delete" /\ op.kind = "PUT"
  /\ local' = NoFile /\ Return(w.res)
  /\ UNCHANGED <<remote, srv, cip, now, used, mixed, calls>>

------------------------------------------------------------------------------
(* The application's memory in place of the local file, always in binary *)

FTPGetFileToMemory ==
  /\ pc = "idle" /\ op.kind = "GETMEM" /\ calls < MaxCalls
  /\ \E start \in MemStarts, room \in MemRooms, delete \in BOOLEAN :
       op' = [op EXCEPT !.start = start, !.room = room, !.delete = delete]
  /\ local' = File(<<>>, now) /\ mixed' = {}
  /\ w' = NoLocals /\ calls' = calls + 1 /\ pc' = "askSize"
  /\ UNCHANGED <<remote, srv, cip, now, used>>

\* A start point behind the end leaves nothing to fetch; a size that is not known is
\* -1, and so every start point is behind it.
AskMemSize ==
  /\ pc = "askSize" /\ (op.start = 0 \/ srv.rest)
  /\ \E answered \in BOOLEAN :
       LET size == IF answered THEN Len(remote["dst"].data) ELSE Unknown
       IN /\ answered => srv.size /\ remote["dst"].there
          /\ IF size # 0 /\ op.start > size THEN Skips
             ELSE pc' = "start" /\ w' = [w EXCEPT !.size = size, !.start = op.start] /\ UNCHANGED op
  /\ UNCHANGED <<local, remote, srv, cip, now, used, mixed, calls>>

\* No REST, or RETR fails, or the start point was refused after all.
GetMemFails ==
  /\ \/ pc = "askSize" /\ op.start # 0 /\ ~srv.rest
     \/ pc = "start" /\ op.kind = "GETMEM"
  /\ Return("error")
  /\ UNCHANGED <<local, remote, srv, cip, now, used, mixed, calls>>

GetMemStarts ==
  /\ pc = "start" /\ op.kind = "GETMEM" /\ remote["dst"].there
  /\ w' = [w EXCEPT !.zaction = "Overwrite", !.wire = From(remote["dst"].data, w.start)]
  /\ pc' = "transfer"
  /\ UNCHANGED <<local, remote, srv, cip, now, used, mixed, op, calls>>

\* What fits is read, and the rest of the transfer is aborted.
Fits == Min({op.room, Len(w.wire)})
Filled(k) == [local EXCEPT !.data = SubSeq(w.wire, 1, k)]

GetMemEnds ==
  /\ pc = "transfer" /\ op.kind = "GETMEM"
  /\ local' = Filled(Fits) /\ DeletesSource("ok")
  /\ UNCHANGED <<remote, srv, cip, now, used, mixed, calls>>

GetMemBreaks ==
  /\ pc = "transfer" /\ op.kind = "GETMEM"
  /\ \E k \in 0 .. Fits : local' = Filled(k)
  /\ Return("error")
  /\ UNCHANGED <<remote, srv, cip, now, used, mixed, calls>>

\* STOR or APPE of the memory at once; it starts and breaks as PutStarts and
\* PutBreaks have it, and has no name or time to give.
FTPPutFileFromMemory ==
  /\ pc = "idle" /\ op.kind = "PUTMEM" /\ calls < MaxCalls
  /\ \E append \in BOOLEAN :
       /\ op' = [op EXCEPT !.append = append]
       /\ w' = [NoLocals EXCEPT !.append = append]
  /\ calls' = calls + 1 /\ pc' = "start"
  /\ UNCHANGED <<local, remote, srv, cip, now, used, mixed>>

PutMemEnds ==
  /\ pc = "transfer" /\ op.kind = "PUTMEM"
  /\ remote' = Stored(Len(w.wire)) /\ Return("ok")
  /\ UNCHANGED <<local, srv, cip, now, used, mixed, calls>>

------------------------------------------------------------------------------
(* The rest of the world *)

\* The process ends between two steps.
Stops ==
  /\ pc \in {"ask", "askMDTM", "askSize", "decide", "rename", "rename2", "utime"}
  /\ Return("error")
  /\ UNCHANGED <<local, remote, srv, cip, now, used, mixed, calls>>

\* The source is given new contents, a while after its last ones; the memory not
\* during a call.
Edit ==
  /\ op.kind = "PUTMEM" => pc = "idle"
  /\ now + 2 <= MaxNow /\ now' = now + 2
  /\ \E v \in Versions \ used :
       /\ used' = used \cup {v}
       /\ IF Downloads
          THEN remote' = [remote EXCEPT !["dst"] = File(Text(v), now + 2)] /\ UNCHANGED local
          ELSE local' = File(Text(v), now + 2) /\ UNCHANGED remote
  /\ mixed' = IF pc = "idle" THEN mixed ELSE mixed \cup {Target, "dst"}
  /\ UNCHANGED <<srv, cip, pc, op, w, calls>>

\* Time passes between the calls; what passes during one is Edit's.
Tick ==
  /\ pc = "idle" /\ now + 2 <= MaxNow /\ now' = now + 2
  /\ UNCHANGED <<local, remote, srv, cip, used, mixed, pc, op, w, calls>>

Get == \/ FTPGetOneF \/ GetSame \/ GetSkip \/ GetRefuses \/ GetOverwrites \/ GetResumes
       \/ GetAppends \/ GetAppendsNothing \/ GetStarts \/ GetStartFails \/ GetEnds
       \/ GetBreaks \/ GetKilled \/ DeleteRemote \/ DeleteRefused

Put == \/ FTPPutOneF \/ PutNotNeeded \/ PutCanceled \/ PutOverwrites \/ PutAppends
       \/ PutResumes \/ PutStarts \/ PutStartFails \/ PutEnds \/ PutBreaks \/ Rename
       \/ RenameRefused \/ RenameAgain \/ RenameFails \/ SetTime \/ DeleteLocal

Memory == \/ FTPGetFileToMemory \/ AskMemSize \/ GetMemFails \/ GetMemStarts \/ GetMemEnds
          \/ GetMemBreaks \/ FTPPutFileFromMemory \/ PutMemEnds

Ask == AskMLST \/ AskSIZE \/ AskMDTM \/ AskFails \/ DoNotAsk

Next == Get \/ Put \/ Memory \/ Ask \/ Stops \/ Edit \/ Tick

Spec == Init /\ [][Next]_vars

------------------------------------------------------------------------------
(* Properties *)

\* Every variable holds what its declaration says.
TypeOK ==
  /\ \A f \in {local, remote["dst"], remote["tmp"]} :
       f.there \in BOOLEAN /\ f.mtime \in 0 .. MaxNow /\ (f.there \/ f = NoFile)
  /\ srv \in Servers /\ used \subseteq Versions /\ mixed \subseteq Names
  /\ now \in 1 .. MaxNow /\ calls \in 0 .. MaxCalls
  /\ \A h \in DOMAIN cip : cip[h] \in {"unknown", "yes", "no"}
  /\ pc \in {"idle", "ask", "askMDTM", "askSize", "decide", "start", "transfer", "rename",
             "rename2", "utime", "delete"}
  /\ w.size \in Int /\ w.start \in Nat /\ w.mdtm \in {Unknown} \cup 0 .. MaxNow
  /\ w.res \in {"none", "ok", "same", "error"} /\ w.skipped \in BOOLEAN

Source == IF Downloads THEN remote["dst"].data ELSE local.data
Destination == IF Downloads THEN local.data ELSE remote["dst"].data

\* What is asked for of the source: all of it, or what a piece of memory has room for.
Wanted == IF op.kind # "GETMEM" THEN Source
          ELSE SubSeq(Source, op.start + 1, Min({op.start + op.room, Len(Source)}))

\* The server tells both the size and the time of a file, in the terms of the
\* type, and takes start points.
Recognises ==
  /\ srv.mlst \/ (srv.size /\ srv.mdtm)
  /\ op.type = "A" => ~srv.mlst /\ srv.sizeA /\ srv.restA

\* Nothing but beginnings of one version has gone into the destination, and the
\* source has stayed as it is during the call.
Clean == op.answer = "none" /\ ~op.append /\ mixed \cap {Target, "dst"} = {}

\* A get or a put that is not an append and reports success, or that the files
\* are the same, has left the destination what was asked of the source, however often the
\* transfer was interrupted, killed and resumed before, whatever became of the
\* source between the calls, and with the time heuristics on (io_get.c:175-287,
\* io_put.c:366-419).  Excepted are uploads with a temporary name, and a success that is
\* none: a get that is told no size and finds a local file, be it a part, leaves it as it
\* is and returns kNoErr (io_get.c:288-297, 310-314), and so does one into memory that is
\* told no size or a smaller one than its start (io_getmem.c:59-64).
Whole ==
  [][pc # "idle" /\ pc' = "idle" /\ w'.res \in {"ok", "same"}
       /\ Clean /\ Recognises /\ ~op.tmp
     => Destination' = Wanted \/ w'.skipped]_vars

\* The library deletes a source only when its contents are at the destination,
\* under the temporary name at least (io_get.c:855, io_put.c:423-451 and 836).
\* Excepted are gets that skip the transfer, for want of a size, and delete the file
\* all the same (io_get.c:312, io_getmem.c:61), and memory that does not hold it all.
Deletes == local.there # local'.there \/ remote["dst"].there # remote'["dst"].there

DeletedIsSaved ==
  [][pc = "delete" /\ ~w.skipped /\ Clean /\ Recognises /\ Deletes /\ Wanted = Source
     => Source \in {Destination', remote'["tmp"].data}]_vars

\* While a file is uploaded under a temporary name, nobody sees a part of it under
\* its own: that name keeps its old contents until the whole upload takes it,
\* except that it may be free in between (io_put.c:814-829).
NeverPartial ==
  [][op.tmp /\ Clean /\ Recognises
       /\ remote'["dst"].there /\ remote'["dst"].data # remote["dst"].data
     => pc \in {"rename", "rename2"} /\ remote'["dst"].data = local.data]_vars
==============================================================================
