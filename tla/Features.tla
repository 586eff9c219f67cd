------------------------------ MODULE Features ------------------------------
(***************************************************************************)
(* What the library learns of a server, and what it asks with what it has  *)
(* learnt: the has... fields of the FTPConnectionInfo, from FEAT, from the *)
(* manual overrides and from refusals (open.c, u_feat.c, c_*.c), and the   *)
(* calls that try one command after the other: FTPFileSize,                *)
(* FTPFileModificationTime, FTPFileSizeAndModificationTime, FTPFileExists, *)
(* FTPFileType, FTPUtime.                                                  *)
(*                                                                         *)
(* One item on the server is asked about.  A command with its reply is one *)
(* step; between two of them another client may change the item, and the   *)
(* server may refuse, for want of permission, what it could have done.     *)
(***************************************************************************)
EXTENDS Integers, Sequences, FiniteSets, SequencesExt

CONSTANTS
  Servers,     \* the servers that the session may be with
  Overrides,   \* what manualOverrideFeatures may say: functions of commands
  Items,       \* what the item may be
  MaxOpens,    \* bound on the sessions
  MaxCalls,    \* bound on the calls
  MaxMeddles,  \* bound on the changes by other clients
  MaxDenials   \* bound on the refusals

\* "MDTM_set" is MDTM with a time, "STAT" and "NLST" are those with a file.
Commands == {"FEAT", "SIZE", "MDTM", "MLST", "MFF", "MFMT", "UTIME", "MDTM_set", "STAT", "NLST"}
Listed   == {"SIZE", "MDTM", "MLST", "MFF", "MFMT", "UTIME"}
Kinds    == {"other", "Microsoft", "NetWare", "Dgux", "WuFTPd", "NcFTPd", "Roxen"}
Server   == [kind: Kinds, does: SUBSET Commands, sizeA: BOOLEAN, dirs: BOOLEAN,
             facts: BOOLEAN, param: {"yes", "ignored"}, entries: BOOLEAN,
             compliant: BOOLEAN]
Item     == [kind: {"none", "file", "dir"}, bytes: Nat, mtime: Nat]

ASSUME ConstantsAssumption ==
  /\ Servers \subseteq Server /\ Items \subseteq Item
  /\ \A o \in Overrides : DOMAIN o \subseteq Commands \ {"MFF"} /\ \A c \in DOMAIN o : o[c] \in {"yes", "no"}
  /\ {MaxOpens, MaxCalls, MaxMeddles, MaxDenials} \subseteq Nat

\* The servers are what FTPQueryFeatures presumes of their kind and age (open.c:450-625).
ASSUME KindsAssumption ==
  \A s \in Servers :
    /\ s.kind = "NetWare" =>
         s.does \cap {"FEAT", "SIZE", "MDTM", "MLST", "UTIME"} = {} /\ "NLST" \in s.does
    /\ s.kind = "Microsoft" => "UTIME" \notin s.does
    /\ s.kind = "Dgux" => s.does \cap {"MLST", "UTIME", "MFMT", "MFF"} = {}
    /\ s.kind \in {"WuFTPd", "NcFTPd"} => {"SIZE", "MDTM", "NLST"} \subseteq s.does
    /\ "FEAT" \notin s.does => s.does \cap {"MLST", "MFMT", "MFF"} = {}

Unknown == -1

VARIABLES
  srv,       \* the server
  feat,      \* whether FEAT's reply has been read, and, history, whether FEAT was refused
             \* when it was last asked
  item,      \* the item
  over,      \* manualOverrideFeatures
  has,       \* the has... fields
  usedMLS,   \* cip->usedMLS
  opts,      \* whether this session's server has been sent OPTS MLST
  plan,      \* what the call has still to try
  call,      \* the call: its name, parameters, locals and result
  sent,      \* the command of the last step
  refused,   \* history: the commands that the server has called unimplemented
  seen,      \* history: what the item has been during the call
  opens, calls, meddles, denials

vars == <<srv, feat, item, over, has, usedMLS, opts, plan, call, sent, refused, seen,
          opens, calls, meddles, denials>>
world == <<srv, feat, item, over, seen, opens, calls, meddles>>

------------------------------------------------------------------------------
(* The server *)

\* How many bytes would be transferred; a file is one line of text.
SizeAs(i, type) == IF type = "A" THEN i.bytes + 1 ELSE i.bytes

\* Whether the command, which the server has, does what it is asked.
Can(c, type) ==
  CASE c = "SIZE" -> item.kind = "file" /\ (type = "A" => srv.sizeA)
    [] c = "MDTM" -> item.kind = "file" \/ (item.kind = "dir" /\ srv.dirs)
    [] OTHER      -> item.kind # "none"

\* "ok", "refused", or "unimplemented": 500, 502, 504.  A server that does not
\* know that MDTM sets times takes the time for a part of the name (550).
Replies(c, type) ==
  IF c = "MDTM_set" /\ c \notin srv.does /\ "MDTM" \in srv.does THEN {"refused"}
  ELSE IF c \notin srv.does THEN {"unimplemented"}
  ELSE IF ~Can(c, type) THEN {"refused"}
  ELSE {"ok"} \cup (IF denials < MaxDenials THEN {"refused"} ELSE {})

------------------------------------------------------------------------------
(* Opening a session: FTPQueryFeatures *)

NoCall == [name |-> "none", type |-> "I", want |-> 0, size |-> Unknown,
           mdtm |-> Unknown, create |-> FALSE, res |-> "none", denied |-> FALSE]

Init ==
  /\ srv \in Servers /\ item \in Items /\ over \in Overrides
  /\ feat = [listed |-> FALSE, refused |-> FALSE]
  /\ has = [c \in Commands |-> "unknown"] /\ usedMLS = FALSE /\ opts = FALSE
  /\ plan = <<>> /\ call = NoCall /\ sent = "none" /\ refused = {} /\ seen = {item}
  /\ opens = 0 /\ calls = 0 /\ meddles = 0 /\ denials = 0

IsNext(c) == plan # <<>> /\ Head(plan) = c

\* FTPManualOverrideFeatures.
Overridden(h) == [c \in Commands |-> IF c \in DOMAIN over THEN over[c] ELSE h[c]]

\* What is presumed of a kind of server before it is asked.
Presumed(h) ==
  [c \in Commands |->
     IF srv.kind = "NetWare" /\ c \in {"SIZE", "MDTM", "MDTM_set", "MLST", "UTIME"} THEN "no"
     ELSE IF srv.kind = "NetWare" /\ c = "NLST" THEN "yes"
     ELSE IF srv.kind = "Microsoft" /\ c = "UTIME" THEN "no"
     ELSE IF srv.kind = "Dgux" /\ c \in {"MLST", "UTIME", "MFMT", "MFF"} THEN "no"
     ELSE IF srv.kind \in {"WuFTPd", "NcFTPd"} /\ c \in {"SIZE", "MDTM", "NLST"} THEN "yes"
     ELSE IF srv.kind = "WuFTPd" /\ c = "MDTM_set" THEN "yes"
     ELSE h[c]]

\* FTPOpenHost: what earlier sessions have learnt stays, and so does usedMLS.
FTPOpenHost ==
  /\ plan = <<>> /\ opens < MaxOpens /\ opens' = opens + 1
  /\ call' = [NoCall EXCEPT !.name = "Open"] /\ opts' = FALSE /\ refused' = {}
  /\ has' = Presumed(Overridden(has))
  /\ plan' = <<IF srv.kind = "NetWare" \/ has'["FEAT"] = "no" THEN "opened" ELSE "FEAT">>
  /\ sent' = "none" /\ seen' = {item}
  /\ UNCHANGED <<srv, feat, item, over, usedMLS, calls, meddles, denials>>

\* A server that does not answer FEAT is taken to have none of the newer commands,
\* be it for the lack of FEAT or for the moment only.
LearntFromFEAT(h, r) ==
  IF r = "ok"
  THEN [c \in Commands |-> IF c = "FEAT" \/ c \in Listed \cap srv.does THEN "yes" ELSE h[c]]
  ELSE [h EXCEPT !["MLST"] = "no", !["MFMT"] = "no", !["MFF"] = "no"]

\* What the reply lists is kept for later sessions.
AskFEAT ==
  /\ IsNext("FEAT") /\ sent' = "FEAT" /\ plan' = <<"opened">>
  /\ \E r \in {"ok", "refused", "unimplemented"} :
       /\ (r = "unimplemented") = ("FEAT" \notin srv.does)
       /\ r = "refused" => denials < MaxDenials
       /\ denials' = IF r = "refused" THEN denials + 1 ELSE denials
       /\ feat' = [listed |-> feat.listed \/ r = "ok", refused |-> r = "refused"]
       /\ has' = LearntFromFEAT(has, r)
  /\ UNCHANGED <<srv, item, over, seen, opens, calls, meddles, usedMLS, opts, call, refused>>

Opened ==
  /\ IsNext("opened")
  /\ has' = Overridden(has) /\ plan' = <<>> /\ sent' = "none"
  /\ call' = [call EXCEPT !.res = "ok"]
  /\ UNCHANGED <<world, usedMLS, opts, refused, denials>>

------------------------------------------------------------------------------
(* The calls: what each tries, in this order *)

Plans == [FileSize |-> <<"SIZE">>, ModTime |-> <<"MDTM">>,
          SizeTime |-> <<"MLST", "SIZE", "MDTM">>,
          Exists   |-> <<"MDTM", "SIZE", "MLST", "STAT", "NLST">>,
          FileType |-> <<"MLST", "CWD", "MDTM", "SIZE", "STAT", "NLST">>,
          Utime    |-> <<"MFF", "MFMT", "UTIME", "MDTM_set">>]

Call(name) ==
  /\ plan = <<>> /\ opens > 0 /\ calls < MaxCalls /\ calls' = calls + 1
  /\ plan' = Plans[name] /\ seen' = {item} /\ sent' = "none"
  /\ UNCHANGED <<srv, feat, item, over, has, usedMLS, opts, refused, opens, meddles, denials>>

FTPFileSize ==
  Call("FileSize") /\ \E t \in {"A", "I"} : call' = [NoCall EXCEPT !.name = "FileSize", !.type = t]
FTPFileModificationTime ==
  Call("ModTime") /\ call' = [NoCall EXCEPT !.name = "ModTime"]
FTPFileSizeAndModificationTime ==
  Call("SizeTime") /\ \E t \in {"A", "I"} : call' = [NoCall EXCEPT !.name = "SizeTime", !.type = t]
FTPFileExists == Call("Exists") /\ call' = [NoCall EXCEPT !.name = "Exists"]
FTPFileType == Call("FileType") /\ call' = [NoCall EXCEPT !.name = "FileType"]
FTPUtime ==
  Call("Utime") /\ \E t \in {7, 8}, cr \in BOOLEAN :
                     call' = [NoCall EXCEPT !.name = "Utime", !.want = t, !.create = cr]

\* What becomes of the call when command c has come out as `out': "ok", "refused",
\* "unavailable" when the server does not have it, "passed" when it is not sent.
Tries(rest)  == [plan |-> rest, res |-> "none"]
Ends(result) == [plan |-> <<>>, res |-> result]

AfterExistsHasty(c, out) ==
  IF out = "ok" THEN Ends("yes")
  ELSE IF c # "SIZE" THEN Ends("no") ELSE Tries(Tail(plan))

AfterExists(c, out) ==
  IF out = "ok" THEN Ends("yes")
  ELSE IF out = "refused" /\ c # "SIZE" THEN Ends("no")
  ELSE IF Len(plan) > 1 THEN Tries(Tail(plan)) ELSE Ends("cannotTell")

\* FTPFileType: anything but a "no" means that the item exists.
AfterType(c, out) ==
  IF c \in {"MLST", "CWD"}
  THEN IF out = "ok" THEN Ends(IF c = "CWD" THEN "dir" ELSE item.kind) ELSE Tries(Tail(plan))
  ELSE LET e == AfterExists(c, out)
       IN IF e.res \in {"none", "no"} THEN e ELSE Ends("exists")

AfterUtimeWithoutMDTM(c, out) ==
  IF out = "ok" THEN Ends("ok")
  ELSE IF c \in {"UTIME", "MDTM_set"} THEN Ends(IF out = "refused" THEN "failed" ELSE "unavailable")
  ELSE Tries(Tail(plan))

\* FTPUtime goes on after a refused MFF, but not to MDTM unless UTIME has just
\* turned out to be missing.
AfterUtime(c, out) ==
  IF out = "ok" THEN Ends("ok")
  ELSE IF c = "MDTM_set" THEN Ends("unavailable")
  ELSE IF out = "refused" /\ c # "MFF" THEN Ends("failed")
  ELSE IF out = "passed" /\ c = "UTIME" /\ call.denied THEN Ends("failed")
  ELSE Tries(Tail(plan))

After(c, out) ==
  CASE call.name = "SizeTime" /\ c = "MLST" -> IF out = "ok" THEN Ends("ok") ELSE Tries(Tail(plan))
    [] call.name = "SizeTime" /\ c = "SIZE" -> IF out = "ok" THEN Tries(Tail(plan)) ELSE Ends(out)
    [] call.name = "Exists"                 -> AfterExists(c, out)
    [] call.name = "FileType"               -> AfterType(c, out)
    [] call.name = "Utime"                  -> AfterUtime(c, out)
    [] OTHER                                -> Ends(out)

\* The command is not sent, because the server is known not to have it.
Passes(c) ==
  /\ LET a == After(c, "passed")
     IN plan' = a.plan /\ call' = [call EXCEPT !.res = a.res]
  /\ sent' = "none"
  /\ UNCHANGED <<world, has, usedMLS, opts, refused, denials>>

\* The reply came; size and time are what the reply says.
Got(c, r, size, mdtm) ==
  LET out == IF r = "unimplemented" THEN "unavailable" ELSE r
      a   == After(c, out)
  IN /\ plan' = a.plan
     /\ call' = [call EXCEPT !.res = a.res, !.denied = @ \/ r = "refused",
                             !.size = IF r = "ok" /\ size # Unknown THEN size ELSE @,
                             !.mdtm = IF r = "ok" /\ mdtm # Unknown THEN mdtm ELSE @]
     /\ refused' = IF r = "unimplemented" THEN refused \cup {c} ELSE refused
     /\ sent' = c

Denied(c, r, type) ==
  denials' = IF r = "refused" /\ c \in srv.does /\ Can(c, type) THEN denials + 1 ELSE denials

\* SIZE and MDTM.  FTPFileExists asks for the size in binary, as NoCall has it.
Type == call.type

AskSIZE ==
  /\ IsNext("SIZE")
  /\ \/ has["SIZE"] = "no" /\ Passes("SIZE")
     \/ /\ has["SIZE"] # "no"
        /\ \E r \in Replies("SIZE", Type) :
             /\ Got("SIZE", r, SizeAs(item, Type), Unknown) /\ Denied("SIZE", r, Type)
             /\ has' = [has EXCEPT !["SIZE"] = IF r = "ok" THEN "yes"
                                               ELSE IF r = "unimplemented" THEN "no" ELSE @]
        /\ UNCHANGED <<world, usedMLS, opts>>

\* Without MDTM there is no MDTM that sets times either.
LearntFromMDTMOnOk(h, r) == IF r = "ok" THEN [h EXCEPT !["MDTM"] = "yes"] ELSE h

LearntFromMDTM(h, r) ==
  IF r = "ok" THEN [h EXCEPT !["MDTM"] = "yes"]
  ELSE IF r = "unimplemented" THEN [h EXCEPT !["MDTM"] = "no", !["MDTM_set"] = "no"] ELSE h

AskMDTM ==
  /\ IsNext("MDTM")
  /\ \/ has["MDTM"] = "no" /\ Passes("MDTM")
     \/ /\ has["MDTM"] # "no"
        /\ \E r \in Replies("MDTM", "I") :
             /\ Got("MDTM", r, Unknown, item.mtime) /\ Denied("MDTM", r, "I")
             /\ has' = LearntFromMDTM(has, r)
        /\ UNCHANGED <<world, usedMLS, opts>>

\* The facts that a server's FEAT lists for MLST are asked for with OPTS; here they
\* are the ones the calls need.
FactsListed == feat.listed

\* The MLST of Roxen is of another draft, and so is NcFTPd's unless its FEAT has told of
\* a compliance level that is recent.
NoMLST ==
  \/ has["MLST"] = "no" \/ srv.kind = "Roxen"
  \/ srv.kind = "NcFTPd" /\ ~(feat.listed /\ srv.compliant)

\* FTPRequestMlsOptions before the first MLST asks for them.
RequestMlsOptions ==
  /\ IsNext("MLST") /\ ~usedMLS /\ ~NoMLST
  /\ usedMLS' = TRUE /\ opts' = FactsListed /\ sent' = IF opts' THEN "OPTS" ELSE "none"
  /\ UNCHANGED <<world, has, plan, call, refused, denials>>

\* Which facts the reply has is the server's choice until it is told.
AskMLST ==
  /\ IsNext("MLST")
  /\ \/ NoMLST /\ Passes("MLST")
     \/ /\ ~NoMLST /\ usedMLS
        /\ \E r \in Replies("MLST", "I") :
             /\ Got("MLST", r, IF opts \/ srv.facts THEN item.bytes ELSE Unknown,
                    IF opts \/ srv.facts THEN item.mtime ELSE Unknown)
             /\ Denied("MLST", r, "I")
             /\ has' = [has EXCEPT !["MLST"] = IF r = "unimplemented" THEN "no" ELSE @]
        /\ UNCHANGED <<world, usedMLS, opts>>

\* FTPFileType tries to enter the item.
AskCWD ==
  /\ IsNext("CWD")
  /\ \E r \in {"ok", "refused"} :
       /\ r = "ok" => item.kind = "dir"
       /\ r = "refused" => item.kind # "dir" \/ denials < MaxDenials
       /\ Got("CWD", r, Unknown, Unknown)
       /\ denials' = IF r = "refused" /\ item.kind = "dir" THEN denials + 1 ELSE denials
  /\ UNCHANGED <<world, has, usedMLS, opts>>

------------------------------------------------------------------------------
(* FTPUtime *)

Sets(r) == IF r = "ok" THEN item' = [item EXCEPT !.mtime = call.want] /\ seen' = seen \cup {item'}
           ELSE UNCHANGED <<item, seen>>

\* MFF, which sets the time of creation too, and MFMT are sent only to a server that
\* has listed them; whatever goes wrong with them is a refusal, and forgotten.
AskListed(c) ==
  /\ IsNext(c)
  /\ \/ (has[c] # "yes" \/ (c = "MFF" /\ ~call.create)) /\ Passes(c)
     \/ /\ has[c] = "yes" /\ (c = "MFF" => call.create)
        /\ \E r \in Replies(c, "I") :
             /\ Got(c, IF r = "ok" THEN "ok" ELSE "refused", Unknown, Unknown)
             /\ Denied(c, r, "I") /\ Sets(r)
        /\ UNCHANGED <<srv, feat, over, has, usedMLS, opts, opens, calls, meddles>>

AskMFF  == AskListed("MFF")
AskMFMT == AskListed("MFMT")

LearntFromUTIMERefused(h, r) == [h EXCEPT !["UTIME"] = IF r = "ok" THEN "yes" ELSE "no"]

LearntFromUTIME(h, r) ==
  [h EXCEPT !["UTIME"] = IF r = "ok" THEN "yes" ELSE IF r = "unimplemented" THEN "no" ELSE @]

AskUTIME ==
  /\ IsNext("UTIME")
  /\ \/ has["UTIME"] = "no" /\ Passes("UTIME")
     \/ /\ has["UTIME"] # "no"
        /\ \E r \in Replies("UTIME", "I") :
             /\ Got("UTIME", r, Unknown, Unknown) /\ Denied("UTIME", r, "I") /\ Sets(r)
             /\ has' = LearntFromUTIME(has, r)
        /\ UNCHANGED <<srv, feat, over, usedMLS, opts, opens, calls, meddles>>

\* Any refusal by 550 says that the server does not set times by MDTM.
SetByMDTM ==
  /\ IsNext("MDTM_set")
  /\ \/ "no" \in {has["MDTM"], has["MDTM_set"]} /\ Passes("MDTM_set")
     \/ /\ "no" \notin {has["MDTM"], has["MDTM_set"]}
        /\ \E r \in Replies("MDTM_set", "I") :
             /\ Got("MDTM_set", r, Unknown, Unknown) /\ Denied("MDTM_set", r, "I") /\ Sets(r)
             /\ has' = [has EXCEPT !["MDTM_set"] = IF r = "ok" THEN "yes" ELSE "no"]
        /\ UNCHANGED <<srv, feat, over, usedMLS, opts, opens, calls, meddles>>

------------------------------------------------------------------------------
(* FTPFileExistsStat and FTPFileExistsNlst: whether STAT and NLST take a file is *)
(* found out by asking for a file that is not there, and then for one that is.  *)

\* Whether the reply has lines: a server that ignores the parameter lists the session's
\* directory, which has entries or has none.
Lines(c, there, entries) ==
  c \in srv.does /\ (there \/ (srv.param = "ignored" /\ (c = "STAT" \/ entries)))

\* The probe has come to nothing.
Fruitless(c) ==
  LET a == After(c, "unavailable")
  IN plan' = a.plan /\ call' = [call EXCEPT !.res = a.res]

\* The probe has shown that the command is of no use.
Useless(c) == Fruitless(c) /\ has' = [has EXCEPT ![c] = "no"]

EntryStep(c) == IF c = "STAT" THEN "STAT entry" ELSE "NLST entry"

ProbeMissing(c) ==
  /\ IsNext(c) /\ has[c] = "unknown" /\ sent' = c
  /\ \E entries \in BOOLEAN :
       IF Lines(c, FALSE, entries) THEN Useless(c)
       ELSE plan' = <<EntryStep(c)>> \o Tail(plan) /\ UNCHANGED <<has, call>>
  /\ UNCHANGED <<world, usedMLS, opts, refused, denials>>

\* The file that is there is the last that NLST lists of the starting directory, for
\* either command; for NLST one is made, if the server lets it, when none is listed.
\* The listing may fail, and with it the probe; when the way to the starting directory
\* is refused nothing is learnt.
ProbeEntry(c) ==
  /\ IsNext(EntryStep(c))
  /\ \/ /\ sent' = c /\ UNCHANGED denials
        /\ \/ /\ Lines(c, TRUE, TRUE) /\ (c = "STAT" => srv.entries /\ "NLST" \in srv.does)
              /\ has' = [has EXCEPT ![c] = "yes"] /\ plan' = <<c>> \o Tail(plan) /\ UNCHANGED call
           \/ Useless(c)
     \/ /\ denials < MaxDenials /\ denials' = denials + 1
        /\ sent' = "CWD" /\ Fruitless(c) /\ UNCHANGED has
  /\ UNCHANGED <<world, usedMLS, opts, refused>>

\* An empty directory is listed as nothing.
Listable == item.kind = "file" \/ (item.kind = "dir" /\ item.bytes > 0)

AskParam(c) ==
  /\ IsNext(c)
  /\ \/ has[c] = "no" /\ Passes(c)
     \/ /\ has[c] = "yes"
        /\ \E entries, denied \in BOOLEAN :
             /\ denied => denials < MaxDenials
             /\ denials' = IF denied THEN denials + 1 ELSE denials
             /\ Got(c, IF ~denied /\ Lines(c, Listable, entries) THEN "ok" ELSE "refused",
                    Unknown, Unknown)
        /\ UNCHANGED <<world, has, usedMLS, opts>>

ProbeSTAT == ProbeMissing("STAT") \/ ProbeEntry("STAT")
AskSTAT   == AskParam("STAT")
ProbeNLST == ProbeMissing("NLST") \/ ProbeEntry("NLST")
AskNLST   == AskParam("NLST")

------------------------------------------------------------------------------

\* Another client replaces, removes or makes the item.
Meddle ==
  /\ meddles < MaxMeddles /\ meddles' = meddles + 1
  /\ item' \in Items \ {item} /\ seen' = seen \cup {item'} /\ sent' = "none"
  /\ UNCHANGED <<srv, feat, over, has, usedMLS, opts, plan, call, refused, opens, calls, denials>>

Next ==
  \/ FTPOpenHost \/ AskFEAT \/ Opened
  \/ FTPFileSize \/ FTPFileModificationTime \/ FTPFileSizeAndModificationTime
  \/ FTPFileExists \/ FTPFileType \/ FTPUtime
  \/ AskSIZE \/ AskMDTM \/ RequestMlsOptions \/ AskMLST \/ AskCWD
  \/ AskMFF \/ AskMFMT \/ AskUTIME \/ SetByMDTM
  \/ ProbeSTAT \/ AskSTAT \/ ProbeNLST \/ AskNLST
  \/ Meddle

Spec == Init /\ [][Next]_vars

------------------------------------------------------------------------------
(* Properties *)

\* Every variable holds what its declaration says.
TypeOK ==
  /\ srv \in Servers /\ item.kind \in {"none", "file", "dir"} /\ over \in Overrides
  /\ feat \in [listed: BOOLEAN, refused: BOOLEAN]
  /\ has \in [Commands -> {"unknown", "yes", "no"}] /\ usedMLS \in BOOLEAN /\ opts \in BOOLEAN
  /\ refused \subseteq Commands /\ denials \in 0 .. MaxDenials
  /\ call.size \in Nat \cup {Unknown} /\ call.mdtm \in Nat \cup {Unknown}
  /\ (plan = <<>>) = (call.res # "none" \/ call.name = "none")

\* What the library has learnt of a server is so, whatever was refused or changed
\* meanwhile: it never gives up a command that the server has, nor relies on one
\* that it has not.  Excepted are MDTM with a time, which c_utime.c:176 gives up
\* knowingly, what the user has overridden, probes that found nothing to ask for, and
\* the commands that only FEAT tells of, when FEAT itself was refused for the moment:
\* the code takes that for an old server (open.c:533-541).
\* That NLST heeds its parameter is not so when it was probed in an empty directory of a
\* server that ignores it: no lines are taken for the error (c_exists.c:256).
LearntIsTrue ==
  \A c \in Commands \ ({"MDTM_set"} \cup DOMAIN over) :
    /\ has[c] = "yes" => c \in srv.does /\ (c = "STAT" => srv.param = "yes")
    /\ has[c] = "no" =>
         \/ c \notin srv.does \/ c \in {"STAT", "NLST"}
         \/ feat.refused /\ c \in {"MLST", "MFMT", "MFF"}

\* What the user overrides holds when the session is open, though FEAT and the
\* server's kind have said otherwise (open.c:903 and 942).
OverridesHold ==
  call.name = "Open" /\ plan = <<>> => \A c \in DOMAIN over : has[c] = over[c]

\* What the library holds of a server is what it is, or what the user has said.
HeldIsRight == TypeOK /\ LearntIsTrue /\ OverridesHold

\* "it remembers this for subsequent iterations so it does not need to repeat the
\* learning process" (doc/libncftp.html, FTPFileExists): what the server has once
\* called unimplemented is not sent again in the session.
NotAskedAgain ==
  [][sent' # "none" /\ sent' \notin DOMAIN over => sent' \notin refused]_vars

\* A size or a time that is returned is one that the item has had during the call,
\* the size in the terms of the type, with other clients changing the item between
\* the commands.  Excepted are text sizes of a server with MLST, which gives the
\* size as stored (c_sizemdtm.c:34-47).
AnswersTrue ==
  call.res = "ok" /\ (call.name = "SizeTime" /\ call.type = "A" => "MLST" \notin srv.does) =>
    /\ call.size # Unknown => \E i \in seen : call.size = SizeAs(i, call.type)
    /\ call.mdtm # Unknown => \E i \in seen : call.mdtm = i.mtime
    /\ call.name = "FileSize" => call.size # Unknown
    /\ call.name = "ModTime" => call.mdtm # Unknown

\* FTPFileExists says that an item, file or directory, is there only if it was during
\* the call, and that it is not there only if it was not, or the server would not tell;
\* the type that FTPFileType returns is the one it had.  A user's word on STAT and NLST
\* is taken, and so is a server's that seemed to heed the parameter of NLST.
\* Two kinds of directories are set apart, for which the code answers "no" although
\* they are there, against doc/libncftp.html:1230-1242, which promises files and
\* directories: any directory of a server that refuses its MDTM (c_exists.c:390-395
\* takes the refusal for an answer), and an empty one that STAT or NLST lists as
\* nothing (c_exists.c:172-209 and 350-369).
TakenOnTrust ==
  {"STAT", "NLST"} \cap DOMAIN over # {} \/ (srv.param = "ignored" /\ has["NLST"] = "yes")

Overlooked(i) == i.kind = "dir" /\ (("MDTM" \in srv.does /\ ~srv.dirs) \/ i.bytes = 0)

ExistsRight ==
  /\ call.res = "yes" => TakenOnTrust \/ \E i \in seen : i.kind # "none"
  /\ call.res = "no" =>
       TakenOnTrust \/ denials > 0 \/ \E i \in seen : i.kind = "none" \/ Overlooked(i)
  /\ call.name = "FileType" /\ call.res \in {"file", "dir"} => \E i \in seen : i.kind = call.res

\* Whatever is asked of an item is answered as it was at some moment of the call.
AnswersRight == AnswersTrue /\ ExistsRight

\* FTPUtime returns success only if the item has had the time that was asked for,
\* and, when nothing is denied and the user has overridden nothing, it fails only
\* with a server that has none of the commands that the code tries (c_utime.c:92-205),
\* or whose MDTM was given up after it had been asked for an item that was not there.
\* MFF is tried only when a time of creation is given as well (c_utime.c:92): a server
\* that has MFF and none of the others is told nothing without one, and the call fails
\* with kErrUTIMENotAvailable.
UtimeSets ==
  call.name = "Utime" =>
    /\ call.res = "ok" => \E i \in seen : i.mtime = call.want
    /\ call.res \in {"failed", "unavailable"} =>
         \/ denials > 0 \/ over # <<>> \/ \E i \in seen : i.kind = "none"
         \/ /\ {"UTIME", "MFMT"} \cap srv.does = {}
            /\ call.create => "MFF" \notin srv.does
            /\ "MDTM_set" \in srv.does => has["MDTM_set"] = "no"
==============================================================================
