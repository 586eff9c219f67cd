----------------------------- MODULE RemoteDirs -----------------------------
(***************************************************************************)
(* The remote working directory: src/libncftp/c_chdir.c, c_chdir3.c,       *)
(* c_getcwd.c, c_mkdir.c, c_rmdir.c, c_filetype.c and the probes of        *)
(* c_exists.c.  A call is a sequence of commands, and between two of them  *)
(* the server may refuse, and another client may make or remove            *)
(* directories.  The library keeps a cached PWD, and goes back to where a  *)
(* call began by the path it has put into cip->buf.  (A session that is    *)
(* lost ends the call, and FTPShutdownHost frees the cache and the buffer: *)
(* nothing is left of this state.)                                         *)
(*                                                                         *)
(* A path is the sequence of what its slashes separate: "/a" is <<"","a">>, *)
(* "a/" is <<"a","">>, "/" is <<"","">> and "" is <<"">>.  A C string that  *)
(* may be empty is a set of at most one path.                              *)
(***************************************************************************)
EXTENDS Naturals, Sequences

CONSTANTS
  Dirs,        \* the directories that can exist, as sequences of names
  Home,        \* the directory the server puts a session in at login
  Paths,       \* the arguments of the calls
  MaxCalls,    \* bound: calls made
  MaxDenied,   \* bound: commands refused that could have been obeyed
  MaxMeddles   \* bound: directories made or removed by somebody else

Parent(dir) == IF dir = <<>> THEN dir ELSE SubSeq(dir, 1, Len(dir) - 1)

\* A piece of a path that is no directory's name.
Special == {"", ".", ".."}

ASSUME DirsAssumption ==
  /\ <<>> \in Dirs /\ Home \in Dirs /\ Dirs \subseteq Seq(STRING \ Special)
  /\ \A d \in Dirs : Parent(d) \in Dirs
ASSUME PathsAssumption == Paths \subseteq Seq(STRING) \ {<<>>}
ASSUME BoundsAssumption == MaxCalls \in Nat /\ MaxDenied \in Nat /\ MaxMeddles \in Nat

VARIABLES
  pc,      \* where the library's thread is
  cip,     \* currentWorkingDirectory, startingWorkingDirectory, buf, what is learnt
  call,    \* the call, its local variables, and what happened since it began
  srv,     \* the server: cwd, dirs, whether it knows MLST
  count    \* history: calls, refusals, meddling

vars == <<pc, cip, call, srv, count>>

Flags == SUBSET {"mkd", "pwd", "one", "ful"}
Calls == {"getcwd", "chdir", "chdirpwd", "chdir3", "mkdir", "filetype", "rmdir"}

\* How the server prints a directory, and which one a path names: the one it comes
\* to piece by piece.
PathOf(dir) == IF dir = <<>> THEN <<"", "">> ELSE <<"">> \o dir
From(cwd, path) == IF path[1] = "" /\ Len(path) > 1 THEN <<>> ELSE cwd
Piece(dir, t) == IF t \in {"", "."} THEN dir ELSE IF t = ".." THEN Parent(dir) ELSE Append(dir, t)
Along(cwd, path) ==
  LET at[i \in 0..Len(path)] ==
        IF i = 0 THEN From(cwd, path) ELSE Piece(at[i - 1], path[i])
  IN at
Resolve(cwd, path) == Along(cwd, path)[Len(path)]
Target(path) == Resolve(srv.cwd, path)

NoCall ==
  [name |-> "chdir", path |-> <<"">>, flags |-> {}, recurse |-> FALSE, cur |-> {},
   from |-> Home, at |-> "simple", k |-> 0, base |-> 0,
   saved |-> {}, probe |-> "stat", result |-> "ok", report |-> {},
   denied |-> FALSE, meddled |-> FALSE, noPWD |-> FALSE, strayed |-> FALSE,
   seen |-> {}]

\* After the login: the PWD of FTPLoginHost has filled the cache, or was refused.
Init ==
  /\ pc = "idle"
  /\ \E m \in BOOLEAN, ds \in SUBSET Dirs :
       /\ {<<>>, Home} \subseteq ds /\ \A d \in ds : Parent(d) \in ds
       /\ srv = [cwd |-> Home, dirs |-> ds, mlst |-> m]
  /\ \E refused \in 0..1 :
       LET here == IF refused = 1 THEN {} ELSE {PathOf(Home)} IN
       /\ refused <= MaxDenied
       /\ cip = [cwd |-> here, start |-> here, buf |-> {}, hasMLST |-> TRUE,
                 stat |-> "unknown", nlst |-> "unknown"]
       /\ count = [calls |-> 0, denied |-> refused, meddles |-> 0]
  /\ call = NoCall

-----------------------------------------------------------------------------
(* Commands and their replies.  Each conjoins what the server does and what *)
(* becomes of call's history.                                               *)

Unasked(c) == UNCHANGED <<srv, count>> /\ call' = c

\* A command that could be obeyed is refused, for want of a permission or quota.
Denied(c) ==
  /\ count.denied < MaxDenied
  /\ count' = [count EXCEPT !.denied = @ + 1]
  /\ call' = [c EXCEPT !.denied = TRUE]
  /\ UNCHANGED srv

\* FTPChdir sends no command for an empty path.
CWD(path, ok, c) ==
  \/ ok /\ path = <<"">> /\ Unasked(c)
  \/ /\ ok /\ path # <<"">> /\ Target(path) \in srv.dirs
     /\ srv' = [srv EXCEPT !.cwd = Target(path)]
     /\ call' = c /\ UNCHANGED count
  \/ ~ok /\ path # <<"">> /\ Target(path) \notin srv.dirs /\ Unasked(c)
  \/ ~ok /\ path # <<"">> /\ Target(path) \in srv.dirs /\ Denied(c)

MKD(path, ok, c) ==
  LET dir == Target(path)
      possible == /\ path # <<"">>
                  /\ dir \notin srv.dirs /\ dir \in Dirs /\ Parent(dir) \in srv.dirs
  IN \/ /\ ok /\ possible
        /\ srv' = [srv EXCEPT !.dirs = @ \cup {dir}]
        /\ call' = [c EXCEPT !.seen = @ \cup {dir}] /\ UNCHANGED count
     \/ ~ok /\ ~possible /\ Unasked(c)
     \/ ~ok /\ possible /\ Denied(c)

RMD(path, ok, c) ==
  LET dir == Target(path)
      possible == /\ dir \in srv.dirs /\ dir # <<>>
                  /\ \A d \in srv.dirs : d = dir \/ Parent(d) # dir
  IN \/ /\ ok /\ possible
        /\ srv' = [srv EXCEPT !.dirs = @ \ {dir}]
        /\ call' = c /\ UNCHANGED count
     \/ ~ok /\ ~possible /\ Unasked(c)
     \/ ~ok /\ possible /\ Denied(c)

MovedKeepsCache(c, ok) == c
\* What FTPChdir leaves in the structure: a success invalidates the cache.
Moved(c, ok) == IF ok THEN [c EXCEPT !.cwd = {}] ELSE c

\* FTPGetCWD: the cache answers if it can, PWD otherwise; got is what is copied
\* into newCwd, which a refusal leaves alone.
GetCWD(ok, got, c) ==
  \/ ok /\ cip.cwd # {} /\ got = cip.cwd /\ Unasked(c)
  \/ ok /\ cip.cwd = {} /\ got = {PathOf(srv.cwd)} /\ Unasked(c)
  \/ /\ ~ok /\ cip.cwd = {} /\ got = {}
     /\ Denied([c EXCEPT !.noPWD = TRUE])

\* Where the library goes next: a step of the same call, or back to its caller.
To(step, c) == [pc |-> step, call |-> c]
End(result, c) == [pc |-> "idle", call |-> [c EXCEPT !.result = result]]
Str(s) == IF s = {} THEN <<"">> ELSE CHOOSE x \in s : TRUE

WayByBuf == Str(cip.buf)
\* The way back: the caller's curDir, or what is in cip->buf.
Way == IF call.cur # {} THEN Str(call.cur) ELSE Str(cip.buf)

-----------------------------------------------------------------------------
(* FTPChdir, FTPChdirAndGetCWD and FTPChdir3.                               *)

Token == call.path[call.k]
LastButOne == call.k >= Len(call.path) - 1
AtLast == call.k = Len(call.path)

\* The directory for this step: one at a time, an empty piece is the root.
Step ==
  CASE call.at = "one" -> IF Token = "" THEN <<"", "">> ELSE <<Token>>
    [] call.at = "oneMade" -> <<Token>>
    [] OTHER -> call.path

WithPWD == \/ call.name = "chdirpwd"
           \/ "pwd" \in call.flags /\ (call.at = "one" => AtLast)

\* What follows a change of directory that succeeded, or failed.
AfterCd(ok, c) ==
  LET next == IF AtLast THEN End("ok", c)
                        ELSE To("cd", [c EXCEPT !.at = "one", !.k = @ + 1])
      oneAtATime == IF "one" \in c.flags THEN To("split", c) ELSE End("failed", c)
  IN CASE call.at = "simple" -> End(IF ok THEN "ok" ELSE "failed", c)
       [] call.at = "full" /\ ok -> End("ok", c)
       [] call.at = "full" /\ ~ok -> IF "mkd" \in c.flags THEN To("mkPwd", c) ELSE oneAtATime
       [] call.at = "again" -> IF ok THEN End("ok", c) ELSE oneAtATime
       [] call.at = "one" /\ ~ok -> IF "mkd" \in c.flags /\ Token # ""
                                   THEN To("cdMkd", c) ELSE End("failed", c)
       [] call.at = "oneMade" /\ ~ok -> End("failed", c)
       [] OTHER -> next

Goes(n) == pc' = n.pc

\* A step without a command: "." one at a time, or an empty path with PWD.
Nowhere ==
  /\ pc = "cd"
  /\ (call.at = "one" /\ Token = ".") \/ (WithPWD /\ Step = <<"">>)
  /\ LET n == IF WithPWD THEN To("cdPwd", call) ELSE AfterCd(TRUE, call)
     IN Goes(n) /\ Unasked(n.call)
  /\ UNCHANGED cip

\* CWD or CDUP; a server may name the new directory in its reply.
ChangeDir ==
  /\ pc = "cd"
  /\ ~(call.at = "one" /\ Token = ".") /\ ~(WithPWD /\ Step = <<"">>)
  /\ \E ok \in BOOLEAN, quoted \in BOOLEAN :
       LET named == ok /\ quoted /\ WithPWD
           at == {PathOf(Target(Step))}
           n == IF ok /\ WithPWD /\ ~quoted THEN To("cdPwd", call)
                ELSE AfterCd(ok, IF named THEN [call EXCEPT !.report = at] ELSE call)
       IN /\ CWD(Step, ok, n.call)
          /\ Goes(n)
          /\ cip' = IF named THEN [Moved(cip, ok) EXCEPT !.cwd = at] ELSE Moved(cip, ok)

\* FTPGetCWD, alone or after the change.
AskPWD ==
  /\ pc = "cdPwd"
  /\ \E ok \in BOOLEAN, got \in {{}, cip.cwd, {PathOf(srv.cwd)}} :
       LET n == AfterCd(ok, [call EXCEPT !.report = got]) IN
       /\ GetCWD(ok, got, n.call)
       /\ Goes(n)
       /\ cip' = [cip EXCEPT !.cwd = got]

\* FTPChdir3 copies the path into cip->buf and cuts it up there.
Split ==
  /\ pc = "split"
  /\ cip' = [cip EXCEPT !.buf = IF call.path[1] = "" THEN {} ELSE {<<call.path[1]>>}]
  /\ LET c == [call EXCEPT !.at = "one", !.k = 1]
         n == IF call.path # <<"">> THEN To("cd", c)
              ELSE IF "pwd" \in call.flags THEN To("cdPwd", c) ELSE End("ok", c)
     IN Goes(n) /\ Unasked(n.call)

\* FTPChdir3 could not change to a subdirectory, and makes it.
MakeStep ==
  /\ pc = "cdMkd"
  /\ \E ok \in BOOLEAN :
       LET n == IF ok THEN To("cd", [call EXCEPT !.at = "oneMade"]) ELSE End("failed", call)
       IN MKD(<<Token>>, ok, n.call) /\ Goes(n)
  /\ UNCHANGED cip

-----------------------------------------------------------------------------
(* FTPMkdir2, for itself or on behalf of FTPChdir3.                         *)

Recursive == call.recurse \/ call.name = "chdir3"

\* The path without its trailing slashes, and its first k pieces.
Bare == LET n == CHOOSE i \in 1..Len(call.path) :
                   call.path[i] # "" /\ \A j \in 1..Len(call.path) : j > i => call.path[j] = ""
        IN SubSeq(call.path, 1, n)
First(k) == SubSeq(Bare, 1, k)

AfterMkdir(result, c) ==
  IF call.name # "chdir3" THEN End(result, c)
  ELSE IF result = "ok" THEN To("cd", [c EXCEPT !.at = "again"])
  ELSE IF "one" \in call.flags THEN To("split", c) ELSE End("failed", c)

\* The path is cut at its last slash until what is left can be changed to; the
\* root before the first name of an absolute path is not tried.
FromParent(k, c) ==
  IF k = 0 THEN To("mkDo", [c EXCEPT !.base = 0, !.k = 1])
  ELSE IF First(k) = <<"">> THEN AfterMkdir("mkdFailed", c)
  ELSE To("mkUp", [c EXCEPT !.k = k])

NotePlace ==
  /\ pc = "mkPwd"
  /\ \E ok \in BOOLEAN, got \in {{}, cip.cwd, {PathOf(srv.cwd)}} :
       /\ GetCWD(ok, got, call)
       /\ cip' = [cip EXCEPT !.cwd = got, !.buf = IF ok THEN got ELSE @]
  /\ pc' = "mkTry"

TryExisting ==
  /\ pc = "mkTry"
  /\ \E ok \in BOOLEAN :
       LET n == IF ok THEN To("mkUndo", call)
                ELSE IF ~Recursive \/ (Len(Bare) = 2 /\ Bare[1] = "") THEN To("mkOne", call)
                ELSE FromParent(Len(Bare) - 1, call)
       IN CWD(call.path, ok, n.call) /\ Goes(n) /\ cip' = Moved(cip, ok)

\* The directory exists: back to where the call began.
LeaveExisting ==
  /\ pc = "mkUndo"
  /\ \E ok \in BOOLEAN :
       LET n == AfterMkdir(IF ok THEN "ok" ELSE "cannotGoToPrevDir",
                           [call EXCEPT !.strayed = @ \/ ~ok])
       IN CWD(Way, ok, n.call) /\ Goes(n) /\ cip' = Moved(cip, ok)

MakeOne ==
  /\ pc = "mkOne"
  /\ \E ok \in BOOLEAN :
       LET n == AfterMkdir(IF ok THEN "ok" ELSE "mkdFailed", call)
       IN MKD(Bare, ok, n.call) /\ Goes(n)
  /\ UNCHANGED cip

FindParent ==
  /\ pc = "mkUp"
  /\ \E ok \in BOOLEAN :
       LET n == IF ok THEN To("mkDo", [call EXCEPT !.base = call.k, !.k = @ + 1])
                ELSE FromParent(call.k - 1, call)
       IN CWD(First(call.k), ok, n.call) /\ Goes(n) /\ cip' = Moved(cip, ok)

MoreButLast == call.k < Len(Bare) - 1
MoreToMake == call.k < Len(Bare)

\* MKD of the rest of the path, one more piece each time.
MakeNext ==
  /\ pc = "mkDo"
  /\ \E ok \in BOOLEAN :
       LET n == IF ok /\ MoreToMake THEN To("mkDo", [call EXCEPT !.k = @ + 1])
                ELSE To("mkBack", [call EXCEPT !.result = IF ok THEN "ok" ELSE "mkdFailed"])
       IN MKD(SubSeq(Bare, call.base + 1, call.k), ok, n.call) /\ Goes(n)
  /\ UNCHANGED cip

\* goback: a failure to return is reported if nothing failed before it.
GoBack ==
  /\ pc = "mkBack"
  /\ \E ok \in BOOLEAN :
       LET n == AfterMkdir(IF call.result = "ok" /\ ~ok THEN "cannotGoToPrevDir"
                           ELSE call.result, [call EXCEPT !.strayed = @ \/ ~ok])
       IN CWD(Way, ok, n.call) /\ Goes(n) /\ cip' = Moved(cip, ok)

-----------------------------------------------------------------------------
(* FTPFileType, for itself or for FTPIsDir in FTPRmdirRecursive2, and the   *)
(* probes of FTPFileExistsStat and FTPFileExistsNlst.                       *)

\* FTPIsDir says 1 for a directory, which FTPRmdirRecursive2 returns at once as
\* an error that is none, and FTPRmdir takes for success.
AfterType(result, c) ==
  CASE c.name = "filetype" -> End(result, c)
    [] c.name = "rmdir" /\ result = "dir" -> End("ok", c)
    [] c.name = "rmdir" /\ result = "noSuch" -> End("rmdFailed", c)
    [] OTHER -> To("rmIn", c)

AskMLST ==
  /\ pc = "ftMlst"
  /\ \/ /\ srv.mlst /\ cip.hasMLST /\ UNCHANGED cip
        /\ \E kind \in IF Target(call.path) \in srv.dirs THEN {"dir"} ELSE {"file", "failed"} :
             LET n == IF kind = "failed" THEN To("ftPwd", call) ELSE AfterType(kind, call)
             IN Goes(n) /\ Unasked(n.call)
     \/ /\ ~(srv.mlst /\ cip.hasMLST)
        /\ cip' = [cip EXCEPT !.hasMLST = FALSE]
        /\ pc' = "ftPwd" /\ Unasked(call)

NotePlaceForType ==
  /\ pc = "ftPwd"
  /\ \E ok \in BOOLEAN, got \in {{}, cip.cwd, {PathOf(srv.cwd)}} :
       /\ GetCWD(ok, got, call)
       /\ cip' = [cip EXCEPT !.cwd = got, !.buf = IF ok THEN got ELSE @]
  /\ pc' = "ftTry"

TryToEnter ==
  /\ pc = "ftTry"
  /\ \E ok \in BOOLEAN : CWD(call.path, ok, call) /\ cip' = Moved(cip, ok)
                        /\ pc' = IF ok THEN "ftBack" ELSE "exists"

\* It was a directory; whether the way back works is not looked at.
LeaveEntered ==
  /\ pc = "ftBack"
  /\ \E ok \in BOOLEAN :
       LET n == AfterType("dir", [call EXCEPT !.strayed = @ \/ ~ok])
       IN CWD(Way, ok, n.call) /\ Goes(n) /\ cip' = Moved(cip, ok)

\* MDTM, SIZE, or STAT and NLST where they are known to work, settle it; a
\* server on which neither works leaves it open, as "file".
ExistsAnswer ==
  /\ pc = "exists"
  /\ \E result \in {"file", "noSuch"} :
       LET n == AfterType(result, call) IN Goes(n) /\ Unasked(n.call)
  /\ UNCHANGED cip

NextProbe(c) ==
  IF c.probe = "stat" THEN To("exists2", [c EXCEPT !.probe = "nlst"]) ELSE AfterType("file", c)
Learnt(c, works) == IF call.probe = "stat" THEN [c EXCEPT !.stat = works]
                                           ELSE [c EXCEPT !.nlst = works]
Known == IF call.probe = "stat" THEN cip.stat ELSE cip.nlst

\* The first time, a file that cannot be there is asked for, and then one that
\* must be, in the directory of the login.
Probe ==
  /\ pc \in {"exists", "exists2"} /\ Known = "unknown"
  /\ \/ LET n == NextProbe(call)
        IN Goes(n) /\ Unasked(n.call) /\ cip' = Learnt(cip, "no")
     \/ \E ok \in BOOLEAN, got \in {{}, cip.cwd, {PathOf(srv.cwd)}} :
          LET n == IF ok THEN To("pbStart", [call EXCEPT !.saved = got]) ELSE NextProbe(call)
          IN GetCWD(ok, got, n.call) /\ Goes(n) /\ cip' = [cip EXCEPT !.cwd = got]

SkipProbe ==
  /\ pc = "exists" /\ cip.stat = "no"
  /\ LET n == NextProbe(call) IN Goes(n) /\ Unasked(n.call)
  /\ UNCHANGED cip

ProbeKnown ==
  /\ pc = "exists2" /\ Known # "unknown"
  /\ \E n \in {AfterType("file", call)} \cup (IF Known = "yes" THEN {AfterType("noSuch", call)} ELSE {}) :
       Goes(n) /\ Unasked(n.call)
  /\ UNCHANGED cip

ProbeStart ==
  /\ pc = "pbStart"
  /\ \/ /\ cip.start = {} /\ UNCHANGED cip
        /\ LET n == NextProbe(call) IN Goes(n) /\ Unasked(n.call)
     \/ /\ cip.start # {}
        /\ \E ok \in BOOLEAN :
             LET n == IF ok THEN To("pbBack", call) ELSE NextProbe(call)
             IN CWD(Str(cip.start), ok, n.call) /\ Goes(n) /\ cip' = Moved(cip, ok)

\* The way back of a probe is not looked at either.
ProbeBack ==
  /\ pc = "pbBack"
  /\ \E ok \in BOOLEAN, works \in {"yes", "no"}, result \in {"file", "noSuch"} :
       LET c == [call EXCEPT !.strayed = @ \/ ~ok]
           n == IF works = "yes" THEN AfterType(result, c) ELSE NextProbe(c)
       IN CWD(Str(call.saved), ok, n.call) /\ Goes(n) /\ cip' = Learnt(Moved(cip, ok), works)

-----------------------------------------------------------------------------
(* FTPRmdir and FTPRmdirRecursive2.                                         *)

RemoveDir ==
  /\ pc = "rmTry"
  /\ \E ok \in BOOLEAN :
       LET n == IF ok THEN End("ok", call)
                ELSE IF call.recurse THEN To("rmPwd", call) ELSE End("rmdFailed", call)
       IN RMD(call.path, ok, n.call) /\ Goes(n)
  /\ UNCHANGED cip

NotePlaceForRmdir ==
  /\ pc = "rmPwd"
  /\ \E ok \in BOOLEAN, got \in {{}, cip.cwd, {PathOf(srv.cwd)}} :
       /\ GetCWD(ok, got, call)
       /\ cip' = [cip EXCEPT !.cwd = got, !.buf = IF ok THEN got ELSE @]
  /\ pc' = "ftMlst"

\* What is no directory is changed to, and its contents would be removed.
EnterNoDir ==
  /\ pc = "rmIn" /\ Target(call.path) \notin srv.dirs
  /\ LET n == End("rmdFailed", call) IN CWD(call.path, FALSE, n.call) /\ Goes(n)
  /\ UNCHANGED cip

-----------------------------------------------------------------------------
(* The application, the network and another client.                         *)

Begins(name, path, flags, recurse, cur) ==
  /\ pc = "idle" /\ count.calls < MaxCalls
  /\ call' = [NoCall EXCEPT !.name = name, !.path = path, !.flags = flags,
                            !.at = IF name = "chdir3" THEN "full" ELSE "simple",
                            !.recurse = recurse, !.cur = cur, !.from = srv.cwd,
                            !.k = 1, !.seen = srv.dirs]
  /\ count' = [count EXCEPT !.calls = @ + 1]
  /\ UNCHANGED <<cip, srv>>

Names(path) == \E i \in 1..Len(path) : path[i] \notin Special

FTPGetCWD == Begins("getcwd", <<"">>, {}, FALSE, {}) /\ pc' = "cdPwd"

FTPChdir(path) == Begins("chdir", path, {}, FALSE, {}) /\ pc' = "cd"

FTPChdirAndGetCWD(path) == Begins("chdirpwd", path, {}, FALSE, {}) /\ pc' = "cd"

\* With neither way chosen the full path is tried.
FTPChdir3(path, flags) ==
  /\ "mkd" \in flags => Names(path)
  /\ IF "ful" \in flags \/ "one" \notin flags
       THEN /\ Begins("chdir3", path, flags, FALSE, {}) /\ pc' = "cd"
       ELSE /\ Begins("chdir3", path, flags, FALSE, {}) /\ pc' = "split"

\* curDir is NULL, or the directory as the caller knows it.
FTPMkdir2(path, recurse, cur) ==
  /\ Names(path)
  /\ Begins("mkdir", path, {}, recurse, cur)
  /\ pc' = IF cur = {} THEN "mkPwd" ELSE "mkTry"

FTPFileType(path) ==
  path # <<"">> /\ Begins("filetype", path, {}, FALSE, {}) /\ pc' = "ftMlst"

FTPRmdir(path, recurse) ==
  path # <<"">> /\ Begins("rmdir", path, {}, recurse, {}) /\ pc' = "rmTry"

\* Somebody else makes a directory, or removes an empty one.
Meddle ==
  /\ count.meddles < MaxMeddles /\ pc # "idle"
  /\ count' = [count EXCEPT !.meddles = @ + 1]
  /\ \E d \in Dirs \ {<<>>, Home} :
       /\ IF d \in srv.dirs THEN \A e \in srv.dirs : e = d \/ Parent(e) # d
                            ELSE Parent(d) \in srv.dirs
       /\ srv' = [srv EXCEPT !.dirs = IF d \in @ THEN @ \ {d} ELSE @ \cup {d}]
  /\ call' = [call EXCEPT !.meddled = TRUE, !.seen = @ \cup srv'.dirs]
  /\ UNCHANGED <<pc, cip>>

Library ==
  \/ Nowhere \/ ChangeDir \/ AskPWD \/ Split \/ MakeStep
  \/ NotePlace \/ TryExisting \/ LeaveExisting \/ MakeOne
  \/ FindParent \/ MakeNext \/ GoBack
  \/ AskMLST \/ NotePlaceForType \/ TryToEnter \/ LeaveEntered
  \/ ExistsAnswer \/ Probe \/ SkipProbe \/ ProbeKnown \/ ProbeStart \/ ProbeBack
  \/ RemoveDir \/ NotePlaceForRmdir \/ EnterNoDir

Application ==
  \/ FTPGetCWD
  \/ \E path \in Paths :
       \/ FTPChdir(path) \/ FTPChdirAndGetCWD(path) \/ FTPFileType(path)
       \/ \E flags \in Flags : FTPChdir3(path, flags)
       \/ \E recurse \in BOOLEAN : FTPRmdir(path, recurse)
       \/ \E recurse \in BOOLEAN, cur \in {{}, {PathOf(srv.cwd)}} :
            FTPMkdir2(path, recurse, cur)

Next == Library \/ Application \/ Meddle

Spec == Init /\ [][Next]_vars

-----------------------------------------------------------------------------
(* Properties.                                                              *)

StrOf(S) == {s \in SUBSET S : \A x, y \in s : x = y}
PiecesOf(path) == {SubSeq(path, i, j) : i, j \in 1..Len(path)}
Strings == {PathOf(d) : d \in Dirs} \cup UNION {PiecesOf(p) : p \in Paths}
Known3 == {"unknown", "yes", "no"}

\* The state is well formed.
TypeOK ==
  /\ srv.cwd \in Dirs /\ srv.dirs \subseteq Dirs /\ srv.mlst \in BOOLEAN
  /\ cip.cwd \in StrOf(Strings) /\ cip.start \in StrOf(Strings) /\ cip.buf \in StrOf(Strings)
  /\ cip.hasMLST \in BOOLEAN /\ cip.stat \in Known3 /\ cip.nlst \in Known3
  /\ call.name \in Calls /\ call.k \in 0..Len(call.path) /\ call.base \in 0..Len(call.path)
  /\ call.report \in StrOf(Strings) /\ call.saved \in StrOf(Strings)

Ended == pc = "idle"

\* The cached PWD is where the server has the session, at every step of every
\* call, whatever failed before it.
CacheCoherent == cip.cwd \subseteq {PathOf(srv.cwd)}

\* Calls that are not asked to change the directory leave it where it was,
\* unless the server refuses PWD or the way back; and FTPMkdir does not say
\* that it made the directory when the way back was refused.
WayBack ==
  /\ Ended /\ call.name \in {"mkdir", "filetype", "rmdir", "getcwd"} /\ ~call.noPWD
  /\ call.strayed => call.name = "mkdir" /\ call.result = "ok"
  => srv.cwd = call.from

\* A change of directory that reports success has arrived, by whichever of the
\* ways FTPChdir3 tries, one after the other: unless the path has an empty
\* piece after its first slash, or the server refused PWD or a way back.
Arrives ==
  /\ Ended /\ call.name \in {"chdir", "chdirpwd", "chdir3"} /\ call.result = "ok"
  /\ ~call.noPWD /\ ~call.strayed
  /\ \A i \in 2..Len(call.path) : call.path[i] # ""
  => srv.cwd = Resolve(call.from, call.path)

\* The path a successful call reports is the server's.
Reported ==
  /\ Ended /\ call.result = "ok"
  /\ call.name \in {"getcwd", "chdirpwd"} \/ (call.name = "chdir3" /\ "pwd" \in call.flags)
  => call.report = {PathOf(srv.cwd)}

\* FTPMkdir says that it has made a directory only if, at some time during the
\* call, there was such a directory.
MkdirMakes ==
  Ended /\ call.name = "mkdir" /\ call.result = "ok"
    => Resolve(call.from, call.path) \in call.seen

\* A recursive FTPMkdir fails only if something was refused or somebody
\* interfered, however much of the path existed already; except, because the
\* root is never tried as the parent, of an absolute path of several names of
\* which the first does not exist; and of a path with "", "." or ".." within
\* it, which is given to MKD as it stands.
MkdirTries ==
  /\ Ended /\ call.name = "mkdir" /\ call.recurse /\ call.result # "ok"
  /\ Resolve(call.from, call.path) \in Dirs /\ call.from \in call.seen
  /\ \A i \in 2..Len(Bare) : call.path[i] \notin Special
  /\ call.path[1] = "" => Len(call.path) = 2 \/ <<call.path[2]>> \in call.seen
  => call.denied \/ call.meddled

\* FTPMkdir neither claims nor gives up what it should not, in proper states.
MkdirRight == TypeOK /\ MkdirMakes /\ MkdirTries
=============================================================================
