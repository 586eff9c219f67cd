------------------------------ MODULE Listing -------------------------------
(***************************************************************************)
(* What the library makes of a server's listings: FTPListToMemory2         *)
(* (io_listmem.c) fetches one and FTPList (io_list.c) passes it on,        *)
(* FTPRemoteGlob (rglob.c) turns the names of NLST into the names a        *)
(* pattern matches, UnLslR and UnMlsD (unls.c) turn the lines of LIST and  *)
(* MLSD into entries, FTPRemoteRecursiveFileList (rglobr.c) collects those *)
(* of several directories.  No standard says what servers *)
(* print: here they do what the comments and the lines kept for tests in   *)
(* rglob.c and rglobr.c show.                                              *)
(*                                                                         *)
(* A text is the sequence of its characters, of which there are few: the   *)
(* separator, the dot, the star and the letters of the names, so that      *)
(* prefixes that end within a name are prefixes here too.  A line is a     *)
(* record of what it says; its columns and the wording are left out.       *)
(***************************************************************************)
EXTENDS Integers, Sequences, FiniteSets, SequencesExt

CONSTANTS
  Tree,      \* the remote tree: the type of every path below the directory
  Cwd,       \* the text PWD gives for the directory
  Patterns,  \* what is globbed for
  DirLists,  \* the directories a recursive list is asked for, one after the other
  Servers,   \* the ways servers answer, as records
  YearDays, SkewDays,  \* the length of a year, and of "two days"
  MaxCalls   \* bound on the calls

Sep == "/"
Dot == <<".">>
DotDot == <<".", ".">>

ASSUME TreeAssumption == \A p \in DOMAIN Tree : Tree[p] \in {"-", "d", "l", "s"}
ASSUME ServerAssumption ==
  \A s \in Servers :
    /\ s.headers \in {"plain", "dot", "absolute"}    \* of the sections of LIST -lRa
    /\ s.names \in {"paths", "bare", "contents"}     \* of the answers to NLST
    /\ s.lines \in {"unix", "dos"}
    /\ s.lines = "dos" => s.headers = "plain" /\ ~s.foreign
    /\ {s.dots, s.foreign, s.takesFlags, s.microsoft} \subseteq BOOLEAN
    /\ s.now \in Nat /\ s.now >= YearDays /\ s.age \in Int
    /\ s.age <= YearDays /\ -s.age <= SkewDays   \* its clock may be ahead of ours
ASSUME BoundsAssumption ==
  YearDays \in Nat \ {0} /\ SkewDays \in Nat /\ MaxCalls \in Nat

VARIABLES
  pc, calls,
  call,      \* the call's name, pattern and directories
  server,    \* how this server answers
  at, rest,  \* the session's directory, the directories still to be listed
  lines,     \* lines fetched and not yet looked at
  list,      \* the names or entries made of them
  files,     \* the entries of all directories so far
  missed,    \* history: the directories whose listing did not come
  nocwd,     \* history: PWD failed where UnLslR wanted the directory's name
  buf,       \* cip->buf, where the name of the session's directory is kept
  curdir, curdirlen, skipdir, prev,  \* what the parsers keep between lines
  read, converted, ignored,          \* their counts
  hasNLST_a, hasMLST,                \* what is thought of the server
  result

parser == <<curdir, curdirlen, skipdir, prev, read, converted, ignored>>
recursion == <<at, rest, files, missed, nocwd, buf>>
vars == <<pc, calls, call, server, lines, list, recursion, parser, hasNLST_a, hasMLST, result>>

-----------------------------------------------------------------------------
(* Texts and paths.                                                        *)

Names(text) ==
  LET Step(acc, c) == IF c = Sep THEN Append(acc, <<>>)
                      ELSE [acc EXCEPT ![Len(acc)] = Append(@, c)]
  IN FoldLeft(Step, << <<>> >>, text)

(* The path a text denotes: empty names and "." say nothing.               *)
Denoted(text) == SelectSeq(Names(text), LAMBDA n : n \notin {<<>>, Dot})

Text(path) ==
  LET Join(acc, n) == IF acc = <<>> THEN n ELSE acc \o <<Sep>> \o n
  IN FoldLeft(Join, <<>>, path)

Below(t, n) == SubSeq(t, n + 1, Len(t))
HasSep(t) == Contains(t, Sep)
CutAtSep(t) == Head(Names(t))
WithoutSep(t) == IF t # <<>> /\ t[1] = Sep THEN Tail(t) ELSE t
WithoutDotSep(t) == IF IsPrefix(<<".", Sep>>, t) THEN Below(t, 2) ELSE t

(* A name of two or more dots and no other character, anywhere in it.      *)
PathContainsIntermediateDotDotSubDir(t) ==
  \E i \in DOMAIN Names(t) : Len(Names(t)[i]) >= 2 /\ ToSet(Names(t)[i]) = {"."}

-----------------------------------------------------------------------------
(* The server.  Children come in no special order, a directory's listing   *)
(* in one piece.                                                           *)

Dirs == {<<>>} \cup {p \in DOMAIN Tree : Tree[p] = "d"}
DirsHere == {SubSeq(p, Len(at) + 1, Len(p)) : p \in {q \in Dirs : IsPrefix(at, q)}}
Children(d) == {Last(p) : p \in {q \in DOMAIN Tree : Front(q) = at \o d}}
Type(d, n) == Tree[at \o Append(d, n)]
Hidden(n) == n[1] = "."
Target(t) == IF t = "l" THEN "elsewhere" ELSE "none"

Modified == server.now - server.age
FullDate == [day |-> Modified % YearDays, year |-> Modified \div YearDays]
(* ls shows the time in place of the year for half a year.                 *)
Date == IF server.lines = "unix" /\ server.age < YearDays \div 2
        THEN [FullDate EXCEPT !.year = 0] ELSE FullDate

Entry(t, name, date) == [kind |-> "entry", type |-> t, text |-> name, rlinkto |-> Target(t), date |-> date]
Header(text) == [kind |-> "header", text |-> text]
Other(kind) == [kind |-> kind, text |-> <<>>]
NameLine(text) == [kind |-> "name", text |-> text]

CwdOf(p) == IF p = <<>> \/ Cwd = <<Sep>> THEN Cwd \o Text(p) ELSE Cwd \o <<Sep>> \o Text(p)

HeaderOf(d) ==
  CASE server.headers = "plain" -> IF d = <<>> THEN <<>> ELSE <<Header(Text(d))>>
    [] server.headers = "dot" -> <<Header(Text(<<Dot>> \o d))>>
    [] server.headers = "absolute" -> <<Header(CwdOf(at \o d))>>

Dots == IF server.dots THEN <<Entry("d", Dot, Date), Entry("d", DotDot, Date)>> ELSE <<>>

(* Windows has no links and no sockets to show.                            *)
Shown(d, flagA) ==
  SetToSeq({n \in Children(d) : /\ server.lines = "dos" => Type(d, n) \in {"-", "d"}
                                /\ flagA \/ ~Hidden(n)})

Section(d, flagA) ==
  HeaderOf(d) \o <<Other("total")>> \o (IF flagA THEN Dots ELSE <<>>)
    \o [i \in DOMAIN Shown(d, flagA) |-> Entry(Type(d, Shown(d, flagA)[i]), Shown(d, flagA)[i], Date)]
    \o <<Other("blank")>>

(* Lines of directories elsewhere, as the tests' lines have them.          *)
Foreign ==
  IF server.foreign
  THEN <<Header(<<".", Sep>> \o DotDot \o <<Sep, "b">>), Entry("-", <<"b">>, Date), Other("blank"),
         Header(<<Sep, "x">>), Entry("-", <<"b">>, Date), Other("blank")>>
  ELSE <<>>

ForeignNames ==
  IF server.foreign
  THEN <<Entry("d", DotDot \o <<Sep, "b">>, Date), Entry("-", <<Sep, "x", Sep, "b">>, Date)>>
  ELSE <<>>

LIST_lR(flagA) ==
  LET ds == SetToSeq(DirsHere \ {<<>>}) IN
  Section(<<>>, flagA) \o ForeignNames \o Foreign
    \o FlattenSeq([i \in DOMAIN ds |-> Section(ds[i], flagA)])

Fact(t) == CASE t = "-" -> "file" [] t = "d" -> "dir" [] OTHER -> "OS.unix=other"

MLSD ==
  (IF server.dots THEN <<Entry("cdir", Dot, FullDate), Entry("pdir", DotDot, FullDate)>> ELSE <<>>)
    \o [i \in DOMAIN Shown(<<>>, TRUE) |-> Entry(Fact(Type(<<>>, Shown(<<>>, TRUE)[i])), Shown(<<>>, TRUE)[i], FullDate)]

(* What a pattern that ends in a star matches: names in the pattern's      *)
(* directory, not hidden ones.                                             *)
PatDir(pattern) == LET up == Names(pattern) IN IF Len(up) = 1 THEN <<>> ELSE Text(Front(up)) \o <<Sep>>
Matched(pattern) ==
  {n \in Children(Denoted(PatDir(pattern))) : ~Hidden(n) /\ IsPrefix(Front(Last(Names(pattern))), n)}

NLST_Pattern(pattern) ==
  LET d == Denoted(PatDir(pattern))
      ms == SetToSeq(Matched(pattern))
      LinesFor(n) ==
        CASE server.names = "bare" -> <<NameLine(n)>>
          [] server.names = "contents" /\ Type(d, n) = "d" ->
               LET kids == SetToSeq({k \in Children(Append(d, n)) : ~Hidden(k)}) IN
               [j \in DOMAIN kids |-> NameLine(PatDir(pattern) \o n \o <<Sep>> \o kids[j])]
          [] OTHER -> <<NameLine(PatDir(pattern) \o n)>>
  IN FlattenSeq([i \in DOMAIN ms |-> LinesFor(ms[i])])

NLST_Dir(flagA) ==
  LET ns == SetToSeq({n \in Children(<<>>) : flagA \/ ~Hidden(n)}) IN
  (IF flagA THEN <<NameLine(Dot), NameLine(DotDot)>> ELSE <<>>)
    \o (IF server.foreign THEN <<NameLine(DotDot \o <<Sep, "b">>)>> ELSE <<>>)
    \o [i \in DOMAIN ns |-> NameLine(ns[i])]

NoSuchFile == <<[kind |-> "nosuch", text |-> <<>>]>>

-----------------------------------------------------------------------------
(* FTPListToMemory2's exchange with the server.                            *)

kErrLISTFailed == -1
kErrGlobNoMatch == -2
kErrGlobFailed == -3
kErrCWDFailed == -8
kModTimeUnknown == -1
kErrMLSTNotAvailable == -4
kErrMLSTFailed == -5
kErrInvalidMLSTResponse == -6
NoneConverted == -7

(* Blank lines are dropped if the caller wants none, and the names "." and *)
(* "..".                                                                   *)
Kept(blankLines, answer) ==
  SelectSeq(answer, LAMBDA l : /\ blankLines \/ l.kind # "blank"
                               /\ l.kind = "name" => l.text \notin {Dot, DotDot})

(* The server answers in full, or the command is refused, or the data ends *)
(* early.  The list is made anew each time.                                *)
Fetched(blankLines, answer) ==
  lines' = Kept(blankLines, answer) /\ result' = 0

FetchFails(blankLines, answer) ==
  /\ result' = kErrLISTFailed
  /\ \E n \in {0, Len(answer) \div 2} : lines' = Kept(blankLines, SubSeq(answer, 1, n))

-----------------------------------------------------------------------------
NULL == <<"NULL">>

NoParser ==
  /\ curdir = <<>> /\ curdirlen = 0 /\ skipdir = FALSE /\ prev = NULL
  /\ read = 0 /\ converted = 0 /\ ignored = 0

Init ==
  /\ pc = "idle" /\ calls = 0
  /\ call = [name |-> "none", pattern |-> <<>>, dirs |-> <<>>]
  /\ server \in Servers
  /\ lines = <<>> /\ list = <<>> /\ NoParser
  /\ at = <<>> /\ rest = <<>> /\ files = <<>> /\ missed = {} /\ nocwd = FALSE /\ buf = <<>>
  /\ hasNLST_a = TRUE /\ hasMLST = TRUE
  /\ result = 0

Begin(name, pattern, dirs) ==
  /\ pc = "idle" /\ calls < MaxCalls
  /\ calls' = calls + 1
  /\ call' = [name |-> name, pattern |-> pattern, dirs |-> dirs]
  /\ pc' = name
  /\ lines' = <<>> /\ list' = <<>> /\ result' = 0
  /\ at' = <<>> /\ rest' = dirs /\ files' = <<>> /\ missed' = {} /\ nocwd' = FALSE
  /\ UNCHANGED buf
  /\ curdir' = <<>> /\ curdirlen' = 0 /\ skipdir' = FALSE /\ prev' = NULL
  /\ read' = 0 /\ converted' = 0 /\ ignored' = 0
  /\ UNCHANGED <<server, hasNLST_a, hasMLST>>

BeginRecursive == \E ds \in DirLists : Begin("LIST", <<>>, ds)

Start ==
  \/ \E p \in Patterns : Begin("glob", p, <<>>)
  \/ BeginRecursive
  \/ \E n \in {"MLSD", "MLST", "FTPList"} : Begin(n, <<>>, <<>>)
-----------------------------------------------------------------------------
(* FTPRemoteGlob.                                                          *)

HasGlobChars(pattern) == Contains(pattern, "*")
WholeDir(pattern) == pattern \in {<<"*">>, <<"*", "*">>}

(* A pattern without a star is its own and only match.                     *)
GlobLiteral ==
  /\ pc = "glob" /\ ~HasGlobChars(call.pattern)
  /\ list' = <<call.pattern>>
  /\ pc' = "done"
  /\ UNCHANGED <<calls, call, server, lines, recursion, parser, hasNLST_a, hasMLST, result>>

UseNLST_a == WholeDir(call.pattern) /\ hasNLST_a

GlobAnswer ==
  IF WholeDir(call.pattern) THEN NLST_Dir(UseNLST_a) ELSE NLST_Pattern(call.pattern)

GlobFetch ==
  /\ pc = "glob" /\ HasGlobChars(call.pattern)
  /\ \/ UseNLST_a => server.takesFlags
     \/ GlobAnswer = <<>>
  /\ \/ Fetched(FALSE, GlobAnswer)
     \/ GlobAnswer = <<>> /\ Fetched(FALSE, NoSuchFile)
  /\ pc' = "globbed"
  /\ UNCHANGED <<calls, call, server, list, recursion, parser, hasNLST_a, hasMLST>>

(* When NLST -a fails it is given up for good and NLST tried.              *)
GlobFetchFails ==
  /\ pc = "glob" /\ HasGlobChars(call.pattern)
  /\ FetchFails(FALSE, GlobAnswer)
  /\ IF UseNLST_a
     THEN hasNLST_a' = FALSE /\ pc' = "glob"
     ELSE pc' = "done" /\ UNCHANGED hasNLST_a
  /\ UNCHANGED <<calls, call, server, list, recursion, parser, hasMLST>>

StripUnneccesaryGlobEntries(ls) ==
  SelectSeq(ls, LAMBDA l : Last(Names(l.text)) \notin {Dot, DotDot})

Globbed ==
  /\ pc = "globbed"
  /\ \/ /\ lines = <<>>
        /\ result' = kErrGlobNoMatch /\ pc' = "done" /\ UNCHANGED lines
     \/ /\ lines = NoSuchFile
        /\ result' \in {kErrGlobFailed, kErrGlobNoMatch} /\ pc' = "done" /\ UNCHANGED lines
     \/ /\ lines \notin {<<>>, NoSuchFile}
        /\ lines' = StripUnneccesaryGlobEntries(lines)
        /\ pc' = "collapse" /\ UNCHANGED result
  /\ UNCHANGED <<calls, call, server, list, recursion, parser, hasNLST_a, hasMLST>>

(* RemoteGlobCollapse: NLST may give the files within the directories that *)
(* match, one after the other, in place of the directories.                *)
Pattern == IF WholeDir(call.pattern) THEN <<>> ELSE call.pattern
PatPrefix == IF HasGlobChars(Pattern) THEN Front(Pattern) ELSE Pattern

NoneRepeated(cur) == FALSE
Repeated(cur) == cur = prev

CollapseLine ==
  /\ pc = "collapse" /\ lines # <<>>
  /\ LET t == Head(lines).text
         cut == Below(t, Len(PatPrefix))
         cur == CutAtSep(cut)
     IN \/ /\ IsPrefix(PatPrefix, t) /\ ~Repeated(cur) /\ ~PathContainsIntermediateDotDotSubDir(cut)
           /\ prev' = cur
           /\ list' = Append(list, PatPrefix \o cur)
        \/ /\ IsPrefix(PatPrefix, t) /\ (Repeated(cur) \/ PathContainsIntermediateDotDotSubDir(cut))
           /\ UNCHANGED <<list, prev>>
        \/ /\ ~IsPrefix(PatPrefix, t) /\ ~HasSep(t)
           /\ list' = Append(list, PatDir(Pattern) \o t)
           /\ UNCHANGED prev
        \/ /\ ~IsPrefix(PatPrefix, t) /\ HasSep(t)
           /\ UNCHANGED <<list, prev>>
  /\ lines' = Tail(lines)
  /\ UNCHANGED <<pc, calls, call, server, recursion, curdir, curdirlen, skipdir, read, converted, ignored, hasNLST_a, hasMLST, result>>

Collapsed ==
  /\ pc = "collapse" /\ lines = <<>>
  /\ pc' = "done"
  /\ UNCHANGED <<calls, call, server, lines, list, recursion, parser, hasNLST_a, hasMLST, result>>

-----------------------------------------------------------------------------
(* FTPRemoteRecursiveFileList: for each directory CWD, LIST -lRa, UnLslR   *)
(* and CWD back.  FTPRemoteRecursiveFileList1 does so for one.             *)

NextDir ==
  /\ pc = "LIST"
  /\ \/ rest = <<>> /\ pc' = "done" /\ UNCHANGED <<at, rest, files>>
     \/ /\ rest # <<>> /\ at \o Denoted(Head(rest)) \in Dirs
        /\ at' = at \o Denoted(Head(rest)) /\ pc' = "listing" /\ UNCHANGED <<rest, files>>
     \/ /\ rest # <<>> /\ at \o Denoted(Head(rest)) \notin Dirs
        /\ files' = Append(files, [relname |-> Head(rest), rname |-> NULL, type |-> "-",
                                   rlinkto |-> "none", mdtm |-> kModTimeUnknown])
        /\ rest' = Tail(rest) /\ UNCHANGED <<at, pc>>
  /\ UNCHANGED <<calls, call, server, lines, list, missed, nocwd, buf, parser, hasNLST_a, hasMLST, result>>

(* Of the flags -lRa the "a" is left out once NLST -a has failed.          *)
Listing_lRa == LIST_lR(hasNLST_a)

(* UnLslR begins with nothing kept from the directory before.  A listing   *)
(* that fails is passed over: the call goes back and on.                   *)
BufKept == UNCHANGED buf
BufEmptied == buf' = <<>>

ListFetch ==
  /\ pc = "listing"
  /\ \/ /\ Fetched(TRUE, Listing_lRa) /\ pc' = "UnLslR"
        /\ list' = <<>> /\ curdir' = <<>> /\ curdirlen' = 0 /\ skipdir' = FALSE
        /\ read' = 0 /\ converted' = 0 /\ BufEmptied /\ UNCHANGED missed
     \/ /\ FetchFails(TRUE, Listing_lRa) /\ pc' = "back"
        /\ missed' = missed \cup {Head(rest)}
        /\ UNCHANGED <<list, buf, curdir, curdirlen, skipdir, read, converted>>
  /\ UNCHANGED <<calls, call, server, at, rest, files, nocwd, prev, ignored, hasNLST_a, hasMLST>>

(* ComputeRNames with `nochop' puts the directory's name, as it was given, *)
(* in front.                                                               *)
ComputeRNames(entries, dir) ==
  [i \in DOMAIN entries |->
     [entries[i] EXCEPT !.rname = IF dir = Dot THEN entries[i].relname
                                  ELSE dir \o <<Sep>> \o entries[i].relname]]

Collect ==
  /\ pc = "collect"
  /\ files' = files \o ComputeRNames(list, Head(rest))
  /\ pc' = "back"
  /\ UNCHANGED <<calls, call, server, lines, list, at, rest, missed, nocwd, buf, parser, hasNLST_a, hasMLST, result>>

GoBack ==
  /\ pc = "back"
  /\ \/ at' = <<>> /\ rest' = Tail(rest) /\ result' = 0 /\ pc' = "LIST"
     \/ result' = kErrCWDFailed /\ pc' = "done" /\ UNCHANGED <<at, rest>>
  /\ UNCHANGED <<calls, call, server, lines, list, files, missed, nocwd, buf, parser, hasNLST_a, hasMLST>>

(* The directory's name is asked for when an absolute name is met and kept *)
(* till the end of the listing.  When PWD fails it is empty, and asked for *)
(* again at the next absolute name.                                        *)
CwdKnown == IF buf = <<>> THEN {CwdOf(at), <<>>} ELSE {buf}
WithoutCwd(t, cwd) == WithoutSep(Below(t, Len(cwd)))
Knows(asked, cwd) ==
  /\ buf' = IF asked THEN cwd ELSE buf
  /\ nocwd' = (nocwd \/ (asked /\ cwd = <<>>))

(* The date of a line without a year is this year's, unless it would be    *)
(* more than two days ahead.                                               *)
Mdtm(date) ==
  LET thisyear == server.now \div YearDays
      guess == thisyear * YearDays + date.day
  IN IF date.year # 0 THEN date.year * YearDays + date.day
     ELSE IF guess > server.now + SkewDays THEN guess - YearDays
     ELSE guess

(* UnLslRLine knows the lines of ls by their dates, with a year, a time or *)
(* in ISO form, and turns down devices and sockets; UnDosLine knows those  *)
(* of DIR and is tried for a server known as Microsoft's.                  *)
FileDirOrLink(l) == l.type \in {"-", "d", "l"}
LsLine(l) == l.kind = "entry" /\ server.lines = "unix" /\ FileDirOrLink(l)
DosLine(l) == l.kind = "entry" /\ server.lines = "dos"
Recognised(l) == LsLine(l) \/ (server.microsoft /\ DosLine(l))

Fname(l) == IF curdirlen = 0 THEN l.text ELSE curdir \o l.text

Taken(l, relname) ==
  list' = Append(list, [relname |-> relname, rname |-> NULL, type |-> l.type, rlinkto |-> l.rlinkto, mdtm |-> Mdtm(l.date)])

UnLslREntry ==
  /\ pc = "UnLslR" /\ lines # <<>> /\ Recognised(Head(lines))
  /\ \E cwd \in CwdKnown :
     LET l == Head(lines)
         cp == WithoutDotSep(Fname(l))
         absolute == cp[1] = Sep /\ Len(cwd) > 1
         name == IF absolute THEN WithoutCwd(cp, cwd) ELSE cp
         skip == skipdir \/ Below(Fname(l), curdirlen) \in {Dot, DotDot}
     IN /\ converted' = IF skip THEN converted ELSE converted + 1
        /\ IF \/ skip
              \/ absolute /\ ~IsPrefix(cwd, cp)
              \/ PathContainsIntermediateDotDotSubDir(name)
           THEN UNCHANGED list
           ELSE Taken(l, name)
        /\ Knows(cp[1] = Sep /\ ~skip, cwd)
  /\ lines' = Tail(lines) /\ read' = read + 1
  /\ UNCHANGED <<pc, calls, call, server, at, rest, files, missed, curdir, curdirlen, skipdir, prev, ignored, hasNLST_a, hasMLST, result>>

(* Sections of directories elsewhere are skipped, up to the next header.   *)
(* An empty name of the session's directory begins them all.               *)
Inside(dir, cwd) == dir[1] = Sep /\ Len(cwd) # 1 /\ IsPrefix(cwd, dir)
Skips(dir, cp, cwd) ==
  \/ dir[1] = Sep /\ Len(cwd) # 1 /\ ~Inside(dir, cwd)
  \/ PathContainsIntermediateDotDotSubDir(cp)

(* A line that ends in a colon begins a directory's section.  curdirlen is *)
(* the length before an absolute name is made relative, and stays so.      *)
UnLslRHeader ==
  /\ pc = "UnLslR" /\ lines # <<>> /\ Head(lines).kind = "header"
  /\ \E cwd \in CwdKnown :
     LET dir == WithoutDotSep(Head(lines).text) \o <<Sep>>
         cp == IF Inside(dir, cwd) THEN WithoutCwd(dir, cwd) ELSE dir
     IN /\ curdir' = cp
        /\ curdirlen' = Len(dir)
        /\ skipdir' = Skips(dir, cp, cwd)
        /\ Knows(dir[1] = Sep, cwd)
  /\ lines' = Tail(lines) /\ read' = read + 1
  /\ UNCHANGED <<pc, calls, call, server, at, rest, files, missed, list, prev, converted, ignored, hasNLST_a, hasMLST, result>>

UnLslROther ==
  /\ pc = "UnLslR" /\ lines # <<>>
  /\ ~Recognised(Head(lines)) /\ Head(lines).kind # "header"
  /\ lines' = Tail(lines)
  /\ read' = IF Head(lines).kind = "blank" THEN read ELSE read + 1
  /\ UNCHANGED <<pc, calls, call, server, list, recursion, curdir, curdirlen, skipdir, prev, converted, ignored, hasNLST_a, hasMLST, result>>

(* What it returns does not matter to FTPRemoteRecursiveFileList.         *)
UnLslRReturns ==
  /\ pc = "UnLslR" /\ lines = <<>>
  /\ result' = IF read = 0 THEN 0 ELSE IF converted > 0 THEN converted ELSE NoneConverted
  /\ pc' = "collect"
  /\ UNCHANGED <<calls, call, server, lines, list, recursion, parser, hasNLST_a, hasMLST>>

-----------------------------------------------------------------------------
(* MLSD, then UnMlsD.                                                      *)

MlsdFetch ==
  /\ pc = "MLSD"
  /\ \/ Fetched(FALSE, MLSD) /\ pc' = "UnMlsD"
     \/ FetchFails(FALSE, MLSD) /\ pc' = "done"
  /\ UNCHANGED <<calls, call, server, list, recursion, parser, hasNLST_a, hasMLST>>

(* UnMlsT: 0, -2 for the directory itself and its parent, -1 for what it   *)
(* does not know.                                                          *)
UnMlsT(l) == CASE l.type \in {"file", "dir"} -> 0 [] l.type \in {"cdir", "pdir"} -> -2 [] OTHER -> -1

UnMlsDLine ==
  /\ pc = "UnMlsD" /\ lines # <<>>
  /\ LET l == Head(lines)
         outside == PathContainsIntermediateDotDotSubDir(l.text)
     IN \/ /\ UnMlsT(l) = 0 /\ ~outside
           /\ Taken([l EXCEPT !.type = IF @ = "dir" THEN "d" ELSE "-"], l.text)
           /\ converted' = converted + 1 /\ UNCHANGED ignored
        \/ /\ UnMlsT(l) = -2 \/ (UnMlsT(l) = 0 /\ outside)
           /\ ignored' = ignored + 1 /\ UNCHANGED <<list, converted>>
        \/ UnMlsT(l) = -1 /\ UNCHANGED <<list, converted, ignored>>
  /\ lines' = Tail(lines) /\ read' = read + 1
  /\ UNCHANGED <<pc, calls, call, server, recursion, curdir, curdirlen, skipdir, prev, hasNLST_a, hasMLST, result>>

UnMlsDReturns ==
  /\ pc = "UnMlsD" /\ lines = <<>>
  /\ result' = IF read = 0 \/ (converted = 0 /\ ignored > 0) THEN 0
               ELSE IF converted > 0 THEN converted ELSE NoneConverted
  /\ pc' = "done"
  /\ UNCHANGED <<calls, call, server, lines, list, recursion, parser, hasNLST_a, hasMLST>>

-----------------------------------------------------------------------------
(* FTPListToMemory2 with the flag d: MLST for the one item, as long as it  *)
(* is thought to be available, MLSD after that.                            *)

Mlst ==
  /\ pc = "MLST"
  /\ \/ /\ ~hasMLST
        /\ pc' = "MLSD" /\ call' = [call EXCEPT !.name = "MLSD"]
        /\ UNCHANGED <<hasMLST, result, list>>
     \/ /\ hasMLST
        /\ \/ \E t \in {"file", "dir", "cdir"} :
                LET l == Entry(t, Dot, FullDate) IN
                IF UnMlsT(l) < 0
                THEN result' = kErrInvalidMLSTResponse /\ UNCHANGED <<hasMLST, list>>
                ELSE result' = 0 /\ list' = <<l>> /\ UNCHANGED hasMLST
           \/ result' = kErrMLSTNotAvailable /\ hasMLST' = FALSE /\ UNCHANGED list
           \/ result' = kErrMLSTFailed /\ UNCHANGED <<hasMLST, list>>
        /\ pc' = "done" /\ UNCHANGED call
  /\ UNCHANGED <<calls, server, lines, recursion, parser, hasNLST_a>>

-----------------------------------------------------------------------------
(* FTPList writes out the lines as they come, until it cannot.             *)
FTPList ==
  /\ pc = "FTPList"
  /\ \E n \in {0, Len(LIST_lR(TRUE)) \div 2, Len(LIST_lR(TRUE))} :
       /\ list' = SubSeq(LIST_lR(TRUE), 1, n)
       /\ result' \in IF n = Len(LIST_lR(TRUE)) THEN {0, kErrLISTFailed} ELSE {kErrLISTFailed}
  /\ pc' = "done"
  /\ UNCHANGED <<calls, call, server, lines, recursion, parser, hasNLST_a, hasMLST>>

Return ==
  /\ pc = "done" /\ pc' = "idle"
  /\ UNCHANGED <<calls, call, server, lines, list, recursion, parser, hasNLST_a, hasMLST, result>>

Next ==
  \/ Start
  \/ GlobLiteral \/ GlobFetch \/ GlobFetchFails \/ Globbed \/ CollapseLine \/ Collapsed
  \/ NextDir \/ ListFetch \/ Collect \/ GoBack
  \/ UnLslREntry \/ UnLslRHeader \/ UnLslROther \/ UnLslRReturns
  \/ MlsdFetch \/ UnMlsDLine \/ UnMlsDReturns
  \/ Mlst \/ FTPList
  \/ Return

Spec == Init /\ [][Next]_vars

-----------------------------------------------------------------------------
(* A glob that succeeds gives what a shell's would: the names that match,  *)
(* each once, with the pattern's directory in front, whether the server    *)
(* prints paths, bare names or the contents of directories that match (an  *)
(* empty one is then not to be seen), after a failed NLST -a too, and      *)
(* nothing that lies elsewhere.                                            *)
Visible(d) == \E k \in Children(d) : ~Hidden(k)
Globs(pattern) ==
  {PatDir(pattern) \o n : n \in
     {m \in Matched(pattern) :
        LET d == Append(Denoted(PatDir(pattern)), m) IN
        server.names = "contents" /\ Tree[d] = "d" => Visible(d)}}
Matches ==
  CASE ~HasGlobChars(call.pattern) -> {call.pattern}
    [] WholeDir(call.pattern) -> {n \in Children(<<>>) : hasNLST_a \/ ~Hidden(n)}
    [] OTHER -> Globs(call.pattern)

GlobRight ==
  pc = "done" /\ call.name = "glob" /\ result = 0 =>
    /\ ToSet(list) = Matches
    /\ Len(list) = Cardinality(Matches)

(* The entries made of listings are the files, directories and links the   *)
(* server has below the directories, each under the name it can be asked   *)
(* for from where the call was made, with its type, its link's target and  *)
(* its date: whatever the form of the headers, none from elsewhere, and    *)
(* none lost but those of directories whose listing failed; what is no     *)
(* directory is its own entry.  A directory may appear within itself, and  *)
(* hidden files are not listed any more once NLST -a has failed.           *)
(* (The server must be known as Microsoft's to be understood when it       *)
(* prints as DIR does.)  Nothing is said of a call in which PWD failed      *)
(* where an absolute name was met (unls.c:661, 730): all such names are     *)
(* then taken for names below the directory.  Nor of the date of a file     *)
(* that the server's clock puts into the next year, printed without one:    *)
(* it is given this year (unls.c:534).                                      *)
Understood == server.lines = "dos" => server.microsoft
TargetShown(t) == IF call.name = "LIST" THEN Target(t) ELSE "none"
TypesListed == IF call.name = "LIST" /\ server.lines = "unix" THEN {"-", "d", "l"} ELSE {"-", "d"}

ListedBelow(d) ==
  {<<p, Tree[p], TargetShown(Tree[p]), Modified>> : p \in
     {q \in DOMAIN Tree : /\ Tree[q] \in TypesListed
                          /\ IsStrictPrefix(d, q)
                          /\ call.name = "LIST" /\ ~hasNLST_a => ~Hidden(Last(q))
                          /\ call.name = "MLSD" => Len(q) = 1}}
ListedFor(dir) ==
  IF Denoted(dir) \in Dirs THEN ListedBelow(Denoted(dir))
  ELSE {<<Denoted(dir), "-", "none", kModTimeUnknown>>}
Itself(d) == <<d, "d", "none", Modified>>

AskedFor == IF call.name = "LIST" THEN ToSet(call.dirs) \ missed ELSE {Dot}
Made == IF call.name = "LIST" THEN files ELSE list
Name(e) == IF e.rname = NULL THEN e.relname ELSE e.rname

NextYears == Modified \div YearDays > server.now \div YearDays
Dated(e) == IF NextYears THEN [e EXCEPT ![4] = kModTimeUnknown] ELSE e

EntriesRight ==
  pc = "done" /\ call.name \in {"LIST", "MLSD"} /\ result >= 0 /\ Understood /\ ~nocwd =>
    LET made == {Dated(<<Denoted(Name(e)), e.type, e.rlinkto, e.mdtm>>) : e \in ToSet(Made)}
        right == UNION {ListedFor(dir) : dir \in AskedFor}
        those == {Dated(e) : e \in right}
        selves == {Dated(Itself(Denoted(dir))) : dir \in AskedFor}
    IN those \subseteq made /\ made \subseteq those \cup selves
=============================================================================
