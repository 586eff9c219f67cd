------------------------------ MODULE TreeWalk ------------------------------
(***************************************************************************)
(* The two walks of a tree of files, Ftw of the local machine (ftw.c) and  *)
(* FTPFtw of the server (rftw.c), and the lists of files made with them    *)
(* (lglobr.c, rglobr.c).  A walk keeps one path in one buffer and calls a  *)
(* procedure for each entry with the buffer, the length of the path and    *)
(* the place of the last name in it, so the model keeps the buffer as the  *)
(* code does: a sequence of characters with ends of string in it, written  *)
(* at offsets.  The recursion is a stack of directories.                   *)
(*                                                                         *)
(* A tree is a function from paths to types; a path is a sequence of names *)
(* and a name a sequence of characters.  The type "loop" is a directory    *)
(* that the server shows under the root and that is the root again.        *)
(***************************************************************************)
EXTENDS Integers, Sequences, FiniteSets, SequencesExt

CONSTANTS
  Trees,         \* the trees there may be
  Starts,        \* the arguments a walk or a list may be given, as strings
  Modes,         \* a subset of {"local", "MLSD", "LIST", "NLST"}
  Procs,         \* a subset of {"user", "list"}
  Buffers,       \* what FtwSetBuf gave: records of size and autoGrow
  MinAlloc,      \* the least size of a buffer of the library's own, 254
  Spare,         \* what is allocated beyond what is needed, 30
  LimitMaxDepth, \* the depth at which the procedures give up, 50
  MaxRemoved     \* bound on the entries someone else removes during the walk

NUL == "nul"
Remote(mode) == mode # "local"

ASSUME ConstantsAssumption ==
  /\ Modes \subseteq {"local", "MLSD", "LIST", "NLST"} /\ Procs \subseteq {"user", "list"}
  /\ Buffers \subseteq [size: Nat, autoGrow: {"grow", "fail", "continue"}]
  /\ {MinAlloc, Spare, LimitMaxDepth, MaxRemoved} \subseteq Nat

VARIABLES
  tree,     \* the files of the machine that is walked
  locked,   \* the directories that cannot be read
  removed,  \* the entries that have been removed during the walk
  cwd,      \* the server's working directory (the local one is the root)
  call,     \* mode, procedure and argument
  buf, alloc, autoGrow,  \* ftwip->curPath, curPathAllocSize, autoGrow
  depth,    \* ftwip->depth
  stack,    \* the activations of FtwTraverse, the innermost first
  visited,  \* history: what the procedure was called with
  files,    \* the list of the list procedures
  pc, rc    \* where the call is, what the walk or the list returned

vars == <<tree, locked, removed, cwd, call, buf, alloc, autoGrow, depth, stack,
          visited, files, pc, rc>>

------------------------------------------------------------------------------
(* Strings and files *)

\* The string in a buffer ends at its first NUL.
Str(b) == IF Contains(b, NUL) THEN SubSeq(b, 1, SelectInSeq(b, LAMBDA c : c = NUL) - 1)
          ELSE b

\* memcpy of a string with its NUL; what is behind it is not looked at again.
Put(b, off, s) == [i \in 1 .. off |-> IF i <= Len(b) THEN b[i] ELSE NUL] \o s

\* The names in a string.
Names(s) ==
  LET step(acc, c) == IF c = "/" THEN Append(acc, <<>>)
                      ELSE [acc EXCEPT ![Len(acc)] = Append(@, c)]
  IN SelectSeq(FoldLeft(step, <<<<>>>>, s), LAMBDA n : n \notin {<<>>, <<".">>})

TypeOf(path) == IF path = <<>> THEN "d"
                ELSE IF path \in DOMAIN tree /\ path \notin removed THEN tree[path] ELSE "none"

\* What a string names for someone in directory `at'.
Resolve(at, s) ==
  LET step(p, n) == IF TypeOf(Append(p, n)) = "loop" THEN <<>> ELSE Append(p, n)
  IN FoldLeft(step, IF s # <<>> /\ s[1] = "/" THEN <<>> ELSE at, Names(s))

HasLoop == "loop" \in {tree[p] : p \in DOMAIN tree}   \* never of this machine's
IsDir(path) == TypeOf(path) \in {"d", "loop"}
Children(path) == {p \in DOMAIN tree \ removed : Len(p) = Len(path) + 1 /\ Front(p) = path}

\* What the library takes an entry for: lstat and the facts and modes of a listing tell
\* links and odd entries; with bare names there is only FTPIsDir, and what is no
\* directory counts as a file.
TypeAs(mode, t) ==
  CASE t = "none" -> "none"
    [] t \in {"d", "loop"} -> "d"
    [] OTHER -> IF mode = "NLST" THEN "-" ELSE t

\* The path without the slashes at its end, but for that of the root.
Stripped(s) == LET last == SelectLastInSeq(s, LAMBDA c : c # "/")
               IN SubSeq(s, 1, IF last = 0 THEN 1 ELSE last)

\* The place after the last slash.
Base(s) == SelectLastInSeq(s, LAMBDA c : c = "/")

------------------------------------------------------------------------------
(* The procedures *)

\* FTPRemoteFtwProc does not list the start, and gives up in a tree that is too deep.
\* FTPLocalRecursiveFileListFtwProc lists what its name is below the start's directory.
Listed(path, type) ==
  CASE call.proc = "user" -> <<>>
    [] call.mode # "local" ->
         IF path = <<".">> THEN <<>>
         ELSE <<[relname |-> IF Len(path) > 1 /\ SubSeq(path, 1, 2) = <<".", "/">>
                             THEN SubSeq(path, 3, Len(path)) ELSE path,
                 name |-> <<>>, type |-> type]>>
    [] OTHER ->
         LET off == call.offset
             cut == IF off > 0 /\ off < Len(path) /\ path[off + 1] = "/" THEN off + 1 ELSE off
         IN IF path \in {<<>>, <<".">>} THEN <<>>
            ELSE <<[relname |-> SubSeq(path, cut + 1, Len(path)), name |-> path, type |-> type]>>

\* The application's own procedure may stop the walk whenever it likes, and does when
\* it has become too deep, as the documentation asks it to.
TooDeepLater(d) == d > LimitMaxDepth
TooDeep(d) == d >= LimitMaxDepth /\ ~(call.proc = "list" /\ call.mode = "local")

Proc(b, len, file, type, d) ==
  /\ visited' = Append(visited, [path |-> Str(b), len |-> len, file |-> file, type |-> type])
  /\ files' = IF TooDeep(d) THEN files ELSE files \o Listed(Str(b), type)

MayStop(d) == TooDeep(d) \/ call.proc = "user"
MayGoOn(d) == ~TooDeep(d)

------------------------------------------------------------------------------
(* The start *)

NoCall == [mode |-> "none", proc |-> "none", arg |-> <<>>, offset |-> 0, start |-> 0]

Init ==
  /\ tree \in Trees
  /\ locked \in {{}} \cup {{p} : p \in {q \in DOMAIN tree : tree[q] = "d"}}
  /\ \E b \in Buffers : alloc = b.size /\ autoGrow = b.autoGrow
  /\ removed = {} /\ cwd = <<>> /\ call = NoCall /\ buf = <<>> /\ depth = 0
  /\ stack = <<>> /\ visited = <<>> /\ files = <<>> /\ pc = "idle" /\ rc = 0

Env == <<tree, locked, removed>>
Ends(r) == pc' = "done" /\ rc' = r /\ stack' = <<>>

Activation(len, d) == [dirPathLen |-> len, filename |-> len, depth |-> d, opened |-> FALSE,
                       ents |-> {}, subs |-> <<>>]

\* Ftw and FTPFtw called with a directory: the buffer, the slashes at the end, the call
\* for the start itself.  FTPFtw strips the slashes and keeps the length.
Traverse(c, s) ==
  LET path == Stripped(s)
      len  == IF Remote(c.mode) THEN Len(s) ELSE Len(path)
      size == IF alloc > 0 THEN alloc
              ELSE IF Len(s) + Spare > MinAlloc THEN Len(s) + Spare ELSE MinAlloc
  IN /\ alloc' = size
     /\ buf' = Put(path, len, <<>>)
     /\ call' = [c EXCEPT !.start = len]
     /\ depth' = 0
     /\ visited' = <<[path |-> path, len |-> len, file |-> Base(path), type |-> "d"]>>
     /\ \/ stack' = <<Activation(len, 1)>> /\ pc' = "walk" /\ rc' = 0
        \/ c.proc = "user" /\ Ends(-1)

\* A buffer of the application's is large enough for the argument.
Fits(s) == alloc = 0 \/ Len(s) < alloc

Ftw ==
  /\ pc = "idle" /\ "local" \in Modes /\ "user" \in Procs /\ ~HasLoop
  /\ \E s \in Starts :
       LET c == [NoCall EXCEPT !.mode = "local", !.proc = "user", !.arg = s]
       IN /\ Fits(s)
          /\ IF IsDir(Resolve(<<>>, s)) THEN Traverse(c, s)
             ELSE call' = c /\ Ends(-1) /\ UNCHANGED <<buf, alloc, depth, visited>>
  /\ UNCHANGED <<Env, cwd, autoGrow, files>>

FTPFtw ==
  /\ pc = "idle" /\ "user" \in Procs
  /\ \E s \in Starts, m \in Modes \ {"local"} :
       LET c == [NoCall EXCEPT !.mode = m, !.proc = "user", !.arg = s]
       IN /\ Fits(s)
          /\ IF IsDir(Resolve(cwd, s)) THEN Traverse(c, s)
             ELSE call' = c /\ Ends(-1) /\ UNCHANGED <<buf, alloc, depth, visited>>
  /\ UNCHANGED <<Env, cwd, autoGrow, files>>

\* One line of FTPLocalRecursiveFileList2: what is missing is left out, a file is
\* listed, a directory walked.  With `erelative' the names are those below the line.
FTPLocalRecursiveFileList2 ==
  /\ pc = "idle" /\ "local" \in Modes /\ "list" \in Procs /\ alloc = 0 /\ ~HasLoop
  /\ \E s \in Starts, erelative \in BOOLEAN :
       LET line == Stripped(s)
           off  == IF erelative THEN Len(line)
                   ELSE IF line \in {<<".">>, <<"/">>} THEN 1 ELSE Base(line)
           c    == [NoCall EXCEPT !.mode = "local", !.proc = "list", !.arg = s, !.offset = off]
           to   == Resolve(<<>>, line)
       IN IF IsDir(to)
          THEN /\ Traverse(c, line)
               /\ files' = IF line = <<".">> THEN <<>>
                           ELSE <<[relname |-> SubSeq(line, off + 1, Len(line)),
                                   name |-> line, type |-> "d"]>>
          ELSE /\ call' = c /\ Ends(0)
               /\ files' = IF TypeOf(to) = "none" THEN <<>>
                           ELSE <<[relname |-> IF erelative THEN line
                                               ELSE SubSeq(line, off + 1, Len(line)),
                                   name |-> line, type |-> "-"]>>
               /\ UNCHANGED <<buf, alloc, depth, visited>>
  /\ UNCHANGED <<Env, cwd, autoGrow>>

\* FTPRemoteRecursiveFileList2 goes to the directory and walks ".".  What it cannot
\* change to it takes for a file.
FTPRemoteRecursiveFileList2 ==
  /\ pc = "idle" /\ "list" \in Procs /\ alloc = 0
  /\ \E s \in Starts, m \in Modes \ {"local"} :
       LET c == [NoCall EXCEPT !.mode = m, !.proc = "list", !.arg = s]
       IN IF IsDir(Resolve(cwd, s))
          THEN Traverse(c, <<".">>) /\ cwd' = Resolve(cwd, s) /\ UNCHANGED files
          ELSE /\ call' = c /\ Ends(0) /\ UNCHANGED <<buf, alloc, depth, visited, cwd>>
               /\ files' = <<[relname |-> s, name |-> s, type |-> "-"]>>
  /\ UNCHANGED <<Env, autoGrow>>

------------------------------------------------------------------------------
(* The walk *)

top == Head(stack)
Top(f) == stack' = <<f>> \o Tail(stack)
Pathname == Resolve(cwd, Str(buf))

\* The end of an activation.  The caller's path is cut back to its own directory.
Return ==
  IF Len(stack) = 1
  THEN /\ stack' = <<>> /\ pc' = "walked" /\ rc' = 0 /\ buf' = SubSeq(buf, 1, call.start)
  ELSE LET up == stack[2]
       IN /\ buf' = Put(buf, up.dirPathLen, <<>>)
          /\ stack' = <<[up EXCEPT !.filename = up.dirPathLen]>> \o SubSeq(stack, 3, Len(stack))
          /\ UNCHANGED <<pc, rc>>

\* A failure anywhere ends all activations.
Panic == stack' = <<>> /\ pc' = "walked" /\ rc' = -1 /\ buf' = SubSeq(buf, 1, call.start)

\* A listing tells the type of each entry when it is made.
Entries(dir) ==
  {[name |-> Last(p), type |-> TypeAs(call.mode, TypeOf(p))] : p \in Children(dir)}

\* A directory that cannot be read, or of which the server lists nothing, counts as done.
\* UnMlsD counts a listing without an entry of use as an empty one.
NoEntry(dir) == \A e \in Entries(dir) : e.type \notin {"-", "l", "d"}
Unlisted(dir) ==
  \/ ~IsDir(dir) \/ dir \in locked
  \/ Remote(call.mode) /\ Children(dir) = {}
  \/ call.mode = "MLSD" /\ NoEntry(dir)

\* A listing that cannot be understood.  To UnLslR that is one with lines and no entry
\* too: ls prints a total, "." and ".." for an empty directory, or nothing.
Garbled(dir) ==
  /\ IsDir(dir)
  /\ \/ call.mode \in {"MLSD", "LIST"} /\ ~Unlisted(dir)
     \/ call.mode = "LIST" /\ NoEntry(dir)
OnlyOddEntries(dir) == call.mode = "LIST" /\ NoEntry(dir)

TraverseUnlisted ==
  /\ pc = "walk" /\ ~top.opened /\ Unlisted(Pathname)
  /\ Return
  /\ UNCHANGED <<Env, cwd, call, alloc, autoGrow, depth, visited, files>>

TraverseOpens ==
  /\ pc = "walk" /\ ~top.opened /\ ~Unlisted(Pathname) /\ ~OnlyOddEntries(Pathname)
  /\ LET at   == top.dirPathLen
         root == at = 1 /\ buf[1] = "/"
         name == IF root THEN at ELSE at + 1
     IN /\ buf' = IF root THEN Put(buf, at, <<>>) ELSE Put(buf, at, <<"/">>)
        /\ Top([top EXCEPT !.dirPathLen = name, !.filename = name, !.opened = TRUE,
                           !.ents = Entries(Pathname)])
  /\ depth' = top.depth
  /\ UNCHANGED <<Env, cwd, call, alloc, autoGrow, visited, files, pc, rc>>

TraverseGarbled ==
  /\ pc = "walk" /\ ~top.opened /\ Garbled(Pathname)
  /\ Panic
  /\ UNCHANGED <<Env, cwd, call, alloc, autoGrow, depth, visited, files>>

IsRoot == top.dirPathLen = 1 /\ buf[1] = "/"

\* Room for a name in the buffer.  The directory's separator is written after a
\* reallocation as it was before the first entry.
TooLong(name) == Len(name) + 1 + top.dirPathLen > alloc
Grown(name) == TooLong(name) /\ autoGrow = "grow"
Filename(name) == IF ~Grown(name) THEN top.filename
                  ELSE IF IsRoot THEN top.dirPathLen ELSE top.dirPathLen + 1
WithName(name) ==
  LET b == IF Grown(name) /\ ~IsRoot THEN Put(buf, top.dirPathLen, <<"/">>) ELSE buf
  IN Put(b, Filename(name), name)
PathLenWithNul(name) == top.dirPathLen + Len(name) + 1
PathLen(name) == top.dirPathLen + Len(name)

\* What an entry is: the listing's word, or what lstat or FTPIsDir says of the path.
EntryType(e) ==
  IF call.mode \in {"MLSD", "LIST"} THEN e.type
  ELSE TypeAs(call.mode, TypeOf(Resolve(cwd, Str(WithName(e.name)))))

Reading == pc = "walk" /\ top.opened /\ top.ents # {}

\* An entry that does not fit is left out or ends the walk.
NoRoom ==
  /\ Reading
  /\ \E e \in top.ents :
       /\ TooLong(e.name)
       /\ \/ autoGrow = "fail" /\ Panic
          \/ /\ autoGrow = "continue"
             /\ Top([top EXCEPT !.ents = @ \ {e}]) /\ UNCHANGED <<buf, pc, rc>>
  /\ UNCHANGED <<Env, cwd, call, alloc, autoGrow, depth, visited, files>>

\* A file or link is handed to the procedure, a directory kept for later, the rest
\* passed over.
ReadEntry ==
  /\ Reading
  /\ \E e \in top.ents :
       LET b    == WithName(e.name)
           off  == Filename(e.name)
           len  == PathLen(e.name)
           type == EntryType(e)
           f    == [top EXCEPT !.ents = @ \ {e}, !.filename = off]
       IN /\ TooLong(e.name) => Grown(e.name)
          /\ alloc' = IF Grown(e.name) THEN Len(e.name) + 1 + top.dirPathLen + Spare ELSE alloc
          /\ CASE type \in {"-", "l"} ->
                    /\ Proc(b, len, off, type, depth)
                    /\ \/ MayGoOn(depth) /\ buf' = b /\ Top(f) /\ UNCHANGED <<pc, rc>>
                       \/ MayStop(depth) /\ Panic
               [] type = "d" -> /\ Top([f EXCEPT !.subs = Append(@, e.name)]) /\ buf' = b
                                /\ UNCHANGED <<visited, files, pc, rc>>
               [] OTHER -> Top(f) /\ buf' = b /\ UNCHANGED <<visited, files, pc, rc>>
  /\ UNCHANGED <<Env, cwd, call, autoGrow, depth>>

\* After its entries the subdirectories of a directory, each handed to the procedure and
\* traversed.
NextSubdir ==
  /\ pc = "walk" /\ top.opened /\ top.ents = {} /\ top.subs # <<>>
  /\ LET name == Head(top.subs)
         b    == Put(buf, top.filename, name)
         len  == PathLen(name)
     IN /\ Proc(b, len, top.filename, "d", depth)
        /\ \/ /\ MayGoOn(depth) /\ buf' = b /\ UNCHANGED <<pc, rc>>
              /\ stack' = <<Activation(len, top.depth + 1), [top EXCEPT !.subs = Tail(@)]>>
                          \o Tail(stack)
           \/ MayStop(depth) /\ Panic
  /\ UNCHANGED <<Env, cwd, call, alloc, autoGrow, depth>>

TraverseDone ==
  /\ pc = "walk" /\ top.opened /\ top.ents = {} /\ top.subs = <<>>
  /\ Return
  /\ UNCHANGED <<Env, cwd, call, alloc, autoGrow, depth, visited, files>>

\* ComputeRNames with `nochop': the names as the server knows them from where the list
\* was asked for.
ComputeRNamesOfDir(fs) == [i \in 1 .. Len(fs) |-> [fs[i] EXCEPT !.name = fs[i].relname]]
ComputeRNames(fs) ==
  [i \in 1 .. Len(fs) |->
     [fs[i] EXCEPT !.name = IF call.arg \in {<<>>, <<".">>} THEN fs[i].relname
                            ELSE call.arg \o <<"/">> \o fs[i].relname]]

\* The remote list goes back to where it was asked for; when the walk has failed it
\* returns what the way back returns, and the names are not computed.
Done ==
  /\ pc = "walked" /\ pc' = "done"
  /\ IF call.proc = "list" /\ Remote(call.mode)
     THEN /\ cwd' = <<>> /\ rc' = 0
          /\ files' = IF rc = 0 THEN ComputeRNames(files) ELSE files
     ELSE /\ rc' = IF call.proc = "list" THEN 0 ELSE rc
          /\ UNCHANGED <<cwd, files>>
  /\ UNCHANGED <<Env, call, buf, alloc, autoGrow, depth, stack, visited>>

\* Someone else removes a file or an empty directory.
RemoveEntry ==
  /\ pc = "walk" /\ Cardinality(removed) < MaxRemoved
  /\ \E p \in DOMAIN tree \ removed :
       Children(p) = {} /\ p # cwd /\ tree[p] # "loop" /\ removed' = removed \cup {p}
  /\ UNCHANGED <<tree, locked, cwd, call, buf, alloc, autoGrow, depth, stack, visited,
                 files, pc, rc>>

Next ==
  \/ Ftw \/ FTPFtw \/ FTPLocalRecursiveFileList2 \/ FTPRemoteRecursiveFileList2
  \/ TraverseUnlisted \/ TraverseOpens \/ TraverseGarbled
  \/ NoRoom \/ ReadEntry \/ NextSubdir \/ TraverseDone \/ Done
  \/ RemoveEntry

Spec == Init /\ [][Next]_vars

------------------------------------------------------------------------------
(* What the walks promise *)

Start == Resolve(<<>>, call.arg)
Home  == IF call.proc = "list" /\ Remote(call.mode) THEN Start ELSE <<>>
Was(path) == TypeAs(call.mode, IF path = <<>> THEN "d"
                               ELSE IF path \in DOMAIN tree THEN tree[path] ELSE "none")

\* At every call of the procedure the path is the name of an entry of that type, its
\* length is the one given, and the file is the last name of the path.
NamesRight ==
  \A i \in DOMAIN visited :
    LET v == visited[i]
    IN /\ v.type = Was(Resolve(Home, v.path))
       /\ v.len = Len(v.path)
       /\ i > 1 => SubSeq(v.path, v.file + 1, v.len) = Last(Names(v.path))

\* What can be reached from the start through directories that can be read, and fits.
Reachable(p) ==
  /\ IsStrictPrefix(Start, p) /\ p \in DOMAIN tree /\ Was(p) \in {"-", "l", "d"}
  /\ \A n \in Len(Start) .. Len(p) - 1 :
       LET dir == SubSeq(p, 1, n) IN Was(dir) = "d" /\ dir \notin locked
RoomFor(p) ==
  \/ autoGrow # "continue"
  \/ LET below == SubSeq(p, Len(Start) + 1, Len(p))
         slash == IF visited[1].path = <<"/">> THEN 0 ELSE 1
     IN call.start + slash + Len(FlattenSeq(below)) + Len(below) - 1 < alloc

\* The procedure is called once for each entry and for a directory before what is in it;
\* and a walk that returns 0 has called it for everything there was to reach, but for
\* what someone else has removed meanwhile, and for nothing else.
VisitsRight ==
  /\ \A i, j \in DOMAIN visited : i < j => visited[i].path # visited[j].path
  /\ \A j \in DOMAIN visited \ {1} : \E i \in 1 .. j - 1 :
       visited[i].type = "d" /\ Names(visited[i].path) = Front(Names(visited[j].path))
  /\ pc = "walked" /\ rc = 0 /\ ~HasLoop =>
       LET seen == {Resolve(Home, visited[i].path) : i \in DOMAIN visited \ {1}}
       IN /\ \A p \in DOMAIN tree \ removed :
               Reachable(p) /\ RoomFor(p) => p \in seen \/ \E r \in removed : IsPrefix(r, p)
          /\ \A p \in seen : Reachable(p) /\ RoomFor(p)

\* A list made without an error names each entry so that it can be asked for from where
\* the list was made, tells its type, has the path below the start as its relative name,
\* and has left the working directory as it was.
ListRight ==
  pc = "done" /\ call.proc = "list" =>
    /\ cwd = <<>>
    /\ visited # <<>> =>
         /\ \A i \in DOMAIN files :
              LET f == files[i]
                  p == Resolve(<<>>, f.name)
                  below == IF Remote(call.mode) \/ call.offset >= Len(Stripped(call.arg))
                           THEN Len(Start) ELSE Len(Start) - 1
              IN f.name # <<>> =>
                   /\ p \in DOMAIN tree \cup {<<>>} /\ f.type = Was(p)
                   /\ Names(f.relname) = SubSeq(p, below + 1, Len(p))
         /\ \A i \in DOMAIN visited : visited[i].path # <<".">> =>
              (Remote(call.mode) /\ TooDeep(depth))
              \/ \E j \in DOMAIN files : files[j].name = <<>> \/
                   Resolve(<<>>, files[j].name) = Resolve(Home, visited[i].path)

\* However deep the tree appears, the recursion is not deeper than the procedures allow,
\* though they look at a depth that is that of the last directory that was opened.
Bounded ==
  ~(call.proc = "list" /\ call.mode = "local") => Len(stack) <= LimitMaxDepth

\* The walk goes where it should, and no deeper.
WalkRight == VisitsRight /\ Bounded
==============================================================================
