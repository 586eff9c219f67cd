------------------------------ MODULE Batches ------------------------------
(***************************************************************************)
(* The operations on many files: FTPGetFiles3 (io_getfiles.c), FTPPutFiles4 *)
(* (io_putfiles.c) and FTPDelete (c_delete.c), each a loop over the names a *)
(* pattern stands for and, when recursive, over the list a walk has made.  *)
(* What one file's transfer may do is Transfer's matter and the walks are  *)
(* TreeWalk's; here a transfer is one step with the outcomes the loops     *)
(* tell apart: the result, whether a data transfer began (which clears     *)
(* cip->cancelXfer, rcmd.c:549), whether the application set it again, and *)
(* whether the connection survived.  The application cancels when its      *)
(* progress meter or resume procedure is called, or in a signal handler    *)
(* while data is on its way.                                               *)
(*                                                                         *)
(* A machine's files are a function from paths (sequences of names) to "d",*)
(* "l" or the contents of a file.                                          *)
(***************************************************************************)
EXTENDS Naturals, Sequences, FiniteSets, SequencesExt

CONSTANTS
  Names,                    \* the parts of paths
  RemoteTrees, LocalTrees,  \* what the server and this machine may hold at first
  Contents,                 \* the contents of files
  Alike,                    \* pairs of contents of one size, and of times that do not differ
  Requests,                 \* what the application asks for
  LaterRequests,            \* bound: what it asks for after its first request
  MaxCalls                  \* bound on the requests

Partial == "partial"        \* what a broken transfer leaves
Mixed   == "mixed"          \* what the beginning of one file is completed to with the end of another

Paths == Seq(Names) \ {<<>>}

\* A machine holds finitely many files.
IsTree(t) == /\ t \in [DOMAIN t -> Contents \cup {"d", "l", Partial, Mixed}]
             /\ DOMAIN t \subseteq Paths /\ IsFiniteSet(DOMAIN t)

ASSUME ConstantsAssumption ==
  /\ \A t \in RemoteTrees \cup LocalTrees : IsTree(t)
  /\ {"d", "l", Partial, Mixed} \cap Contents = {}
  /\ Alike \subseteq Contents \X Contents /\ \A c \in Contents : <<c, c>> \in Alike
  /\ Requests \subseteq [kind : {"GET", "PUT", "DELE"}, items : Seq(Paths), dst : Seq(Names),
                         recurse : BOOLEAN, resume : BOOLEAN, delete : BOOLEAN,
                         ascii : BOOLEAN]
  /\ \A r \in Requests : r.kind = "PUT" /\ r.recurse => Len(r.items) <= 1
  /\ MaxCalls \in Nat

VARIABLES
  remote, local,  \* the files
  connected, cancelXfer,
  req,            \* the request that is carried out
  items,          \* globList, what is left of it
  files,          \* the list made for one item or, to upload, for all; what is left of it
  links,          \* the set of the links of that list, made after its files
  n,              \* how long the list was, nFileInfos
  recurse1,       \* the list is that of a directory
  named,          \* ComputeRNames has been called for the list
  begun,          \* the variable that holds the list has been initialised
  result, batchResult,
  tar,            \* cip->hasRETR_tar: "unknown", "yes" or "no"
  pc, calls,
  was,            \* history: the source's files when the request began
  asked,          \* history: the files and links that the request is about
  passed,         \* history: those there was nothing to do for
  silent,         \* history: those the code leaves, or spoils, without saying so
  archived,       \* history: where archives may have been unpacked to
  deleted,        \* history: the entries whose source has been deleted
  canceled, stale, \* history: the application has canceled this request, an earlier one
  forgot          \* history: the library has cleared the flag of a cancellation

vars == <<remote, local, connected, cancelXfer, req, items, files, links, n, recurse1, named,
          begun, result, batchResult, tar, pc, calls, was, asked, passed, silent, archived,
          deleted, canceled, stale, forgot>>

------------------------------------------------------------------------------
(* Files *)

Has(t, p) == p = <<>> \/ p \in DOMAIN t
IsDir(t, p) == p = <<>> \/ (p \in DOMAIN t /\ t[p] = "d")
IsFile(t, p) == p \in DOMAIN t /\ t[p] \notin {"d", "l"}
With(t, p, c) == [q \in DOMAIN t \cup {p} |-> IF q = p THEN c ELSE t[q]]
Without(t, p) == [q \in DOMAIN t \ {p} |-> t[q]]
Below(t, dir) == {p \in DOMAIN t : IsStrictPrefix(dir, p)}
CanHold(t, p) == IsDir(t, Front(p)) /\ ~IsDir(t, p)

\* mkdir -p: what is missing is made, from the nearest directory there is; a file in the
\* way is an error.
MkDirs(t, dir) ==
  LET missing == {SubSeq(dir, 1, i) : i \in {j \in 1 .. Len(dir) : ~Has(t, SubSeq(dir, 1, j))}}
      known   == {SubSeq(dir, 1, i) : i \in 0 .. Len(dir)} \ missing
  IN IF \A p \in known : IsDir(t, p)
     THEN [ok |-> TRUE, tree |-> [p \in DOMAIN t \cup missing |-> IF p \in missing THEN "d" ELSE t[p]]]
     ELSE [ok |-> FALSE, tree |-> t]

\* What a walk sees: what is below a directory, but for what is below directories that
\* cannot be read or listed, which is passed over without a word.
Visible(t, dir, unread) ==
  {p \in Below(t, dir) : ~\E d \in unread : IsStrictPrefix(d, p)}

\* The lists of a walk: directories before what is in them.
Orders(S) == {o \in SetToSeqs(S) :
                \A i, j \in DOMAIN o : IsStrictPrefix(o[i], o[j]) => i < j}
Walks(t, dir) ==
  UNION {Orders(Visible(t, dir, unread)) :
           unread \in SUBSET {d \in {dir} \cup Below(t, dir) : IsDir(t, d)}}

------------------------------------------------------------------------------
(* Names *)

\* ComputeLNames and ComputeRNames: of a recursive list the directory's own name and what
\* is below it, of a single item the last name only, both in the destination.
Destination(dst, item, p, recursive) ==
  dst \o (IF recursive THEN SubSeq(p, Len(item), Len(p)) ELSE <<Last(p)>>)

\* An entry knows the item it belongs to, which only the history needs.
Entry(t, dst, item, p, recursive) ==
  [item |-> item, src |-> p, dst |-> Destination(dst, item, p, recursive),
   type |-> IF recursive /\ p \in DOMAIN t /\ t[p] \in {"d", "l"} THEN t[p] ELSE "-"]

ListOf(t, dst, item, order) == [i \in DOMAIN order |-> Entry(t, dst, item, order[i], TRUE)]
Listed(fs) == {e \in fs : e.type # "d"}
LinksOf(fs) == {e \in Range(fs) : e.type = "l"}

\* All that an item stands for.
EntriesOf(t, dst, item, walk) ==
  IF walk THEN {Entry(t, dst, item, p, TRUE) : p \in Below(t, item)}
  ELSE {Entry(t, dst, item, item, FALSE)}

From == IF req.kind = "PUT" THEN local ELSE remote
To   == IF req.kind = "PUT" THEN remote ELSE local
Move(from, to) == IF req.kind = "PUT" THEN local' = from /\ remote' = to
                  ELSE remote' = from /\ local' = to

------------------------------------------------------------------------------
(* Requests *)

Idle == [kind |-> "none", items |-> <<>>, dst |-> <<>>, recurse |-> FALSE,
         resume |-> FALSE, delete |-> FALSE, ascii |-> FALSE]

Init ==
  /\ remote \in RemoteTrees /\ local \in LocalTrees
  /\ connected = TRUE /\ cancelXfer = 0 /\ req = Idle /\ items = <<>> /\ files = <<>>
  /\ links = {} /\ n = 0 /\ recurse1 = FALSE /\ named = TRUE /\ begun = FALSE
  /\ result = "ok" /\ batchResult = "ok" /\ pc = "idle" /\ tar = "unknown" /\ calls = 0
  /\ was = <<>> /\ asked = {} /\ passed = {} /\ silent = {} /\ archived = {} /\ deleted = {}
  /\ canceled = FALSE /\ stale = FALSE /\ forgot = FALSE

Starts(r) ==
  /\ pc = "idle" /\ calls < MaxCalls /\ (calls > 0 => r \in LaterRequests) /\ connected
  /\ req' = r /\ calls' = calls + 1 /\ result' = "ok"
  /\ links' = {} /\ named' = TRUE /\ begun' = FALSE
  /\ passed' = {} /\ archived' = {} /\ deleted' = {} /\ canceled' = FALSE /\ forgot' = FALSE

\* The names are fetched for a pattern, or taken as they are.
FTPGetFiles ==
  \E r \in Requests :
    /\ r.kind = "GET" /\ Starts(r)
    /\ items' = r.items /\ cancelXfer' = 0 /\ batchResult' = "ok"
    /\ pc' = IF r.items = <<>> THEN "done" ELSE "items"
    /\ was' = remote /\ silent' = {}
    /\ asked' = Listed(UNION {EntriesOf(remote, r.dst, item, r.recurse /\ IsDir(remote, item)) :
                                item \in Range(r.items)})
    /\ files' = <<>> /\ n' = 0 /\ recurse1' = FALSE /\ stale' = FALSE
    /\ UNCHANGED <<remote, local, connected, tar>>

\* All that is to be uploaded is listed at once, and a directory in any order of a walk.
PutLists(r) ==
  IF ~r.recurse
  THEN {[i \in DOMAIN r.items |-> Entry(local, r.dst, r.items[i], r.items[i], FALSE)]}
  ELSE LET item == Head(r.items)
       IN IF r.items = <<>> \/ ~Has(local, item) THEN {<<>>}
          ELSE {<<Entry(local, r.dst, item, item, TRUE)>> \o ListOf(local, r.dst, item, order) :
                  order \in Walks(local, item)}

\* What an earlier cancellation has set is cleared by the application, or is not.  Nothing
\* to upload is an error only of a recursive request.
FTPPutFiles ==
  \E r \in Requests :
    /\ r.kind = "PUT" /\ Starts(r)
    /\ cancelXfer' \in {0, cancelXfer} /\ stale' = (cancelXfer' > 0)
    /\ \E fs \in PutLists(r) :
         /\ files' = fs /\ n' = Len(fs)
         /\ asked' = Listed(Range(fs) \cup
                            (IF r.recurse THEN UNION {EntriesOf(local, r.dst, item, TRUE) :
                                                        item \in Range(r.items)} ELSE {}))
         /\ silent' = asked' \ Range(fs)
         /\ IF r.recurse /\ fs = <<>> THEN pc' = "error" /\ batchResult' = "failed"
                                      ELSE pc' = "files" /\ batchResult' = "ok"
    /\ was' = local /\ items' = <<>> /\ recurse1' = r.recurse
    /\ UNCHANGED <<remote, local, connected, tar>>

FTPDelete ==
  \E r \in Requests :
    /\ r.kind = "DELE" /\ Starts(r)
    /\ items' = r.items /\ pc' = "delete" /\ batchResult' = "ok"
    /\ was' = remote /\ silent' = {}
    /\ asked' = {[item |-> p, src |-> p, dst |-> p, type |-> "-"] : p \in Range(r.items)}
    /\ files' = <<>> /\ n' = 0 /\ recurse1' = FALSE /\ stale' = FALSE
    /\ UNCHANGED <<remote, local, connected, tar, cancelXfer>>

------------------------------------------------------------------------------
(* The items of a download *)

Quiet == UNCHANGED <<req, calls, was, asked, deleted, stale>>
AfterItem == IF Tail(items) = <<>> THEN "done" ELSE "items"
Directory == connected /\ req.recurse /\ items # <<>> /\ IsDir(remote, Head(items))

\* FTPGetOneTarF asks for a directory as an archive and hands it to tar.
Tarable == Directory /\ tar # "no" /\ ~req.ascii /\ ~req.delete /\ Head(items) # <<>>

\* The names in the archive are those from the server's working directory, to which
\* FTPGetOneTarF does not change for a path with a slash (io_gettar.c:127).
ArchiveTo(p) == req.dst \o p
Archived == {Head(items)} \cup Below(remote, Head(items))

\* What tar can put in its place, directories above it included.
Fits(p) ==
  /\ IsDir(local, req.dst)
  /\ \A i \in 1 .. Len(p) - 1 : LET q == ArchiveTo(SubSeq(p, 1, i))
                                IN Has(local, q) => IsDir(local, q)
  /\ Has(local, ArchiveTo(p)) => (IsDir(local, ArchiveTo(p)) <=> IsDir(remote, p))

\* tar replaces what is there, and its exit status is not looked at: it has unpacked any
\* part of the archive, the last file perhaps in part.
Unpacked(parts, cut) ==
  LET made  == {ArchiveTo(p) : p \in parts}
      above == UNION {{SubSeq(q, 1, i) : i \in 1 .. Len(q) - 1} : q \in made}
      Of(q) == SubSeq(q, Len(req.dst) + 1, Len(q))
  IN [q \in DOMAIN local \cup made \cup above |->
        CASE q \in made /\ Of(q) \in cut -> Partial
          [] q \in made /\ Of(q) \notin cut -> remote[Of(q)]
          [] q \notin made /\ q \in DOMAIN local -> local[q]
          [] OTHER -> "d"]
Unpacks ==
  /\ archived' = archived \cup {ArchiveTo(p) : p \in Archived}
  /\ \E parts \in SUBSET {p \in Archived : Fits(p)} :
       \E cut \in {{}} \cup {{p} : p \in {q \in parts : IsFile(remote, q)}} :
         local' = Unpacked(parts, cut)

\* While the archive is fetched the application may cancel; what it canceled before has
\* been cleared.
CanceledInArchive ==
  /\ cancelXfer' \in {0, 1} /\ canceled' = (canceled \/ cancelXfer' = 1)
  /\ forgot' = (forgot \/ canceled)

\* The archive has been read: the item is done, whatever tar has made of it.
TarBrings ==
  /\ pc = "items" /\ Tarable /\ Unpacks /\ CanceledInArchive
  /\ tar' = "yes" /\ items' = Tail(items) /\ pc' = AfterItem
  /\ silent' = silent \cup {e \in asked : e.item = Head(items)}
  /\ UNCHANGED <<remote, connected, files, links, n, recurse1, named, begun, result,
                 batchResult, passed>>
  /\ Quiet

\* No archive, which is not even asked for when there is a file of its name; or not all of
\* it, also when the application has canceled the transfer: the directory is walked.
TarFails ==
  /\ pc = "items" /\ Tarable /\ pc' = "walk" /\ connected' \in BOOLEAN
  /\ \/ /\ tar' \in {tar, IF tar = "unknown" THEN "no" ELSE tar}
        /\ cancelXfer' \in {0, cancelXfer} /\ forgot' = (forgot \/ (canceled /\ cancelXfer' = 0))
        /\ UNCHANGED <<local, archived, canceled>>
     \/ tar' = "yes" /\ Unpacks /\ CanceledInArchive
  /\ UNCHANGED <<remote, items, files, links, n, recurse1, named, begun, result, batchResult,
                 passed, silent>>
  /\ Quiet

\* After its list is made an item is given up when cancelXfer is set.
ItemListed(fs) ==
  /\ items' = Tail(items) /\ begun' = TRUE /\ n' = Len(fs) /\ result' = "ok"
  /\ IF cancelXfer' > 0 THEN files' = <<>> /\ links' = {} /\ pc' = "canceled"
     ELSE files' = fs /\ links' = LinksOf(fs) /\ pc' = "files"
  /\ asked' = asked \cup Listed(Range(fs))
  /\ silent' = silent \cup {e \in asked : e.item = Head(items) /\ e.src \in DOMAIN remote
                                         /\ e \notin Range(fs)}
  /\ UNCHANGED <<remote, local, tar, req, batchResult, calls, was, passed, archived, deleted,
                 stale>>

\* A name that is not to be walked is taken for a file, also a directory that FTPIsDir
\* cannot change to.
GetName ==
  /\ pc = "items" /\ items # <<>> /\ recurse1' = FALSE /\ named' = TRUE
  /\ connected' \in {connected, connected /\ ~req.recurse}
  /\ UNCHANGED <<cancelXfer, canceled, forgot>>
  /\ ItemListed(<<Entry(remote, req.dst, Head(items), Head(items), FALSE)>>)

\* FTPRemoteRecursiveFileList2, whose result is not looked at, and whose first listing
\* clears cancelXfer.  A walk that fails leaves the beginning of a list without the
\* server's names, and one that cannot begin no list at all or the directory itself.
ToWalk == \/ pc = "items" /\ Directory /\ ~Tarable
          \/ pc = "walk"
NoWalk(item) ==
  {<<>>, <<[Entry(remote, req.dst, item, item, FALSE) EXCEPT
              !.dst = req.dst \o <<Last(item)>> \o item]>>}
WalkItem ==
  /\ ToWalk /\ recurse1' = TRUE /\ connected' \in {connected, FALSE}
  /\ LET item == Head(items)
         all(o) == ListOf(remote, req.dst, item, o)
     IN \/ \E o \in Walks(remote, item) :
             /\ connected /\ cancelXfer' \in {0, 1} /\ canceled' \in {canceled, TRUE}
             /\ cancelXfer' = 1 => canceled'
             /\ forgot' = (forgot \/ (canceled' /\ cancelXfer' = 0))
             /\ \/ named' = TRUE /\ ItemListed(all(o))
                \/ named' = FALSE /\ \E k \in 0 .. Len(o) : ItemListed(SubSeq(all(o), 1, k))
        \/ \E fs \in NoWalk(item) :
             /\ named' = FALSE /\ (begun \/ fs # <<>>) /\ UNCHANGED <<cancelXfer, canceled, forgot>>
             /\ ItemListed(fs)

\* When the working directory cannot be got, the list is what it was: empty after an
\* earlier list; at first it has not been initialised, and may just as well crash.
WalkUninitialised ==
  /\ ToWalk /\ ~begun
  /\ connected' \in {connected, FALSE} /\ named' = FALSE /\ recurse1' = TRUE
  /\ \/ UNCHANGED <<cancelXfer, canceled, forgot>> /\ ItemListed(<<>>)
     \/ /\ pc' = "crashed"
        /\ UNCHANGED <<remote, local, cancelXfer, items, files, links, n, begun, tar, result,
                       batchResult, passed, silent, archived, canceled, forgot>>
        /\ Quiet

------------------------------------------------------------------------------
(* The loop over the files *)

\* A lost connection ends the loop over the files.
NotConnected ==
  /\ pc = "files" /\ files # <<>> /\ ~connected
  /\ batchResult' = (IF batchResult = "ok" THEN "lost" ELSE batchResult)
  /\ result' = (IF req.kind = "GET" THEN "ok" ELSE result) /\ files' = <<>>
  /\ UNCHANGED <<remote, local, connected, cancelXfer, tar, items, links, n, recurse1, named,
                 begun, pc, passed, silent, archived, canceled, forgot>>
  /\ Quiet

\* A directory: MkDirs here, whose failure is not looked at, or FTPMkdir there.
ListedDirectory ==
  /\ pc = "files" /\ files # <<>> /\ connected /\ Head(files).type = "d"
  /\ LET dir == Head(files).dst
     IN \/ req.kind = "GET" /\ local' = MkDirs(local, dir).tree /\ result' = "ok"
           /\ UNCHANGED <<remote, batchResult, connected>>
        \/ /\ req.kind = "PUT" /\ IsDir(remote, Front(dir)) /\ (Has(remote, dir) => IsDir(remote, dir))
           /\ remote' = With(remote, dir, "d") /\ result' = "ok"
           /\ UNCHANGED <<local, batchResult, connected>>
        \/ req.kind = "PUT" /\ result' = "failed" /\ batchResult' = "failed"
           /\ connected' \in BOOLEAN /\ UNCHANGED <<local, remote>>
  /\ files' = Tail(files)
  /\ UNCHANGED <<cancelXfer, tar, items, links, n, recurse1, named, begun, pc, passed, silent,
                 archived, canceled, forgot>>
  /\ Quiet

\* A link is made at once on the server, if it can be, and after the files here.
ListedLink ==
  /\ pc = "files" /\ files # <<>> /\ connected /\ Head(files).type = "l"
  /\ \/ /\ req.kind = "PUT" /\ IsDir(remote, Front(Head(files).dst))
        /\ ~Has(remote, Head(files).dst) /\ remote' = With(remote, Head(files).dst, "l")
        /\ UNCHANGED connected
     \/ UNCHANGED remote /\ connected' \in {connected, req.kind = "GET"}
  /\ files' = Tail(files) /\ result' = (IF req.kind = "GET" THEN "ok" ELSE result)
  /\ UNCHANGED <<local, cancelXfer, tar, items, links, n, recurse1, named, begun, batchResult,
                 pc, passed, silent, archived, canceled, forgot>>
  /\ Quiet

\* What one file's result makes of the batch's: that there is nothing to do is no failure
\* unless it is the only file.
BatchResultOfLast(r) == IF r = "newer" /\ n # 1 THEN "ok" ELSE r
BatchResult(r) ==
  IF r = "ok" \/ (r = "newer" /\ n # 1) THEN batchResult ELSE r

\* After a file the loop goes on, or the whole request ends when cancelXfer is set.
FileDoneGoesOn(r) ==
  /\ result' = r /\ batchResult' = BatchResult(r)
  /\ pc' = pc /\ files' = Tail(files)
  /\ UNCHANGED <<tar, req, items, links, n, recurse1, named, begun, calls, was, asked, archived,
                 stale, forgot>>
FileDone(r) ==
  /\ result' = r /\ batchResult' = BatchResult(r)
  /\ IF r = "canceled" \/ cancelXfer' > 0
     THEN pc' = "canceled" /\ files' = <<>>
     ELSE pc' = pc /\ files' = Tail(files)
  /\ UNCHANGED <<tar, req, items, links, n, recurse1, named, begun, calls, was, asked, archived,
                 stale, forgot>>

\* The directory a file of a recursive download goes to is made when it is not there.
Prepared == IF recurse1 /\ req.kind = "GET" THEN MkDirs(local, Front(Head(files).dst))
            ELSE [ok |-> TRUE, tree |-> To]

CannotPrepare ==
  /\ pc = "files" /\ files # <<>> /\ connected /\ Head(files).type = "-" /\ ~Prepared.ok
  /\ files' = Tail(files) /\ batchResult' = "failed" /\ result' = "ok"
  /\ UNCHANGED <<remote, local, connected, cancelXfer, tar, items, links, n, recurse1, named,
                 begun, pc, passed, silent, archived, canceled, forgot>>
  /\ Quiet

NextFile == pc = "files" /\ files # <<>> /\ connected /\ Head(files).type = "-" /\ Prepared.ok
File     == NextFile /\ named

\* FTPGetFiles3 returns at once when the server refuses the type for a text file of a
\* directory.
CannotSetType ==
  /\ NextFile /\ req.kind = "GET" /\ recurse1 /\ req.ascii
  /\ Move(From, Prepared.tree) /\ connected' \in BOOLEAN
  /\ pc' = "error" /\ result' = "failed" /\ batchResult' = "failed" /\ files' = <<>>
  /\ UNCHANGED <<cancelXfer, tar, items, links, n, recurse1, named, begun, passed, silent,
                 archived, canceled, forgot>>
  /\ Quiet

\* The source is deleted when it was to be, unless that fails.
Deletes(e, gone) ==
  /\ gone \in {FALSE, req.delete}
  /\ deleted' = IF gone THEN deleted \cup {e} ELSE deleted
Left(e, gone) == IF gone THEN Without(From, e.src) ELSE From
Failing(gone) == req.delete /\ ~gone

\* The transfer has cleared cancelXfer, and the application may set it again.
MayCancel == cancelXfer' \in {0, 1} /\ canceled' = (canceled \/ cancelXfer' = 1)

\* All of the file is sent.  The application may set cancelXfer when it is too late.  That
\* the source cannot be deleted is a failure.
Transferred ==
  /\ File /\ MayCancel
  /\ LET e == Head(files)
     IN /\ IsFile(From, e.src) /\ CanHold(Prepared.tree, e.dst)
        /\ \E gone \in BOOLEAN :
             /\ Deletes(e, gone) /\ connected' \in {TRUE, ~Failing(gone)}
             /\ Move(Left(e, gone), With(Prepared.tree, e.dst, From[e.src]))
             /\ FileDone(IF Failing(gone) THEN "failed" ELSE "ok")
  /\ UNCHANGED <<passed, silent>>

\* A resumed transfer completes what it finds, be it the beginning of this file or not.
Splices ==
  /\ File /\ req.resume /\ MayCancel
  /\ LET e == Head(files)
     IN /\ IsFile(From, e.src) /\ IsFile(To, e.dst) /\ To[e.dst] # From[e.src]
        /\ silent' = silent \cup {e}
        /\ \E gone \in BOOLEAN :
             /\ Deletes(e, gone) /\ connected' \in {TRUE, ~Failing(gone)}
             /\ Move(Left(e, gone), With(Prepared.tree, e.dst, Mixed))
             /\ FileDone(IF Failing(gone) THEN "failed" ELSE "ok")
  /\ UNCHANGED passed

SameOfName(e) == TRUE
Same(e) == To[e.dst] = From[e.src] \/ <<To[e.dst], From[e.src]>> \in Alike

\* The file is there already, as a resumed transfer concludes from the sizes and times
\* without a data transfer; or the application resumes at its end.  To delete the source
\* is then all there is to do, and only FTPPutOneF says when that fails.
SameAlready ==
  /\ File /\ req.resume /\ UNCHANGED <<cancelXfer, canceled, silent>>
  /\ LET e == Head(files)
     IN /\ IsFile(From, e.src) /\ IsFile(To, e.dst) /\ Same(e) /\ passed' = passed \cup {e}
        /\ \E gone \in BOOLEAN :
             /\ Deletes(e, gone) /\ Move(Left(e, gone), Prepared.tree)
             /\ connected' \in {TRUE, ~(Failing(gone) /\ req.kind = "GET")}
             /\ IF Failing(gone) /\ req.kind = "PUT" THEN FileDone("failed")
                ELSE FileDone("newer") \/ FileDone("ok")

\* The local file is newer, and is left.
NewerAlready ==
  /\ File /\ req.resume /\ req.kind = "GET"
  /\ LET e == Head(files) IN IsFile(From, e.src) /\ IsFile(To, e.dst) /\ passed' = passed \cup {e}
  /\ UNCHANGED <<remote, local, connected, cancelXfer, canceled, deleted, silent>>
  /\ FileDone("newer")

\* What is there is left as it is, because the application says so or because the server
\* tells sizes or times and has not told this file's: "nothing done, but not an error"
\* (io_get.c:311, io_put.c:421), and the source is deleted all the same.
SkippedSilently ==
  /\ File /\ req.resume /\ UNCHANGED <<cancelXfer, canceled, passed>>
  /\ LET e == Head(files)
     IN /\ Has(To, e.dst) /\ silent' = silent \cup {e}
        /\ \E gone \in BOOLEAN :
             /\ Deletes(e, gone) /\ (gone => IsFile(From, e.src))
             /\ Move(Left(e, gone), To)
             /\ connected' \in {TRUE, ~(Failing(gone) /\ req.kind = "GET")}
             /\ FileDone(IF Failing(gone) /\ req.kind = "PUT" THEN "failed" ELSE "ok")

\* The application, asked what to do about a file that is there, gives up.
Refuses ==
  /\ File /\ req.resume /\ Has(To, Head(files).dst)
  /\ cancelXfer' = 1 /\ canceled' = TRUE
  /\ FileDone("canceled")
  /\ UNCHANGED <<remote, local, connected, deleted, passed, silent>>

\* A failure before the data, or the connection lost there; without the server's name
\* there is none other.
NotStarted ==
  /\ NextFile /\ connected' \in {TRUE, ~named}
  /\ Move(From, Prepared.tree)
  /\ UNCHANGED <<cancelXfer, canceled, deleted, passed, silent>>
  /\ FileDone("failed")

\* The transfer breaks, perhaps after its last byte, is aborted by the application, or the
\* connection is lost in it.
Broken ==
  /\ File /\ connected' \in BOOLEAN /\ MayCancel
  /\ LET e == Head(files)
     IN /\ IsFile(From, e.src) /\ CanHold(Prepared.tree, e.dst)
        /\ \E c \in {Partial, From[e.src]} : Move(From, With(Prepared.tree, e.dst, c))
  /\ FileDone("failed")
  /\ UNCHANGED <<deleted, passed, silent>>

\* The links of a list replace what has their names; one whose target the server has not
\* told only removes it.  FTPRmdirRecursive2, called when the sources are to be deleted,
\* ends at its first test and removes nothing.
FilesDone ==
  /\ pc = "files" /\ files = <<>>
  /\ \E told \in SUBSET links :
       LET Places(ls) == {e.dst : e \in {l \in ls : CanHold(local, l.dst)}}
       IN local' = [p \in (DOMAIN local \ Places(links)) \cup Places(told) |->
                      IF p \in Places(told) THEN "l" ELSE local[p]]
  /\ links' = {}
  /\ pc' = IF req.kind = "GET" /\ items # <<>> THEN "items" ELSE "done"
  /\ connected' \in {connected, connected /\ ~(recurse1 /\ req.kind = "GET" /\ req.delete)}
  /\ UNCHANGED <<remote, cancelXfer, tar, items, files, n, recurse1, named, begun, result,
                 batchResult, passed, silent, archived, canceled, forgot>>
  /\ Quiet

------------------------------------------------------------------------------
(* Deletion *)

\* One DELE: done, refused, or the connection lost, which ends the loop.  Recursively what
\* is refused is tried as a directory: RMD, which an empty one allows, and then
\* FTPRmdirRecursive, which ends at its first test for any directory and returns what is
\* taken for success (c_rmdirr.c:92).
DeleteItem ==
  /\ pc = "delete" /\ items # <<>>
  /\ LET p == Head(items)
     IN \/ /\ connected /\ \/ p \in DOMAIN remote /\ ~IsDir(remote, p)
                           \/ req.recurse /\ p \in DOMAIN remote /\ Below(remote, p) = {}
           /\ remote' = Without(remote, p) /\ items' = Tail(items)
           /\ UNCHANGED <<batchResult, connected, silent>>
        \/ /\ connected /\ items' = Tail(items) /\ batchResult' = "failed"
           /\ connected' \in {TRUE, ~req.recurse} /\ UNCHANGED <<remote, silent>>
        \/ /\ connected /\ req.recurse /\ IsDir(remote, p) /\ items' = Tail(items)
           /\ silent' = silent \cup {e \in asked : e.src = p}
           /\ UNCHANGED <<remote, batchResult, connected>>
        \/ connected' = FALSE /\ items' = <<>> /\ batchResult' = "lost"
           /\ UNCHANGED <<remote, silent>>
  /\ UNCHANGED <<local, cancelXfer, tar, files, links, n, recurse1, named, begun, result, pc,
                 passed, archived, canceled, forgot>>
  /\ Quiet

Return ==
  /\ \/ pc \in {"done", "canceled", "error"}
     \/ pc = "delete" /\ items = <<>>
  /\ pc' = "idle" /\ req' = Idle /\ items' = <<>> /\ links' = {} /\ files' = <<>> /\ n' = 0
  /\ recurse1' = FALSE /\ named' = TRUE /\ begun' = FALSE /\ result' = "ok" /\ batchResult' = "ok"
  /\ was' = <<>> /\ asked' = {} /\ passed' = {} /\ silent' = {} /\ archived' = {} /\ deleted' = {}
  /\ canceled' = FALSE /\ stale' = FALSE /\ forgot' = FALSE
  /\ UNCHANGED <<remote, local, connected, cancelXfer, tar, calls>>

Next ==
  \/ FTPGetFiles \/ FTPPutFiles \/ FTPDelete
  \/ TarBrings \/ TarFails \/ GetName \/ WalkItem \/ WalkUninitialised
  \/ NotConnected \/ ListedDirectory \/ ListedLink \/ CannotPrepare \/ CannotSetType
  \/ Transferred \/ Splices \/ SameAlready \/ NewerAlready \/ SkippedSilently \/ Refuses
  \/ NotStarted \/ Broken \/ FilesDone \/ DeleteItem \/ Return

Spec == Init /\ [][Next]_vars

------------------------------------------------------------------------------
(* What the requests promise *)

\* Another of the entries, or a part of an archive, may have the same destination; another
\* may have the same source and have moved it away.
Clash(e) == e.dst \in archived \/ \E other \in asked : other # e /\ other.dst = e.dst
Moved(e) == \E other \in deleted : other # e /\ other.src = e.src
Holds(e) == e.dst \in DOMAIN To /\ e.src \in DOMAIN was /\ To[e.dst] = was[e.src]
Looks(e) == e.dst \in DOMAIN To /\ e.src \in DOMAIN was
            /\ (To[e.dst] = was[e.src] \/ <<To[e.dst], was[e.src]>> \in Alike)

\* A request that returns kNoErr has delivered every file that its names stood for when it
\* began, or found nothing to do for it; what was to be deleted is gone.  Set apart are the
\* requests that the application has canceled, or that began with the flag of one it
\* canceled earlier, and the entries in `silent', where the code is known to return kNoErr
\* without: what was fetched as an archive, whatever tar made of it; what a walk did not
\* see, or saw nothing of; what was skipped without a word, or resumed from the beginning
\* of something else; directories that a recursive FTPDelete leaves.
Delivered ==
  /\ pc \in {"done", "canceled"} /\ batchResult = "ok" /\ ~canceled /\ ~stale =>
       \A e \in asked \ (passed \cup silent) : e.type = "-" => Holds(e) \/ Clash(e) \/ Moved(e)
  /\ pc = "delete" /\ items = <<>> /\ batchResult = "ok" =>
       \A e \in asked \ silent : e.src \notin DOMAIN remote

\* A source that a request has deleted is at its destination, from then to the end of the
\* request: the file itself, or, when it was there already, one that looked like it by size
\* and time.  Set apart are two entries with one destination, and the sources that the code
\* deletes after a file was skipped without a word or resumed from something else.
SourceSafe ==
  \A e \in deleted \ silent : Holds(e) \/ (e \in passed /\ Looks(e)) \/ Clash(e)

\* When the application has canceled a request, no file is touched any more for it, unless
\* the library has cleared the flag unseen: one that was set while an archive or a listing
\* was on its way is cleared by the next, and the request goes on.
CanceledStops == [][canceled /\ canceled' /\ ~forgot' => UNCHANGED <<remote, local>>]_vars
==============================================================================
