# LibNcFTP in TLA+

TLA+ models of LibNcFTP (`src/libncftp`, with the socket library `src/sio`), the
TLC configurations that check them on small instances, and proofs that TLAPS
checks for every instance. The reference is the C code: every definition that
models code is mapped to its lines in `PROJECT.json`, which also lists the
components, the runs, the hazards and what was found.

## 1. The system

LibNcFTP is a client library. An application allocates one `FTPConnectionInfo`
(*cip*) per session and calls functions on it. Nothing in the library runs in
parallel with the calls on one cip. What runs in parallel is the rest of the
world: the server on the other end of two TCP connections, the network, a
progress callback that may set `cip->cancelXfer`, signals during an upload by
`sendfile`, other processes that change the local files, and other clients of
the same server. Two things are difficult. One is the protocol between a
blocking client and a peer it cannot trust to be prompt: replies carry no tag
that says which command they answer, data and replies race with each other, and
each wait has a timeout after which the session goes on in some other way. The
other is that the library decides much from what it has learnt or guessed
(whether the server knows a command, where the session is, whether two files are
versions of one another, what a line of a listing means), and acts on it later.

| Component | State | Operations | Model |
|---|---|---|---|
| Control connection (`rcmd.c`, `sio/SReadline.c`, `u_shutdownci.c`) | sockets, SReadline's buffer, `errNo`, `dataTimedOut`, `canceled`, `canceling` | `FTPCmd`, `RCmd`, `GetResponse`, `FTPStartDataCmd3`, `FTPAbortDataTransfer`, `FTPEndDataCmd`, `FTPShutdownHost` | `FtpSession` |
| Data connection (`ftp.c`) | data socket, `dataPortMode`, `hasPASV` | `OpenDataConnection`, `AcceptDataConnection`, `CloseDataConnection` | `FtpSession` |
| Transfers (`io_get.c`, `io_put.c`, `io_util.c`, `io_getmem.c`, `io_putmem.c`, `io_sendfile.c`) | `startPoint`, `curTransferType`, `hasREST`, the counters of a transfer; the two files | `FTPGetOneF`, `FTPPutOneF`, `FTPGetFileToMemory`, `FTPPutFileFromMemory`, `DoSendfile` | `FtpSession` (the connection), `Transfer` (the files), `Sendfile` (the loop) |
| Opening, login, closing (`open.c`, `c_opennologin.c`, `u_feat.c`) | the connection's fields, the locals of `FTPLoginHost` | `FTPOpenHost`, `FTPOpenHostNoLogin`, `FTPLoginHost`, `FTPQueryFeatures`, `FTPCloseHost` | `OpenHost` |
| Remote directories (`c_chdir*.c`, `c_getcwd.c`, `c_mkdir.c`, `c_rmdir*.c`, `c_filetype.c`, `c_exists.c`) | the PWD cache, `startingWorkingDirectory`, `cip->buf` | `FTPChdir`, `FTPChdirAndGetCWD`, `FTPChdir3`, `FTPGetCWD`, `FTPMkdir2`, `FTPRmdir`, `FTPFileType`, `FTPFileExists2` | `RemoteDirs` |
| File queries and learnt features (`u_feat.c`, `open.c`, `c_size.c`, `c_modtime.c`, `c_sizemdtm.c`, `c_mlist1.c`, `c_utime.c`, `c_exists.c`, `c_filetype.c`) | the `has...` fields, `usedMLS` | `FTPQueryFeatures`, overrides, `FTPFileSize`, `FTPFileModificationTime`, `FTPFileSizeAndModificationTime`, `FTPFileExists2`, `FTPFileType`, `FTPUtime` | `Features` |
| Listings and globbing (`io_listmem.c`, `io_list.c`, `unls.c`, `rglob.c`, `rglobr.c`) | lists of lines and files, the parsers' locals, `cip->buf` | `FTPListToMemory2`, `FTPList`, `FTPRemoteGlob`, `UnLslR`, `UnMlsD`, `FTPRemoteRecursiveFileList` | `Listing` |
| Tree walks (`ftw.c`, `rftw.c`, `lglobr.c`, `rglobr.c`) | the path buffer, depth, the recursion, the working directory | `Ftw`, `FTPFtw`, `FTPLocalRecursiveFileList2`, `FTPRemoteRecursiveFileList2` | `TreeWalk` |
| Batches (`io_getfiles.c`, `io_putfiles.c`, `io_gettar.c`, `c_delete.c`, `u_mkdirs.c`) | the list, `batchResult`, `cancelXfer`, `hasRETR_tar` | `FTPGetFiles3`, `FTPPutFiles4`, `FTPGetOneTarF`, `FTPDelete` | `Batches` |
| Lists (`linelist.c`) | linked nodes, a vector, the last sort key | add, remove, vectorize, sort, unvectorize, dispose | `FileInfoList`, abstract: `FileSeq` |
| Path, string and date helpers | none | pure functions | not modelled |
| sio wrappers, user environment, messages, samples | none of their own | system calls, formatting | not modelled |

How they interact. All of them share the cip. A transfer is `FTPStartDataCmd3`
(type, data connection, start point, command), a loop on the data socket, and
`FTPEndDataCmd`, or `FTPAbortDataTransfer` before it. Every error deep inside
may call `FTPShutdownHost`, which resets part of the cip beneath the functions
that are still running. The learnt fields (`hasPASV`, `hasREST`,
`curTransferType`, the PWD cache) survive from one call to the next, and some
of them from one session to the next. A batch lists (by a walk, or a glob) and
then transfers, makes or deletes what it has listed, one call after the other.

The models meet where the code's functions do: `FtpSession` says that a command
and its reply pair, so in the modules above it (`RemoteDirs`, `Features`,
`Transfer`, `Listing`) a command with its reply is one step; `Transfer` says what
one transfer may do to its files, so in `Batches` it is one step with those
outcomes; `TreeWalk` says what a walk lists, so in `Batches` a list is made in one step.

What makes the components correct:

* control connection: each reply is read by the call that sent its command;
  between two calls nothing is outstanding; every wait ends;
* data connection: each socket is closed on each error path; the fallbacks
  respect the mode that was asked for;
* transfers: `kNoErr` means the whole file, of one version, however often it was
  interrupted before; both ends agree on type and offset; what is deleted after
  a transfer has arrived; a temporary name never shows a part;
* login: names and passwords go to whom they are meant for; success means that
  the target host, not a firewall, accepted; a failure leaves nothing behind;
* directories: the cache is what the server would say; a call that is not asked
  to move the session leaves it where it was; what is reported as made exists;
* queries: what is held about a server is so; an answer was true at some moment
  of the call; a command known to be missing is not asked for again;
* listings: the entries are those of the directory, under names that denote them;
* walks: each entry once, under its own name, parents first, and no deeper than the limit;
* batches: success covers every file; deletion covers none that has not arrived;
  after a cancellation nothing is touched;
* lists: the pointers are those of one list, and it is a sequence.

## 2. The modules

### FtpSession

The session between login and close. The library's side has one action per
stretch of C code between two points where it blocks; `pc` names the point:

| `pc` | waiting in |
|---|---|
| `cmd`, `check`, `check1`, `check0` | `FTPCmd`; the TYPE, REST 1 and REST 0 of `FTPCheckForRestartModeAvailability` |
| `type`, `open`, `rest`, `start`, `rest0`, `appe` | the commands of `FTPStartDataCmd3`: TYPE, PORT or PASV, REST, the transfer command, and for a refused STOR with a start point REST 0 and APPE |
| `connect`, `accept` | `OpenDataConnection` (PASV), `AcceptDataConnection` (PORT) |
| `xfer`, `eofwait` | the transfer loops; the wait after a put for the server's close |
| `abort1`, `abort2`, `abortReply`, `abortReply2` | `FTPAbortDataTransfer` |
| `final`, `quit` | `FTPEndDataCmd`; `FTPCloseHost` |

`cip` is a record with the fields of the C structure that these functions read
or write, under their names. `cmdQ` and `repQ` are the two directions of the
control connection, `cip.ctrlSrl` is SReadline's buffer: one read takes
any number of replies that have arrived, so a reply may sit there while the
socket is empty. `link` and `wire` are the data connection (`up`, half closed,
`fin`, `reset`, `cut`) and the blocks under way in it. `srv` is the server: it
answers commands in order, a transfer with a 1xx and a final reply, may refuse
any command, fail in the middle of a transfer, send 421, or hang up.
`abandoned` is a history variable: it records that the library has gone by one of
the three paths known to leave a reply unread (a failed accept, an abort that
gave up waiting or that read one of two replies, a failed rewind of the local
file); the properties about
pairing say that there is no fourth.

A reply carries the verb and the number of the call it answers. Only the
properties look at these tags.

Assumed of the outside: a build with `NO_SIGNALS` and `USE_SIO`; a server that
speaks RFC 959 (a 1xx is followed by one final reply, no unrequested replies
but 421); control writes are never partial; `select` itself does not fail;
`abortTimeout` is not 0. A file is `FileBlocks` blocks. A list runs as a retrieve
does, except when its data times out: `io_list.c:61-65` and
`io_listmem.c:189-193` then return without `FTPEndDataCmd`, which is not modelled.

### OpenHost

`FTPOpenHost`'s dial loop around `OpenControlConnection`, the automaton of
`FTPLoginHost` (USER, PASS, ACCT, SITE, OPEN and the flags `fwloggedin`,
`fwsentpass`, `sentpass`), the first PWD, FEAT and HELP SITE,
`FTPOpenHostNoLogin`, a transfer that times out, and `FTPCloseHost`. What is
said on the connection is abstracted to a verb and the set of the application's
fields it carries (`user`, `fwuser`, `host`, `pass`, `fwpass`, `acct`, and
`stars` for a password that has been wiped). The server with the firewall
before it is external: the dialogue it expects is the one that
`doc/libncftp.html` ("Firewall fields") gives for each type, written as
`Script`; it may refuse a step, skip a password, repeat a question (server and firewall alike), send 421
or hang up. A greeting of 120 is modelled, with the shift of all replies that
follows, but the dialogue's properties are stated for sessions without one; `Misled` sets
apart what a firewall does to the dialogue that asks twice for its own password.

Left out: failing `malloc`, `FTPRebuildConnectionInfo`, a second `close` of the
same descriptor, `doNotGetStartingWorkingDirectory`. What FEAT and the overrides
say is in `Features`.

### RemoteDirs

The calls that move the session or ask where it is. A path is the sequence of
what its slashes separate, so that `"/a"`, `"a/"` and `""` stay apart; a C
string that may be empty is a set of at most one path. Between two
steps another client may make or remove a directory, and the server may refuse
what it could have done. A session that is lost is not a step here: it ends the
call, and `FTPShutdownHost` frees the cache and the buffer. `cip.buf` is the buffer in which
`FTPMkdir2`, `FTPFileType`, `FTPRmdirRecursive2` and `FTPChdir3` keep the
way back or the path they cut up. The commands take the record of the call as a
parameter (`CWD(path, ok, c)`), so that the step that follows and the call's
history are updated in one place.

Left out: `FTPChdirList` (the steps of `FTPChdir3` on a list), globbing in
`FTPRmdir`, paths longer than their buffers, `FTPMkParentDir`, and the
removal of a directory's contents, which `FTPRmdirRecursive2` does not reach for
anything it has found to be a directory.

### Transfer

What a get or a put does to the two files. A file is a sequence of characters
with its time; a version of the source is a number of lines, each one character
that names its version and its place, so that a file spliced of two versions can
be told. In type A each line's end is two characters on the wire (`ToNet`,
`FromNet`), and the sizes that `SIZE` gives, that `FTPLocalASCIIFileSize` counts
and that the file has on disk differ, as in the code. `pc` follows the function:
`ask` and `askMDTM` (the size and time of the remote file are asked for), `decide` (resume, append, skip
or overwrite: the comparison of sizes and times, with `recentMdtmHeuristic`),
`start`, `transfer`, `utime`, `rename` and `rename2`, `delete`. The transfer breaks anywhere; the
process may be killed at any step; the source is edited between calls and
during one; the clock runs. `cip` holds what the calls have learnt of SIZE, MDTM and
APPE, and `srv` what the server really can. `mixed` is a history variable: the
destinations that may hold something else than a beginning of one version, because the
application asked to append, answered the question itself, or the source was
edited during a transfer. The properties are about the others. `w.skipped` is history
too: the call has left things as they are and returns `kNoErr` ("Nothing done, but not an error", `io_get.c:310`),
because the application said so or for want of a size.

With memory in the place of the local file (kinds `GETMEM`, `PUTMEM`) the
decisions are those of `io_getmem.c` and `io_putmem.c`: a start point, a size of
the memory, and what is returned when the memory is full.

### Sendfile

`DoSendfile` for Linux as `FTPPutOneF` calls it: the loop around the kernel's
`sendfile`, the one of `read` and `write` it falls back to, the waits of each, and the
two signal handlers. A block of the file is its offset, and `sent` is what the
socket has been given. The kernel's offset (`off`) and the descriptor's (`pos`)
are kept apart, as the fall back must. The socket takes `Room` blocks while the
peer reads nothing; the peer may stop for ever or go away; another process
may shorten or lengthen the file; a signal comes before or during any system call.

### Features

What the library learns of a server, and what it asks with it. `has` is the
`has...` fields as a function of commands to `unknown`, `yes`, `no`; `plan` the
commands the running call has still to try, so that a fallback is a step. A
server is a record of what it does (its kind, for those that the code treats
apart; the commands; whether `SIZE` answers in type A, `MDTM` and
`SIZE` of directories; whether `STAT` and `NLST` heed their parameter; whether it prints
`.` and `..` in a directory, so that an empty one still gives lines). One item is asked about.
What `FTPQueryFeatures` presumes of a kind without asking (`open.c:450-625`) is an assumption
on the servers, `KindsAssumption`: a NetWare, Microsoft, DG/UX, WU-FTPD or NcFTPd server
has, or has not, what the code sets for that name, and one without FEAT has none of MLST, MFMT and MFF.
Another client changes it between two commands; the server refuses for want of permission, or for
the moment, what it could do: FEAT too, which the code takes for an old server (`open.c:533`), and the
way to the starting directory during a probe (`c_exists.c:95`). `feat` remembers whether FEAT's
reply has been read (MLST of an NcFTPd needs the compliance level in it, `c_mlist1.c:103`) and whether
the last FEAT was refused.
`FTPUtime` has its four ways with a memory of each.

### Listing

From what a server prints to entries. A text is a sequence of characters, a
line a record of its fields. `FTPListToMemory2` chooses the command (`LIST`, with
its flags, `NLST -a`, `MLSD`) from what is known and learns from a refusal; `RemoteGlobCollapse`
cuts names out of lines; `UnLslR` keeps the current
directory, its length and the directories to skip between lines, tells headers relative,
dotted or absolute, and guesses the year of a date without one. PWD may fail, which `UnLslR` does not look
at (`unls.c:661`, `730`): with a directory of no name any absolute header is taken for a relative one. `nocwd` remembers
that, and `EntriesRight` excepts it, as it does the dates of the coming year. What servers print
is external, and the contents of a directory come in one piece: the forms that the comments and the lines kept for tests in `rglob.c` and `rglobr.c` show.

### TreeWalk

`Ftw` and `FTPFtw` with one buffer for the path of the whole recursion, written at
offsets that are kept on a stack (`FtwTraverse`'s activations). The buffer grows,
fails or goes on without, as `FtwSetBuf` was told. The procedure called for each
entry is the application's, or one of the two that make lists (`lglobr.c`,
`rglobr.c`), which leave the server's directory changed while they walk. A tree
may have a directory that is the root again, one that cannot be read, an empty one, and lose entries
during the walk. Of an empty directory, or one that holds only sockets and the like, a server of LIST prints a total, `.` and
`..`, or nothing; the former `UnLslR` does not understand, and the walk ends (`OnlyOddEntries`).

### Batches

The loops of `FTPGetFiles3`, `FTPPutFiles4` and `FTPDelete`. The outcomes of one
transfer are those that `Transfer` gives: whole, the same already (by size and time, `Alike`), newer already,
skipped with `kNoErr`, spliced onto something else, not started, broken, canceled; each with or without the
connection's survival, the application's `cancelXfer`, and the deletion of the source.
`FTPGetOneTarF` asks for a directory as an archive. tar unpacks any part of it, the last file perhaps in part, over
what is there and under the names from the server's working directory (`ArchiveTo`); its exit status
is not looked at, and when the archive has not come whole the directory is walked as well. A walk
(`TreeWalk`) lists any part of a tree that leaves out what is below some directories, a walk that fails the beginning of
such a list, without the server's names, and one that cannot begin nothing, the directory itself, or an
uninitialised list (`WalkUninitialised`). Directories are made, links after files; clashes of
names and files in the place of directories occur. The recursive `FTPDelete` tries RMD, and then
`FTPRmdirRecursive`, which removes nothing.

Each entry knows the item it belongs to. History variables say what the properties need: `asked`, all files and links that the
request's names stood for when it began, and what a list added; `passed`, those there was nothing to do for; `deleted`, those whose
source is gone; `canceled` and `forgot`, that the application has canceled, and that the library has cleared the flag
since (`rcmd.c:549`, by the next archive, listing or transfer); and `silent`, the entries that the code is known to leave or
spoil while it returns `kNoErr`, each put there by the one action that does so: an archive
(`TarBrings`), what a list lacks (`ItemListed`, `FTPPutFiles`), a skip (`SkippedSilently`), a splice (`Splices`), and a directory that
`FTPDelete` leaves (`DeleteItem`). `Delivered` speaks of all other entries of `asked`, also those of items that were never
reached, so that a loop that ends early without saying so violates it.

### FileInfoList and FileSeq

`FileInfoList` is the list of `linelist.c` with its pointers: nodes from a pool
of addresses that are used again after `free`, `next`, `prev`, `first`, `last`,
`nFileInfos`, the vector, and the sort with its remembered key. `FileSeq` is
what a user of the list relies on: a sequence and its length. The refinement mapping reads the
contents as the code does, along `next` until `NULL`, or from the vector, and takes
`nFileInfos` for the length. The walk is stated as the sequence that `Chain` describes; that there is
exactly one in every state is proved (section 4).

## 3. The runs

Runs that pass:

| Run | Configuration | Checks | Shows |
|---|---|---|---|
| `session_port` | `FtpSession_port.cfg` | `TypeOK RepliesPaired QuietWhenIdle NoSocketLeft SuccessIsWhole EndsAgree CancelFlags` | PORT mode with commands, restart checks, both types, both directions, start points |
| `session_fallback` | `FtpSession_fallback.cfg` | `SessionInv CallsReturn` | PASV with two attempts, with and without the fallback to PORT; every call ends |
| `open` | `OpenHost.cfg` | `Inv DialogueFollowed LoginComplete RejectedNotRetried CallsReturn` | no firewall and types 1 to 7, anonymous and named users, with and without an account |
| `dirs` | `MCRemoteDirs.cfg` | `CacheCoherent WayBack Arrives Reported MkdirRight` | two calls on a session below the root |
| `transfer` | `MCTransfer.cfg` | `TypeOK Whole DeletedIsSaved NeverPartial` | two calls on one file, broken, killed, resumed, with the source edited |
| `sendfile` | `Sendfile.cfg` | `SentInOrder ResultTrue Returns` | one upload with signals, short writes and a file that changes |
| `features` | `MCFeatures.cfg` | `HeldIsRight AnswersRight UtimeSets NotAskedAgain` | fourteen servers, two sessions |
| `listing` | `MCListing.cfg` | `GlobRight EntriesRight` | globs and lists from 134 ways of printing |
| `walk` | `MCTreeWalk.cfg` | `NamesRight WalkRight ListRight` | local and remote walks and lists |
| `batches` | `MCBatches.cfg` | `Delivered SourceSafe CanceledStops` | a request on many files, and an upload after it |
| `filelist` | `MCFileInfoList.cfg` | `Inv IsSequence` | the list implements the sequence |

Some of these properties are conjunctions of named parts, each with its comment
at its definition: `SessionInv` has all the invariants of `FtpSession`; `OpenHost`'s
`Inv` is `TypeOK`, `BufferWhileConnected` and `FailedIsClean`; `FileInfoList`'s is
`TypeOK`, `Linked` and `NothingLost`; `MkdirRight` has `MkdirMakes` and `MkdirTries`;
`HeldIsRight` has `LearntIsTrue` and `OverridesHold`; `AnswersRight` has `AnswersTrue`
and `ExistsRight`; `WalkRight` has `VisitsRight` and `Bounded`.

`mutants` in `PROJECT.json` gives for every property of a passing run a
plausible bug in a mapped definition that violates it. The mutated forms
stand beside the definitions (`Rest0Unread`, `MovedKeepsCache`, ...).

Bounds, and why they are enough:

* `FtpSession`: `MaxOps = 2`. What a call can find wrong at its start has been
  left by the one before it, in the fields of `cip`, in the buffers or at the
  server. `FileBlocks = 2` gives a transfer a beginning, a middle and an end, so that a
  cancel, a timeout or a reset can fall between two blocks. `PASVTries = 2`
  has one attempt that is retried and one that is the last.
* `OpenHost`: `MaxDials = 2` has a dial that is repeated and a last one;
  `MaxOpens = 2` a call that inherits the structure; `MaxAsks = 1` a question
  that is repeated. Types 8 and 9 take the branches of type 1
  in the code, with a port in the name.
* `RemoteDirs`: the session starts in `/h`, so that going home is not going to
  the root. `/h/a` and `/h/a/a` may be there at the start or not: each recursive
  mkdir has zero, one or two directories to make. One refusal (`MaxDenied`), or a
  PWD refused at login, and one interference (`MaxMeddles`) at any step. Two calls:
  the second finds the cache, `cip->buf` and what is known of MLST, STAT and
  NLST as the first has left them.
* `Transfer`: `MaxCalls = 2` is an interrupted transfer and the one that resumes it.
  Three versions of the source, of no, one and two lines: with the sizes growing,
  an edited source can have the size, a smaller or a larger one than what was
  fetched. `MaxNow = 5` with `Threshold = 3` has recent and old files on either side.
  `MemStarts` and `MemRooms` have a start before, within and after the file and memory
  that is and is not enough. Four servers: all commands; MLST; sizes and restarts
  in binary only; none of SIZE, MDTM and REST.
* `Sendfile`: three blocks with `BufSize = 2` and `Room = 2`: a full read and a
  short one, a full write and a short one, and a full socket between. Two signals (one
  of which can be the alarm), one change of the file's length.
* `Features`: fourteen servers in `MCFeatures`, from one that knows nothing to one that
  knows MLST, MFMT and MFF, with the kinds the code treats apart. The overrides switch off
  what is tried first, switch on what a server may lack, and switch off FEAT. `MaxOpens = 2`
  has fields that survive into a session; `MaxCalls = 2` a call that learns and one that uses it; one
  interference and one refusal at any step of either.
* `Listing`: names that share a beginning (`a`, `ab`), a hidden one, an empty
  directory, a directory in a directory of the same name, a socket and a link; a
  year of 12 days with the dates of today, 3 and 9 days ago and tomorrow, so that each
  of them falls on either side of a new year; a PWD that may fail at each absolute name. Two calls: what the first has learnt of NLST -a
  and MLSD, and what it left in `cip->buf`, is there in the second.
* `TreeWalk`: trees three deep, so that the buffer is lengthened, cut back and
  lengthened again; `LimitMaxDepth = 3`, which the looping tree reaches; buffers of the application's
  of 6 characters, which the second level overflows, and the library's of 20, which
  it need not enlarge (see below); one entry removed by someone else.
* `Batches`: two requests, the second of which (`LaterRequests`, an upload that resumes and deletes) finds the files and
  `cancelXfer` as left by any first one; names that clash, links on either side, an empty directory, a file where
  a directory should be made and one that an archive overwrites, a directory in another
  whose archive goes to the wrong place, two files that look the same. A later download or deletion finds nothing else of
  the first than the files and `hasRETR_tar`, which is any of its values already in the first.
* `FileInfoList`: three nodes have two ends and a middle; an address that has
  been freed comes back.

`CHECK_DEADLOCK` is off in all of them because an application whose calls are
used up, or whose session is gone, may stop.

Fairness. `FairSpec` of `FtpSession` and of `OpenHost` is `WF_vars(Library)` and
nothing else: the library's thread runs when it can, and at every point where
it waits a timeout is one of the things it can do (`ctrlTimeout`, `connTimeout`,
`xferTimeout`, `abortTimeout`). Nothing is asked of the server, the network or
the application, so `CallsReturn` holds against a server that says nothing.
It does not say that a transfer ends that keeps making progress; files are
finite in the model as in the code's progress loop. `FairSpec` of `Sendfile` is
`WF_vars(DoSendfile)`, and `Returns` is claimed where the wait for the socket is one
that ends: a nonblocking socket with its `select`, or one with `SO_SNDTIMEO`. Where
that option cannot be set, the code relies on `alarm`, which may ring before the write it is to
end (`io_sendfile.c:331-341`), and there the call may wait for ever.

One run finds that the code does otherwise than its comment says (`findings`):

| Run | Property | What happens |
|---|---|---|
| `sendfile_resume` | `StartsAtOffset` | a resumed upload of a large binary file by `sendfile` tells the server the offset and then sends the file from its first byte: `io_put.c:734` passes on neither the offset nor a file that was sought to it, as the comment at `io_put.c:478` says it would be |

### Known from reading

Modelled as the code has it, without a run of their own; the properties name the
case they set apart. Connection and session:

* After a data timeout `GetResponse` asks the socket whether a reply is there, which
  may sit in SReadline's buffer, and shuts the session down (`rcmd.c:185`; the comment at
  `rcmd.c:181` expects it to be read). `dataTimedOut` is cleared only when the next
  transfer's data flows (`rcmd.c:180`): every command in between whose reply is not there at once ends
  the session, and `FTPOpenHostNoLogin` (`c_opennologin.c:31`), which does
  not reset it, gives the greeting no time.
* An abort that races with the end of the transfer leaves a reply unread
  (`rcmd.c:805`); a later retrieve can take an older 226 for its own and report a file
  that was never sent.
* In the default mode the fallback from PASV to PORT returns an unconnected socket
  when PASV had worked before (`ftp.c:1134`). In `kPassiveMode` one refused PASV makes
  the next transfer use PORT (`ftp.c:1036`).
* The password is wiped before a redial that still needs it (`open.c:376`, comment `open.c:373`).
* A firewall of types 2, 3, 4 or 6 that repeats its 331 after `PASS` with its own password is sent the user's
  (`open.c:256-261`: a password sent counts as the firewall passed). `DialogueFollowed` excepts it (`Misled`).
* A structure opened for the second time has no PWD cache, which `FTPGetCWD` reads and then crashes
  (`c_getcwd.c:82`, `open.c:69`; comments `open.c:332` and `open.c:660`).
  `CallsReturn` excepts its `FTPOpenHost`, which returns or crashes.
* With firewall type 5 a refused password counts as the firewall's and may be
  offered again (`open.c:269`); `RejectedNotRetried` excludes the type.
* When a command cannot be written the session is not shut down, so its PWD
  cache answers the PWD of the next login if the application opens the host
  again without closing it first (`open.c:341`).

Directories and queries:

* A recursive `FTPRmdir` of a directory that is not empty returns `kNoErr` and
  removes nothing (`c_rmdirr.c:92`; `doc/libncftp.html:2237`). A recursive mkdir of `/x/y` fails
  when `/x` does not exist (`c_mkdir.c:127`; `doc/libncftp.html:1865`).
* One directory at a time, every empty piece means the root (`c_chdir3.c:133`; the comment at
  `c_chdir3.c:116` means only the first): `a/` goes to the root, and `a//b` to `/b`. `Arrives` excludes
  paths with an empty piece after the first slash.
* A recursive mkdir sends the pieces `""`, `.` and `..` within a path to MKD like names (`c_mkdir.c:140`),
  so `x//y` and `x/./y` fail once `x` is made. `MkdirTries` excludes such paths.
* With MLST the size in type A is the one on the server's disk (`c_sizemdtm.c:34`).
  `usedMLS` is not reset when a host is opened again, so OPTS MLST is not sent in the
  second session; the `has...` fields survive to another host.
* `open.c:425` tests `UNIX.gid` twice and never asks for `unique`; `c_rename.c:24` checks `oldname` twice.
* When it cannot tell, `FTPFileType` returns `kErrFileExistsButCannotDetermine`, and `FTPIsRegularFile` 1.
* `FTPFileExists2` denies directories that are there, though `doc/libncftp.html:1230` promises files
  and directories: any directory of a server that refuses it MDTM, the refusal being taken for
  the answer before SIZE, MLST, STAT and NLST are tried (`c_exists.c:390`), and an empty one that STAT or NLST lists as
  nothing. `ExistsRight` sets these directories apart by name (`Overlooked`).
* `FTPUtime` sends MFF only when a time of creation is given too (`c_utime.c:92`); with a server that
  has MFF and none of MFMT, SITE UTIME and MDTM with a time it returns
  `kErrUTIMENotAvailable` without one. `UtimeSets` asks for MFF only with one.
* A FEAT refused for the moment marks MLST, MFMT and MFF missing (`open.c:533`); they stay so
  until a later session's FEAT is answered. `LearntIsTrue` sets this apart.
* Whether NLST heeds its parameter is decided by what the probe's listing holds: in an empty
  directory a server that ignores the parameter sends no lines, which is taken for the
  error that a heeding one would give (`c_exists.c:256`). From then on every name exists.
  `LearntIsTrue` and `ExistsRight` except this case.
* One 550 to MDTM with a time disables it for the session (`c_utime.c:145`), and after a
  refused MFF a server without MFMT is not tried with MDTM if it has SITE UTIME (`c_utime.c:117`).

Transfers:

* With the size known and the time not, a resumed get of a remote file that is missing
  overwrites the local one (`io_get.c:288`). A get that is told no size, by a server that tells sizes or times, skips a
  local file that is there, be it a part, returns `kNoErr` and deletes the remote one all the
  same (`io_get.c:288-297`, `310-314`); and so does one to memory
  that has fetched nothing (`io_getmem.c:59`). `Whole` and `DeletedIsSaved` except these calls (`w.skipped`).
* A refused REST with `O_APPEND` appends the whole file (`io_get.c:440`).
* An upload under a temporary name with APPE is never renamed; one whose rename failed is afterwards
  found the same, and with the delete flag its source is deleted while it stands under
  the temporary name (`io_put.c:379` and `500`). `Whole` excludes temporary names.
* A local file edited while it is uploaded is deleted all the same (`io_put.c:798`).
* `FTPGetFileToMemory` returns from a refused start point with the data connection open.
* By sendfile: a signal before the first byte is forgotten by the fall back
  (`io_sendfile.c:634`); a failed read returns with the handlers and the alarm left
  (`io_sendfile.c:693`); with `xferTimeout` 0 and a progress meter a full socket is a timeout at once.
  The fall back reads from the start for a resumed upload, too.

Listings, walks and batches:

* Any failure of `NLST -a` marks it unavailable (`rglob.c:240`), after which `LIST -lRa` loses
  its `a` (`io_listmem.c:146`).
* `FTPRemoteRecursiveFileList` passes over a directory whose LIST failed and returns `kNoErr`
  (`rglobr.c:203`, `294`).
* `curdirlen` is not updated when the session's directory is cut off a header
  (`unls.c:723`), and a directory's name is compared without its end (`unls.c:668`).
* An empty directory listed by `LIST -la` ends the walk (`rftw.c:98`, comment `rftw.c:101`), and
  `FTPRemoteRecursiveFileList2` then returns `kNoErr` with the beginning of a list (`rglobr.c:152`).
* When PWD fails while a listing is read, absolute headers and names of any directory are
  taken for relative ones (`unls.c:661`, `730`).
* A file dated up to two days ahead in the next year is given this year.
* When the library's buffer has to grow, the separator is written twice and the
  length is one short (`ftw.c:243`, `rftw.c:155`; `doc/libncftp.html:863`); `NamesRight` is
  checked with buffers that need not. A start with a trailing slash keeps its length (`rftw.c:397`).
* Directories that cannot be read are left out without an error; after a failed walk
  `FTPRemoteRecursiveFileList2` returns what going back returned (`rglobr.c:152`).
* The result of a walk is not looked at (`io_getfiles.c:120`): what it has not seen is missing from a download that returns
  `kNoErr`, all of it when the connection is lost in the first listing of the last item. `files` is not
  initialised when `FTPGetCWD` fails in the first walk (`rglobr.c:126`): the loop may crash.
* A file that is skipped without a word (above), or resumed from something that was not its beginning, counts as success in a batch,
  and its source is deleted if it was to be (`io_get.c:310-314`, `io_put.c:421`). `Delivered` and
  `SourceSafe` except these, and entries with one destination, of which the later replaces the earlier.
* A recursive `FTPDelete` of a directory that is not empty returns `kNoErr` and leaves it (`c_delete.c:56`, from `c_rmdirr.c:92`).
* `cancelXfer` left from an earlier request ends `FTPPutFiles4` with `kNoErr`; one set during an archive or a
  listing is cleared by the next (`rcmd.c:549`), and the batch goes on to walk and to fetch (`io_getfiles.c:115-120`).
  `Delivered` excepts the first, and `CanceledStops` the second (`forgot`).
* The exit status of `tar` is not looked at (`io_gettar.c:319`): an archive of which nothing, or a part, was
  unpacked, over whatever was there, counts as fetched. The archive of a directory with a slash in its path is not
  fetched from the parent directory (`io_gettar.c:128` looks for a backslash after the slash), so that its
  files go to another place than those of a walk.
* A link whose target the server has not told removes the local file of its name (`io_getfiles.c:234`).
* A refused TYPE of a recursive text download returns without disposing of the lists (`io_getfiles.c:206`).
* A list sorted by a key, added to, and sorted by that key again is not sorted
  (`linelist.c:375`); no caller in the library does this.

### Not modelled

* Path, string and date helpers: text without state. TLC could only repeat what a unit test does.
* sio's wrappers, the user environment, messages, the samples: see `components`.
* `FTPChdirList`, `FTPMkParentDir`, `FTPLocalGlob`, local names of recursive lists, file extensions.
* In `Batches`: a walk that cannot go back to where it began (`rglobr.c:163`), after which the names of a
  download would mean other files; links to directories; a directory to which `FTPIsDir` cannot change but the walk can.
* Transfers on descriptors the application has opened; the `FreeBSD` form of `sendfile`;
  sizes of socket buffers.
* Memory exhaustion anywhere; builds with signals (no `NO_SIGNALS`) of `rcmd.c` and `ftp.c`.

## 4. The proofs

The proofs hold for every value of the constants that satisfies the assumptions named
in the modules: any number of calls, blocks, attempts, files, servers. Each module
begins with its inductive invariant, then has one lemma for each action or command, and one that
combines them; the properties follow at the end. Each invariant was checked by TLC on the run of its
component before it was proved.

| Module | Theorem | States |
|---|---|---|
| `FtpSession_proofs` | `Invariance`, `TypeCorrect`, `SocketsClosed`, `FlagsRight` | `[]IInv`, `[]TypeOK`, `[]NoSocketLeft`, `[]CancelFlags` |
| | `PairingInvariance`, `Pairing`, `Quietness` | `[](IInv /\ PairInv)`, `[]RepliesPaired`, `[]QuietWhenIdle` |
| | `DataInvariance`, `TypeAndOffset`, `Wholeness`, `SessionRight` | `[]DataInv`, `[]EndsAgree`, `[]SuccessIsWhole`, `[]SessionInv` |
| `OpenHost_proofs` | `Invariance`, `HeldRight`, `Dialogues`, `Logins`, `Rejections` | `[]IInv`, `[]Inv`, `[]DialogueFollowed`, `[]LoginComplete`, `[]RejectedNotRetried` |
| `RemoteDirs_proofs` | `CacheIsServers`, `CallInvariance`, `ComesBack`, `ReportsRight`, `GetsThere`, `MakesOrExplains` | `[]CacheCoherent`, `[]CallInv`, `[]WayBack`, `[]Reported`, `[]Arrives`, `[]MkdirRight` |
| `Features_proofs` | `Invariance`, `HeldIsTrue`, `AnswersAreTrue`, `UtimeIsRight`, `RefusalsHeeded` | `[]IInv`, `[]HeldIsRight`, `[]AnswersRight`, `[]UtimeSets`, `NotAskedAgain` |
| `Batches_proofs` | `Invariance`, `SourcesSafe`, `AllDelivered`, `NothingAfterCancel` | `[]IInv`, `[]SourceSafe`, `[]Delivered`, `CanceledStops` |
| `FileInfoList_proofs` | `Invariance`, `LinksRight`, `Refines` | `[]IInv`, `[]Inv`, `IsSequence`, that is, `FileSeq`'s `Spec` |
| `Sendfile_proofs` | `Invariant`, `InOrder`, `TrueResult` | `[]IInv`, `[]SentInOrder`, `[]ResultTrue` |
| `Transfer_proofs` | `Invariance`, `TypeCorrect`, `WholeFiles`, `SourcesSaved`, `NeverPartialSeen` | `[]IInv`, `[]TypeOK`, `Whole`, `DeletedIsSaved`, `NeverPartial` |

### `FtpSession_proofs`

Three invariants extend one another. The first says which
points of the library's thread go with which sockets:

    IInv == TypeOK /\ KindOK /\ SocketOK /\ FlagOK

* `KindOK`: only a retrieve or a store is in the steps of a transfer, and an
  abort serves one of them or `FTPCloseHost`;
* `SocketOK`: the points at which the data socket is closed although a call
  runs, and the two points at which the library can be once the control
  connection is gone (`idle`, and `final`, where it reads the disposed buffer);
* `FlagOK`: `canceled` is stale until `FTPStartDataCmd3` resets it, after TYPE;
  from then on it is set only in a call whose result is an error.

`RepliesPaired` speaks of the reply that is read next. That it is the right one depends on all that
is under way, on both queues and in SReadline's buffer. So

    PairInv == ClosedOK /\ CmdOK /\ (open /\ abandoned = {} => Paired)

* `Paired` gives for each `pc` the whole contents of the queues: nothing (`Quiet`), one
  command or its one reply (`Exchange`), a transfer's command with up to two replies
  (`StartAsked`, `Transferring`), or those and an ABOR (`AbortAsked`);
* `CmdOK`: which command a call has sent, where `pc` does not tell;
* `ClosedOK`: `FTPShutdownHost` leaves nothing to be read by the next session.

`Unread` is SReadline's buffer followed by the socket's queue. The lemmas at the beginning
show that the library reads the first of `Unread` from whichever of the two it takes it, and that
no read changes `Unread` otherwise, so that the rest of the proof need not tell them apart.

`EndsAgree` and `SuccessIsWhole` relate the library's record to the server's, which differ whenever a
TYPE or REST is under way. So

    EndInv == KindCmd /\ LinkOK /\ (Sound => TypesAgree /\ OffsAgree /\ DataAgree)

* `LinkOK`: the state of the data connection against those of its two ends;
* `TypesAgree`, `OffsAgree`: both ends have the same type and start point, but for the command
  that is asked and not answered, or answered and not read;
* `DataAgree` counts blocks: from the server's beginning on, each block is with the
  library, with the server or in the connection (`Flow`), and a final reply of success
  says that the server's count is complete (`Complete`).

`Sound` is what the properties except: a connection that is open and on which no reply has been abandoned.

### `OpenHost_proofs`

    IInv == Inv /\ StageOK /\ (up /\ ~delayed => TalkOK) /\ (rejected ... => RejectedOK)

`TalkOK` says what is under way: during the login, the step of `Script` that the server waits for has been
sent (`Offered`), or the reply to the one before has not been read (`Replied`); and `Noted` ties
`fwloggedin` and `fwsentpass` to that step. `DialogueFacts` lists the dialogue of each of the ten
types, and `ScriptOK` shows that the automaton of `FTPLoginHost`, with what it has noted by then, answers
every step of each of them with the next; this is the core of the proof. `RejectedOK` says where a call can be once the user's password has been
refused: about to give up, quitting, or back.

### `RemoteDirs_proofs`

For the cache, `CacheInv == Shape /\ CacheCoherent`, where `Shape` says only
that the two records have their fields. There is one lemma for each command
(`ChdirStep`, `GetCWDStep`, `MKDStep`, `RMDStep`); the actions are those
commands followed by steps of the call's own record, on which the cache does not
depend. For the way back and the report,

    CallInv == CacheInv /\ DirsOK /\ Good(pc, call, srv.cwd, cip.buf)

where `Good` is `PlaceOK` (which calls are in which steps), `HomeOK` (until a way back
is refused, the call is where it began, or the place it keeps the way in, `curDir`, `cip->buf` or the
probe's own buffer, holds that directory) and `ReportOK`. `Good` is an operator of the next call and directory, so that the
operators that choose the next step (`AfterCd`, `AfterMkdir`, `NextProbe`, ...) have lemmas of their
own (`AfterCdGood`, ...), each used by several actions.

The path printed of a directory, resolved from anywhere, leads to that directory (`PrintedLeads`), because
`DirsAssumption` says that no name is empty, `.` or `..`. `Resolve` follows the path piece by
piece (`Along`), and what holds of every place along it takes an induction over the path. It is done
without the library's induction schema: `Least` gives the first place where the claim fails (`<` is well
founded on the naturals), and the place before it refutes that.

`Arrives` needs to know where a call is between two attempts, so

    ArriveInv == ArriveOK(pc, call, srv.cwd, cip.buf)

says that a change of directory that has strayed nowhere is at `Before` (where it began or, one piece at a
time, the place along the path that it has come to), `After` once it has only to ask PWD, or where
it began, with the way there kept, while FTPMkdir works for it (`OnCourse`, `KnowsWay`). `StepLeads` is the
centre: what the next step names, seen from `Before`, is `After`, unless the piece is empty. The attempt to prove this
showed that an empty piece in the middle goes astray as well (`a//b`, section 3), which the run's paths did not have.

`MkdirRight` takes four invariants more, each with the ones before it:

* `PartInv`: the lengths `k` and `base` of the parts of the path that FTPMkdir2 has come to lie within the
  path without its trailing slashes (`BareLen`); `TypeInv` adds the rest of `TypeOK`;
* `MadeInv`: what is passed to MKD, seen from where the session is, is a place on the way of the whole path
  (`RestIs`), so that the last one made is `Wanted`; and, until another client interferes, what
  has been seen since the call began is what there is (`SeenOK`);
* `TriesInv`: the server has the parent of each directory it has (`Closed`), and, in a call that `Ought` to succeed, `Lacks`
  names what is missing at each step: at `mkUp` the next place along the way is not there, at `mkDo` the
  place to make is not there and the one before it is. So each MKD is one that the server can obey
  (`NextIsPossible`), and a refusal is the server's own.

That the places on the way to a directory of `Dirs` are in `Dirs` too (`Ancestors`) needs the pieces after the first to
be names; with `.`, `..` or nothing there the claim is false (section 3), and this attempt found it.

### `Features_proofs`

    IInv == /\ Types /\ PlanOK /\ HeardOK /\ CallOK /\ UtimeOK
            /\ LearntIsTrue /\ OverridesHold /\ ExistsRight /\ UtimeSets

* `PlanOK`: what is left of a plan is an end of the one the call began with, so that the commands
  before it have been tried; only the first step may be half done (a probe of which the parent's part is over);
* `HeardOK`: a command refused in this session is marked missing, MDTM with a time is
  not left on when MDTM is off, and with nothing refused what FEAT lists of MFMT and MFF is on;
* `CallOK`: a size or time in hand is one the item has had since the call began;
* `UtimeOK`: with whom `FTPUtime` has got past MFF (given a time of creation), MFMT and UTIME.

Every command of every call ends in the same three ways (answered, passed over, refused for good),
so the lemmas `AnsweredInv`, `PassesInv` and `AskedInv` carry the proof, and each command's own lemma shows only what its answer says of the server and of the item.
The assumption is `KindsAssumption` (section 2). Without it `LearntIsTrue` is
false: the code believes the name. The attempt to prove
`LearntIsTrue` for any server also found the case of NLST in an empty directory (`c_exists.c:256`,
section 3), which the run had not met because every server in it printed `.` and `..`.

### `Batches_proofs`

    IInv == TypeOK /\ LoopOK /\ ListOK /\ SourceOK /\ CancelOK /\ DoneOK /\ SourceSafe

* `LoopOK`: which request is in which loop;
* `ListOK`: what is in a list has been asked for, and what has been deleted is not there again;
* `SourceOK`: of the source nothing has changed but that what was deleted is gone, so
  that what arrives is what was there when the request began;
* `CancelOK`: among the files of a list no cancellation is pending, unless it was forgotten;
* `DoneOK`: an entry that is neither in the list nor of an item still to be listed is delivered, set
  apart by name, or the batch has failed.

A transfer writes to one path and an archive to the places recorded in `archived`, so that a step can undo only what
shares its destination; that is `Clash`. `Keeps` says of an entry that a step undoes it only so, and `Shrinks` of the
source that it only loses what was deleted: `FileStep`, `LoopStep` and `ItemStep` carry the invariant over any step of
which these two hold, and each action has a lemma that shows them. The attempt showed that the history has to keep the links
as well as the files of earlier items (a link that is made at a file's place replaces it), and that two entries with one source need
`Moved`: the later finds nothing when the first has deleted it.

### `FileInfoList_proofs`

    IInv == TypeOK /\ Linked /\ NothingLost /\ Counted /\ VecOK

`Linked` speaks only of a list that is linked. `Counted` keeps the counter, and an empty list's ends, while
the vector is in use, since `UnvectorizeFileInfoList` leaves `last` alone when there is nothing;
and `VecOK` says that the old links still chain every node then, which is why
`DisposeFileInfoListContents`, which follows them, loses none even from a sorted vector.

That the walk finds the nodes in order is an induction along the chain. Two chains from one first node are
compared at the least place where they differ (`ChainWithin`), which exists by `Least`: a set of
naturals has a least element, from the library's theorem that `<` is well founded. `Counting` and `Rearranged`
say that two sequences of the same nodes, each once, have one length and are
permutations of each other; so a sort, whose result is only known to be one of the orders that
`qsort` allows, keeps all the nodes.

For the refinement, `ShownIs` says that the contents as a user reads them are the files of `order`, whether
linked or not; each operation's effect on `order` is then a step of `FileSeq` (`AddStep`,
`RemoveStep`, `SortStep`), or shows nothing.

### `Sendfile_proofs`

For a file, a buffer and a socket of any size, from `SizesAssumption`. `SentInOrder` says nothing
of what will be sent next, which depends on the counters and on two places in the file. So

    IInv == TypeOK /\ Counted /\ KernelPlace /\ UserPlace /\ Outcome

* `Counted`: what has been sent is in order, and is as much as `twrote` says;
* `KernelPlace`: in the loop around `sendfile`, the kernel's offset is what has been
  sent, and the descriptor has not moved; so that
* `UserPlace` holds when the other loop begins, and not later only if nothing was
  sent: the descriptor's position is what has been sent and what is still in
  the buffer, and the buffer's last blocks are those that come next;
* `Outcome`: the result is 0 only at the end, and `*osize` is the count.

`SentOn` and `BlocksAre` are the facts about sequences; each action that moves data
has its lemma (`SendsInv`, ...), and `IdleInv` is for all the steps that do not.

### `Transfer_proofs`

`Whole`, `DeletedIsSaved` and `NeverPartial` say what a step may do at a call's end; why it may not do
more lies in the calls before it. Files may have any number of lines, and may be cut anywhere.

    IInv == FilesOK /\ CallOK /\ OpOK /\ LocalOK
            /\ AgreeOK /\ AskOK /\ StartOK /\ TransferOK /\ NamedOK /\ DeleteOK

* the first four: the types, where a call of each kind can be and what it can have been given;
* `AgreeOK` is the claim on which a resumption rests: between calls too, a destination that is not older
  than the source by more than a second is a beginning of it. It excepts a destination in `mixed`, and a server that
  tells a file's size but not its time (`Sound`);
* `AskOK`: while the library decides, the size and time it was told are still those of the file;
* `StartOK`: what is there when a transfer starts is a beginning of the source, and the
  offset is that beginning's length, on the wire in type A and on disk in type I;
* `TransferOK`: what was there (`base`) and what has still to come (`wire`) make up the source;
* `NamedOK`, `DeleteOK`: what is whole, and under which name, before the renaming
  and before the source is deleted.

TLC refuted the first form of `AgreeOK`, which had no second alternative: when a file is to be appended to the local
one and it is empty, `FTPGetOneF` gives the old local file the time of the empty one (`GetAppendsNothing`, `io_get.c:346-362`),
which is then not older and not a beginning. The weaker claim is enough, since what counts as a beginning of an empty source must be no longer
than it, and so is empty too (`GetPrefix`).

The conversions of text are concatenations over a file. The library's induction theorems cannot be
instantiated here, so the module states induction as facts about sets (`NatSet`, `SeqSet`,
from `Least` as in `FileInfoList_proofs`), and shows with them that `FlattenSeq` goes along `Append` and, from that, what a
transfer needs: `ToNetConcat` and `FromNetConcat` (beginnings go to beginnings), `RoundTrip` (what is
written for a file's wire form is the file), `CutIsPrefix` (what is written for any part
of it that came is a beginning of the file, also when the cut is between the CR and the LF of a line's end) and
`GoesOn` (a beginning and the rest from its offset are the file). They hold for every
sequence of characters. The assumptions are `ConstantsAssumption`; the clock begins at 1, so `MaxNow` is not 0.

One lemma for each action follows (`GetStartsKeeps`, `PutResumesKeeps`, ...); those that begin, return, delete, decide or
rename alike share one (`BeginKeeps`, `ReturnKeeps`, `DeletesKeeps`, `EndKeeps`, `NamingKeeps`).
`GetIsWhole`, `PutIsWhole` and `MemoryIsWhole` then read `Whole` off the ends of the calls.

### Only model-checked

* `Listing` and `TreeWalk`: what recursive functions along lines and trees compute.
* `CallsReturn` and `Returns`: liveness.

## 5. What is next

1. *Proofs* about `TreeWalk`: `Bounded`, from the fact that `depth` is never less than that of an
   activation that has opened its directory; `NamesRight`, by the induction along sequences that `Transfer_proofs` begins with.
2. *An abstract session* (calls, each answered once, by its own reply or by
   none) that `FtpSession` implements away from the abandoned paths.
3. *Path helpers* against a reference definition (`PathCat`, `StrRemoveTrailingSlashes`),
   where `TreeWalk` and `Batches` use them.
