--------------------------- MODULE AdsFileService ---------------------------
(***************************************************************************)
(* The FileServiceClient (backend/AdsFileService.cpp): FileOpen with its   *)
(* creation of parents, FileClose, FileDelete, DirCreate, DirDelete,       *)
(* FileRename and FileList, each a sequence of requests to the file        *)
(* service of one target.  Threads interleave between requests; a request  *)
(* may fail, with or without having taken effect.                          *)
(*                                                                         *)
(* An action is one request and what the client does with the answer, up   *)
(* to its next request.  NormalizePathForStyle is modelled by what it      *)
(* does: the spellings of a path become one path.                          *)
(***************************************************************************)
EXTENDS AdsFileServer

CONSTANTS
    Calls,       \* the calls each client may make
    MaxDepth,    \* maxDepth of DeleteTree, 32 in the code
    MarkerName,  \* .adslite_dir_marker.tmp
    NameLength,  \* strlen of each name
    MaxCalls,    \* bound: calls per client
    MaxFaults    \* bound: requests that fail for no reason of the file system

Operations == {"open", "delete", "mkdir", "rmdir", "rename", "list"}

VARIABLES
    platformKnown,  \* TargetSystemInfo::targetPlatformId is cached
    faults,         \* number of requests that failed for no reason
    calls,          \* number of calls each client has made
    st,             \* each client's call, where it is, and its local variables
    held,           \* the handles FileOpen has given it and it has not closed
    ret,            \* what its last call returned
    touched,        \* history: what others have created or deleted during its call
    original        \* history: what was at the call's path when it began

fileVars == <<fs, open, platformKnown, faults, calls, st, held, ret, touched, original>>

\* A path as the caller spells it, and a call: its name, its path or paths,
\* deleteDirSelf, nameBufferLength.
Spelled(p, form) == [path |-> p, form |-> form]
CallOf(op, path, target, self, length) ==
    [op |-> op, path |-> path, target |-> target, self |-> self, length |-> length]
NoCall == CallOf("none", Spelled(<<>>, 1), Spelled(<<>>, 1), FALSE, 0)

Normalized(raw) == raw.path

\* RecursiveNode: a directory DeleteTree has to enumerate, or to delete (expanded).
Node(p, depth, expanded) == [path |-> p, depth |-> depth, expanded |-> expanded]

\* The local variables at the start of call k.
Fresh(k) ==
    [pc |-> "idle", call |-> k, status |-> "OK",
     parents |-> FALSE,                      \* FileOpen has created the parents
     src |-> 0, dst |-> 0, block |-> 0,      \* of FileRename
     dirs |-> <<>>, marker |-> 0,            \* of DirCreate, outermost directory first
     stack |-> <<>>, node |-> Node(<<>>, 0, FALSE),  \* of DeleteTree
     found |-> 0, entry |-> <<>>,            \* the enumeration and its entry
     required |-> 1, offset |-> 0, names |-> <<>>]  \* of FileList

FileInit ==
    /\ ServerInit
    /\ platformKnown = FALSE
    /\ faults = 0
    /\ calls = [c \in Clients |-> 0]
    /\ st = [c \in Clients |-> Fresh(NoCall)]
    /\ held = [c \in Clients |-> {}]
    /\ ret = [c \in Clients |-> "none"]
    /\ touched = [c \in Clients |-> {}]
    /\ original = [c \in Clients |-> Absent]

At(c, pc) == st[c].pc = pc

-----------------------------------------------------------------------------
(***************************************************************************)
(* Requests.  Any may also fail on its way there, or on its way back after *)
(* it has taken effect; the client sees an error in both cases.            *)
(***************************************************************************)
Replies(answers) ==
    answers \cup
    IF faults < MaxFaults
    THEN {[a EXCEPT !.ret = "FAIL", !.lost = 1] : a \in answers}
         \cup {[a EXCEPT !.ret = "FAIL", !.lost = 1, !.fs = fs, !.open = open] : a \in answers}
    ELSE {}

Serve(c, a) ==
    /\ fs' = a.fs
    /\ open' = a.open
    /\ faults' = faults + a.lost
    /\ touched' = [x \in Clients |->
                     IF At(x, "idle") THEN {}
                     ELSE IF x = c THEN touched[x]
                     ELSE touched[x] \cup {p \in Paths : a.fs[p].kind # fs[p].kind}]

NoRequest == UNCHANGED <<fs, open, faults, touched>>

\* The call of c goes on with the local variables s, or returns r.
Continue(c, s) ==
    /\ st' = [st EXCEPT ![c] = s]
    /\ UNCHANGED <<platformKnown, calls, held, ret, original>>

Return(c, r) ==
    /\ st' = [st EXCEPT ![c] = Fresh(@.call)]
    /\ ret' = [ret EXCEPT ![c] = r]
    /\ UNCHANGED <<platformKnown, calls, held, original>>

FirstStep(k) ==
    CASE k.op = "open" -> "open"
      [] k.op = "delete" -> "delete"
      [] k.op = "mkdir" -> "mark"
      [] k.op = "rmdir" -> "visit"
      [] k.op = "rename" -> "open_src"
      [] k.op = "list" -> "find"

\* What callers of a deletion take for "it is gone".
Gone(r) == r \in {"OK", "NOTFOUND"}

-----------------------------------------------------------------------------
(***************************************************************************)
(* The calls.                                                              *)
(***************************************************************************)
\* A mutation: the directory itself is left out.
OnlyAncestors(p) == [i \in 1 .. Len(p) |-> SubSeq(p, 1, i - 1)]

\* The directories DirCreate(p) creates a marker in: its recursion goes up to
\* the root before it opens the first one.
WithAncestors(p) == [i \in 1 .. Len(p) + 1 |-> SubSeq(p, 1, i - 1)]

Marker(d) == Append(d, MarkerName)

\* The directory a call may have to create, with those above it.
EnsuredDirs(k) ==
    CASE k.op = "mkdir" -> {Normalized(k.path)}
      [] k.op = "open" -> {Parent(Normalized(k.path))}
      [] k.op = "rename" -> {Parent(Normalized(k.target))}
      [] OTHER -> {}

ASSUME CallsAssumption ==
    /\ MaxDepth \in Nat
    /\ \A p \in Paths \ {<<>>} : NameLength[p[Len(p)]] \in Nat
    /\ \A c \in Clients : \A k \in Calls[c] :
           /\ k.op \in Operations
           /\ Normalized(k.path) \in Paths
           /\ Normalized(k.target) \in Paths
           /\ k.length \in Nat
           /\ \A p \in EnsuredDirs(k) : \A d \in Paths : p \in Under(d) => Marker(d) \in Paths

\* What call k does after it has read the platform's id.
Started(k) ==
    LET p == Normalized(k.path)
    IN [Fresh(k) EXCEPT
            !.pc = FirstStep(k),
            !.dirs = IF k.op = "mkdir" THEN WithAncestors(p) ELSE <<>>,
            !.stack = IF k.op = "rmdir" THEN <<Node(p, 0, FALSE)>> ELSE <<>>]

\* FileRename compares its arguments as they are spelled.
SameFile(k) == k.op = "rename" /\ k.path = k.target

StartCall(c, k) ==
    /\ At(c, "idle")
    /\ calls[c] < MaxCalls
    /\ calls' = [calls EXCEPT ![c] = @ + 1]
    /\ st' = [st EXCEPT ![c] = IF SameFile(k) THEN Fresh(k)
                               ELSE IF platformKnown THEN Started(k)
                               ELSE [Fresh(k) EXCEPT !.pc = "platform"]]
    /\ ret' = [ret EXCEPT ![c] = IF SameFile(k) THEN "OK" ELSE "none"]
    /\ original' = [original EXCEPT ![c] = fs[Normalized(k.path)]]
    /\ touched' = [touched EXCEPT ![c] = {}]
    /\ UNCHANGED <<fs, open, platformKnown, faults, held>>

\* ReadPlatformId, when it is not cached yet.
ReadPlatformId(c) ==
    /\ At(c, "platform")
    /\ \/ /\ platformKnown' = TRUE
          /\ st' = [st EXCEPT ![c] = Started(@.call)]
          /\ UNCHANGED <<calls, held, ret, original>>
          /\ NoRequest
       \/ \E a \in Replies({Refuse("OK")}) : a.lost = 1 /\ Serve(c, a) /\ Return(c, a.ret)

\* FileClose of a handle the client holds.
FileClose(c, h) ==
    /\ At(c, "idle")
    /\ \E a \in Replies(Close(h)) :
          /\ Serve(c, a)
          /\ ret' = [ret EXCEPT ![c] = a.ret]
    /\ held' = [held EXCEPT ![c] = @ \ {h}]
    /\ UNCHANGED <<platformKnown, calls, st, original>>

FileDelete(c) ==
    /\ At(c, "delete")
    /\ \E a \in Replies(DeleteFile(Normalized(st[c].call.path))) : Serve(c, a) /\ Return(c, a.ret)

-----------------------------------------------------------------------------
(***************************************************************************)
(* FileOpen for writing, called by the user and by FileRename.  When the   *)
(* file service does not find the parent directory, it is created and the  *)
(* file opened once more.                                                  *)
(***************************************************************************)
OpenedPath(s) == Normalized(IF s.call.op = "rename" THEN s.call.target ELSE s.call.path)

\* FileOpen or DirCreate fails with r: so does the call, a rename after it has
\* closed its source.
Fails(c, r) ==
    IF st[c].call.op = "rename"
    THEN Continue(c, [st[c] EXCEPT !.pc = "drop_src", !.status = r])
    ELSE Return(c, r)

FileOpen(c) ==
    /\ At(c, "open")
    /\ \E a \in Replies(OpenToWrite(c, calls[c], OpenedPath(st[c]), FALSE)) :
        /\ Serve(c, a)
        /\ \/ /\ a.ret = "OK" /\ st[c].call.op = "rename"
              /\ Continue(c, [st[c] EXCEPT !.pc = "read", !.dst = a.val])
           \/ /\ a.ret = "OK" /\ st[c].call.op = "open"
              /\ held' = [held EXCEPT ![c] = @ \cup {a.val}]
              /\ st' = [st EXCEPT ![c] = Fresh(@.call)]
              /\ ret' = [ret EXCEPT ![c] = "OK"]
              /\ UNCHANGED <<platformKnown, calls, original>>
           \/ /\ a.ret = "NOTFOUND" /\ ~st[c].parents
              /\ Continue(c, [st[c] EXCEPT !.pc = "mark", !.parents = TRUE,
                                           !.dirs = WithAncestors(Parent(OpenedPath(st[c])))])
           \/ /\ a.ret # "OK" /\ ~(a.ret = "NOTFOUND" /\ ~st[c].parents)
              /\ Fails(c, a.ret)

(***************************************************************************)
(* DirCreate: for each directory, open a marker file in it, so that the    *)
(* service creates the directory, close it and delete it.                  *)
(***************************************************************************)
OpenMarker(c, append) ==
    \E a \in Replies(OpenToWrite(c, calls[c], Marker(Head(st[c].dirs)), append)) :
        /\ Serve(c, a)
        /\ \/ /\ a.ret = "OK"
              /\ Continue(c, [st[c] EXCEPT !.pc = "close_marker", !.marker = a.val])
           \/ /\ a.ret = "NOTFOUND" /\ ~append
              /\ Continue(c, [st[c] EXCEPT !.pc = "append_marker"])
           \/ /\ a.ret # "OK" /\ (a.ret # "NOTFOUND" \/ append)
              /\ Fails(c, a.ret)

CreateMarker(c) == At(c, "mark") /\ OpenMarker(c, FALSE)
AppendMarker(c) == At(c, "append_marker") /\ OpenMarker(c, TRUE)

\* The directory that is done, and the one after it or what follows DirCreate.
DirCreated(c) ==
    LET s == [st[c] EXCEPT !.dirs = Tail(@)]
    IN IF s.dirs # <<>> THEN Continue(c, [s EXCEPT !.pc = "mark"])
       ELSE IF s.parents THEN Continue(c, [s EXCEPT !.pc = "open"])
       ELSE Return(c, "OK")

\* A mutation: the marker is left.
LeavesMarker(c) ==
    /\ At(c, "close_marker")
    /\ \E a \in Replies(Close(st[c].marker)) :
        /\ Serve(c, a)
        /\ IF a.ret = "OK" THEN DirCreated(c) ELSE Fails(c, a.ret)

CloseMarker(c) ==
    /\ At(c, "close_marker")
    /\ \E a \in Replies(Close(st[c].marker)) :
        /\ Serve(c, a)
        /\ \/ /\ a.ret = "OK"
              /\ Continue(c, [st[c] EXCEPT !.pc = "delete_marker", !.marker = 0])
           \/ /\ a.ret # "OK"
              /\ Fails(c, a.ret)

DeleteMarker(c) ==
    /\ At(c, "delete_marker")
    /\ \E a \in Replies(DeleteFile(Marker(Head(st[c].dirs)))) :
        /\ Serve(c, a)
        /\ \/ Gone(a.ret) /\ DirCreated(c)
           \/ ~Gone(a.ret) /\ Fails(c, a.ret)

-----------------------------------------------------------------------------
(***************************************************************************)
(* FileRename: copy, then delete the source.                               *)
(***************************************************************************)
OpenSource(c) ==
    /\ At(c, "open_src")
    /\ \E a \in Replies(OpenToRead(c, calls[c], Normalized(st[c].call.path))) :
        /\ Serve(c, a)
        /\ \/ /\ a.ret = "OK"
              /\ Continue(c, [st[c] EXCEPT !.pc = "open", !.src = a.val])
           \/ a.ret # "OK" /\ Return(c, a.ret)

\* The target could not be opened: its error is returned, that of this close is not.
DropSource(c) ==
    /\ At(c, "drop_src")
    /\ \E a \in Replies(Close(st[c].src)) : Serve(c, a) /\ Return(c, st[c].status)

CopyRead(c) ==
    /\ At(c, "read")
    /\ \E a \in Replies(Read(st[c].src)) :
        /\ Serve(c, a)
        /\ IF a.ret = "OK" /\ a.val # 0
           THEN Continue(c, [st[c] EXCEPT !.pc = "write", !.block = a.val])
           ELSE Continue(c, [st[c] EXCEPT !.pc = "close_dst", !.status = a.ret])

CopyWrite(c) ==
    /\ At(c, "write")
    /\ \E a \in Replies(Write(st[c].dst, st[c].block)) :
        /\ Serve(c, a)
        /\ Continue(c, [st[c] EXCEPT !.pc = IF a.ret = "OK" THEN "read" ELSE "close_dst",
                                     !.status = a.ret, !.block = 0])

\* A mutation: the last error.
LastError(status, r) == r

\* The first error of the copy and the two closes is the one that is returned.
FirstError(status, r) == IF status # "OK" THEN status ELSE r

\* A mutation: the target is left open.
ForgetsTarget(c) ==
    /\ At(c, "close_dst")
    /\ Continue(c, [st[c] EXCEPT !.pc = "close_src"])
    /\ NoRequest

CloseTarget(c) ==
    /\ At(c, "close_dst")
    /\ \E a \in Replies(Close(st[c].dst)) :
        /\ Serve(c, a)
        /\ Continue(c, [st[c] EXCEPT !.pc = "close_src", !.status = FirstError(@, a.ret)])

CloseSource(c) ==
    /\ At(c, "close_src")
    /\ \E a \in Replies(Close(st[c].src)) :
        /\ Serve(c, a)
        /\ LET status == FirstError(st[c].status, a.ret)
           IN IF status = "OK" THEN Continue(c, [st[c] EXCEPT !.pc = "delete_src"])
              ELSE Return(c, status)

DeleteSource(c) ==
    /\ At(c, "delete_src")
    /\ \E a \in Replies(DeleteFile(Normalized(st[c].call.path))) :
        /\ Serve(c, a)
        /\ Return(c, IF Gone(a.ret) THEN "OK" ELSE a.ret)

-----------------------------------------------------------------------------
(***************************************************************************)
(* The enumeration of a directory, by DeleteTree and by FileList.          *)
(***************************************************************************)
\* findFlags, kFileFindGeneric: what the entry's handle is set to before the
\* first request, and stays when there is nothing to enumerate.
FindFlags == 1

Top(s) == s.stack[Len(s.stack)]
Pop(s) == [s EXCEPT !.stack = SubSeq(@, 1, Len(@) - 1)]
Push(s, node) == [s EXCEPT !.stack = Append(@, node)]

\* FileList: an entry is copied with a '\n' if a '\0' fits behind it.
FitsBuffer(s, length) == s.offset + length + 1 < s.call.length

Listed(s, name) ==
    LET counted == [s EXCEPT !.pc = "find_next", !.required = @ + NameLength[name] + 1]
    IN IF FitsBuffer(s, NameLength[name])
       THEN [counted EXCEPT !.offset = @ + NameLength[name] + 1, !.names = Append(@, name)]
       ELSE counted

\* What is done with the entry p: FileList counts it, DeleteTree keeps a
\* directory for later and deletes a file.
Enumerated(s, p, kind) ==
    IF s.call.op = "list" THEN Listed(s, p[Len(p)])
    ELSE IF kind = "dir"
    THEN [Push(s, Node(p, s.node.depth + 1, FALSE)) EXCEPT !.pc = "find_next"]
    ELSE [s EXCEPT !.pc = "delete_entry", !.entry = p]

EnumeratedPath(s) == IF s.call.op = "list" THEN Normalized(s.call.path) ELSE s.node.path

\* The first entry is ".", which is skipped.
FindFirstEntry(c) ==
    /\ At(c, "find")
    /\ \E a \in Replies(FindFirst(c, calls[c], EnumeratedPath(st[c]))) :
        /\ Serve(c, a)
        /\ \/ /\ a.ret = "OK"
              /\ Continue(c, [st[c] EXCEPT !.pc = "find_next", !.found = a.val])
           \/ /\ a.ret = "NOTFOUND"
              /\ Continue(c, [st[c] EXCEPT !.pc = "close_find", !.found = FindFlags])
           \/ a.ret \notin {"OK", "NOTFOUND"} /\ Return(c, a.ret)

FindNextEntry(c) ==
    /\ At(c, "find_next")
    /\ \E a \in Replies(FindNext(st[c].found)) :
        /\ Serve(c, a)
        /\ \/ a.ret = "OK" /\ Continue(c, Enumerated(st[c], a.val[1], a.val[2]))
           \/ a.ret = "NOTFOUND" /\ Continue(c, [st[c] EXCEPT !.pc = "close_find"])
           \/ /\ a.ret \notin {"OK", "NOTFOUND"}
              /\ Continue(c, [st[c] EXCEPT !.pc = "abort_find", !.status = a.ret])

\* DirDelete takes NOTFOUND for success, too.
DirDeleteResult(r) == IF Gone(r) THEN "OK" ELSE r

\* A mutation: the final '\0' is not counted.
ForgetsEnd(s) ==
    IF s.call.length > 0 /\ s.call.length + 1 < s.required THEN "INVALIDSIZE" ELSE "OK"

\* FileList, when all has been counted.
ListResult(s) ==
    IF s.call.length > 0 /\ s.call.length < s.required THEN "INVALIDSIZE" ELSE "OK"

CloseFind(c) ==
    /\ At(c, "close_find")
    /\ \E a \in Replies(Close(st[c].found)) :
        /\ Serve(c, a)
        /\ IF a.ret # "OK" THEN Return(c, IF st[c].call.op = "rmdir" THEN DirDeleteResult(a.ret) ELSE a.ret)
           ELSE IF st[c].call.op = "list" THEN Return(c, ListResult(st[c]))
           ELSE Continue(c, [st[c] EXCEPT !.pc = "visit", !.found = 0])

AbortFind(c) ==
    /\ At(c, "abort_find")
    /\ \E a \in Replies(Close(st[c].found)) : Serve(c, a) /\ Return(c, st[c].status)

\* A file in the directory; on an error the enumeration stays open.
DeleteEntry(c) ==
    /\ At(c, "delete_entry")
    /\ \E a \in Replies(DeleteFile(st[c].entry)) :
        /\ Serve(c, a)
        /\ IF Gone(a.ret) THEN Continue(c, [st[c] EXCEPT !.pc = "find_next", !.entry = <<>>])
           ELSE Return(c, a.ret)

-----------------------------------------------------------------------------
(***************************************************************************)
(* DeleteTree: the tree in post-order, with an explicit stack.             *)
(***************************************************************************)
TreeDeleted(c) ==
    /\ At(c, "visit")
    /\ st[c].stack = <<>>
    /\ Return(c, "OK")
    /\ NoRequest

\* A directory comes up for the first time: it stays below its content.
ExpandDirectory(c) ==
    /\ At(c, "visit")
    /\ st[c].stack # <<>>
    /\ LET node == Top(st[c])
           s == Push(Pop(st[c]), [node EXCEPT !.expanded = TRUE])
       IN /\ ~node.expanded
          /\ IF node.depth > MaxDepth THEN Return(c, "INVALIDPARM")
             ELSE Continue(c, [s EXCEPT !.pc = "find", !.node = node])
    /\ NoRequest

\* Two mutations: all directories are kept; the depth is counted from 1.
KeepsAll(s) == ~s.call.self
KeepsDepthOne(s) == ~s.call.self /\ Top(s).depth = 1

KeepsRoot(s) == ~s.call.self /\ Top(s).depth = 0

KeepRoot(c) ==
    /\ At(c, "visit")
    /\ st[c].stack # <<>>
    /\ Top(st[c]).expanded
    /\ KeepsRoot(st[c])
    /\ Continue(c, Pop(st[c]))
    /\ NoRequest

DeleteDirectory(c) ==
    /\ At(c, "visit")
    /\ st[c].stack # <<>>
    /\ Top(st[c]).expanded
    /\ ~KeepsRoot(st[c])
    /\ \E a \in Replies(DeleteDir(Top(st[c]).path)) :
        /\ Serve(c, a)
        /\ \/ a.ret = "OK" /\ Continue(c, Pop(st[c]))
           \/ /\ a.ret = "NOTFOUND"
              /\ Continue(c, [Pop(st[c]) EXCEPT !.pc = "delete_as_file", !.entry = Top(st[c]).path])
           \/ ~Gone(a.ret) /\ Return(c, a.ret)

\* It was no directory: perhaps a file of that name.
DeleteAsFile(c) ==
    /\ At(c, "delete_as_file")
    /\ \E a \in Replies(DeleteFile(st[c].entry)) :
        /\ Serve(c, a)
        /\ IF Gone(a.ret) THEN Continue(c, [st[c] EXCEPT !.pc = "visit", !.entry = <<>>])
           ELSE Return(c, a.ret)

-----------------------------------------------------------------------------
ClientStep(c) ==
    \/ ReadPlatformId(c) \/ FileDelete(c) \/ FileOpen(c)
    \/ CreateMarker(c) \/ AppendMarker(c) \/ CloseMarker(c) \/ DeleteMarker(c)
    \/ OpenSource(c) \/ DropSource(c) \/ CopyRead(c) \/ CopyWrite(c)
    \/ CloseTarget(c) \/ CloseSource(c) \/ DeleteSource(c)
    \/ FindFirstEntry(c) \/ FindNextEntry(c) \/ CloseFind(c) \/ AbortFind(c) \/ DeleteEntry(c)
    \/ TreeDeleted(c) \/ ExpandDirectory(c) \/ KeepRoot(c)
    \/ DeleteDirectory(c) \/ DeleteAsFile(c)

FileNext ==
    \E c \in Clients :
        \/ \E k \in Calls[c] : StartCall(c, k)
        \/ \E h \in held[c] : FileClose(c, h)
        \/ ClientStep(c)

FileSpec == FileInit /\ [][FileNext]_fileVars

-----------------------------------------------------------------------------
(***************************************************************************)
(* Properties.                                                             *)
(***************************************************************************)
\* A call ends and reports r.
Returns(c, r) == ~At(c, "idle") /\ st'[c].pc = "idle" /\ ret'[c] = r

\* A rename never loses its file: whichever request fails, the content that was at the old path
\* when the call began is whole at the old or at the new path after every step of the call, its
\* last one included.  FileRename deletes the source only when every block has been copied and
\* both files are closed.  (No other client writes or deletes these two files.)
RenameKeepsContent ==
    [][\A c \in Clients :
          st[c].call.op = "rename" /\ ~At(c, "idle") /\ original[c].kind = "file" =>
              \E p \in {Normalized(st[c].call.path), Normalized(st[c].call.target)} :
                  fs'[p] = original[c]]_fileVars

\* Unless a request has failed, a marker file is there only while some client
\* is in DirCreate and will delete it, whoever else creates the same directory.
NoStrayMarker ==
    \A d \in Paths : Marker(d) \in Paths /\ Is(Marker(d), "file") /\ faults = 0 =>
        \E c \in Clients : /\ st[c].pc \in {"close_marker", "delete_marker"}
                           /\ Head(st[c].dirs) = d

\* A DirCreate that succeeds leaves the directory there, with all above it,
\* unless another client deletes it.
DirCreateMakes ==
    [][\A c \in Clients : st[c].call.op = "mkdir" /\ Returns(c, "OK") =>
          \A d \in Paths : Normalized(st[c].call.path) \in Under(d) =>
              fs'[d] = Directory \/ d \in touched'[c]]_fileVars

\* A DirDelete that succeeds has deleted everything in the directory, but what
\* others have made meanwhile, and the directory itself exactly if it was asked to.
DirDeleteClears ==
    [][\A c \in Clients : st[c].call.op = "rmdir" /\ Returns(c, "OK") =>
          LET root == Normalized(st[c].call.path)
          IN /\ \A p \in Under(root) \ {root} : fs'[p] = Absent \/ p \in touched'[c]
             /\ st[c].call.self => fs'[root] = Absent \/ root \in touched'[c]]_fileVars

\* DirDelete never deletes a directory it is asked to keep, nor anything outside it.
DirDeleteStaysInside ==
    [][\A c \in Clients : st[c].call.op = "rmdir" /\ ~At(c, "idle") /\ st'[c] # st[c] =>
          LET root == Normalized(st[c].call.path)
          IN \A p \in Paths : fs'[p] # fs[p] =>
                 p \in Under(root) /\ (p = root => st[c].call.self)]_fileVars

\* A FileList that succeeds has put into the buffer the name of every entry
\* that was there all the time: none is cut off without INVALIDSIZE.
ListComplete ==
    [][\A c \in Clients :
          st[c].call.op = "list" /\ st[c].call.length > 0 /\ Returns(c, "OK") =>
          \A p \in Children(Normalized(st[c].call.path)) :
              fs[p] # Absent /\ p \notin touched[c] =>
              \E i \in 1 .. Len(st[c].names) : st[c].names[i] = p[Len(p)]]_fileVars

\* A call that succeeds has closed every handle it was given, but the one that
\* FileOpen hands to its caller.
HandlesClosed ==
    [][\A c \in Clients : Returns(c, "OK") =>
          \A h \in Handles \ held'[c] :
              open'[h] = Closed \/ open'[h].client # c \/ open'[h].call # calls[c]]_fileVars

=============================================================================
