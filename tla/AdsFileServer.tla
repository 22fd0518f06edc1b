--------------------------- MODULE AdsFileServer ---------------------------
(***************************************************************************)
(* The file service of a target (AMS port 10000) as the FileServiceClient  *)
(* of backend/AdsFileService.cpp relies on it: FOPEN, FCLOSE, FREAD,       *)
(* FWRITE, FDELETE and FFILEFIND.  Its code is not in the repository; it   *)
(* is modelled from what the client sends and how it reads the answers.    *)
(*                                                                         *)
(* A path is the sequence of its names below the drive's root <<>>.  Each  *)
(* request is an operator whose value is the set of possible answers: the  *)
(* file system and the handles afterwards, the error code and a value.     *)
(***************************************************************************)
EXTENDS Integers, Sequences, FiniteSets

CONSTANTS
    Clients,    \* threads that use the file service
    Paths,      \* the paths of the model, with all above each of them
    Payload,    \* for each path the content of the file there at the start
    DirsAtStart,
    Handles     \* the numbers the service hands out; a bound on those open at once

VARIABLES
    fs,    \* what is at each path
    open   \* what each handle stands for

ASSUME ServerAssumption ==
    /\ <<>> \in Paths \cap DirsAtStart
    /\ \A p \in Paths : p \in Seq(STRING) /\ \A i \in 0 .. Len(p) : SubSeq(p, 1, i) \in Paths
    /\ DirsAtStart \subseteq Paths
    /\ DOMAIN Payload \subseteq Paths \ DirsAtStart
    /\ \A p \in DirsAtStart \cup DOMAIN Payload :
           \A i \in 0 .. Len(p) - 1 : SubSeq(p, 1, i) \in DirsAtStart
    /\ \A p \in DOMAIN Payload : Payload[p] \in Seq(Nat \ {0})   \* a block of 0 is none
    /\ Handles \subseteq Nat \ {0}

Absent == [kind |-> "none", data |-> <<>>]
Directory == [kind |-> "dir", data |-> <<>>]
File(data) == [kind |-> "file", data |-> data]

Closed == [mode |-> "closed"]

ServerInit ==
    /\ fs = [p \in Paths |-> CASE p \in DirsAtStart -> Directory
                               [] p \in DOMAIN Payload -> File(Payload[p])
                               [] OTHER -> Absent]
    /\ open = [h \in Handles |-> Closed]

-----------------------------------------------------------------------------
Parent(p) == SubSeq(p, 1, Len(p) - 1)
Under(p) == {q \in Paths : Len(q) >= Len(p) /\ SubSeq(q, 1, Len(p)) = p}
Children(p) == {q \in Under(p) : Len(q) = Len(p) + 1}

Is(p, kind) == fs[p].kind = kind
Busy(p) == \E h \in Handles : open[h].mode \in {"read", "write"} /\ open[h].path = p

\* An answer (lost is 1 when it does not arrive), and a refusal, which changes nothing.
Answer(newFs, newOpen, ret, val) ==
    [fs |-> newFs, open |-> newOpen, ret |-> ret, val |-> val, lost |-> 0]
Refuse(ret) == Answer(fs, open, ret, 0)

\* Grants the lowest free handle to r, in the file system newFs.
Grant(newFs, r) ==
    LET free == {h \in Handles : open[h] = Closed}
    IN IF free = {} THEN {Refuse("FAIL")}
       ELSE {Answer(newFs, [open EXCEPT ![h] = r], "OK", h) :
                h \in {f \in free : \A g \in free : f <= g}}

\* FOPEN for reading by client c in its n-th call.
OpenToRead(c, n, p) ==
    IF Is(p, "file")
    THEN Grant(fs, [mode |-> "read", client |-> c, call |-> n, path |-> p, pos |-> 0])
    ELSE {Refuse("NOTFOUND")}

(***************************************************************************)
(* FOPEN for writing with ENSURE_DIR.  A file that is there is truncated   *)
(* unless it is opened to append; the service may refuse a file that is    *)
(* open.  Missing directories are created, or the service finds itself     *)
(* unable to, which is what the client's retries are for.                  *)
(***************************************************************************)
OpenToWrite(c, n, p, append) ==
    LET writer == [mode |-> "write", client |-> c, call |-> n, path |-> p, pos |-> 0]
        missing == {q \in Paths : p \in Under(q) /\ q # p /\ Is(q, "none")}
        blocked == \E q \in Paths : p \in Under(q) /\ q # p /\ Is(q, "file")
        truncated == IF append /\ Is(p, "file") THEN fs[p] ELSE File(<<>>)
        created == [q \in Paths |-> IF q \in missing THEN Directory
                                    ELSE IF q = p THEN truncated ELSE fs[q]]
    IN IF Is(p, "dir") \/ blocked THEN {Refuse("FAIL")}
       ELSE Grant(created, writer)
            \cup (IF missing # {} THEN {Refuse("NOTFOUND")} ELSE {})
            \cup (IF Busy(p) THEN {Refuse("FAIL")} ELSE {})

\* FCLOSE.  The repository's test expects INVALIDOFFSET for a number that is no handle.
Close(h) ==
    IF h \in Handles /\ open[h] # Closed
    THEN {Answer(fs, [open EXCEPT ![h] = Closed], "OK", 0)}
    ELSE {Refuse("INVALIDOFFSET")}

\* FREAD of the next block; at the end of the file there are 0 bytes.
Read(h) ==
    IF open[h].mode = "read" /\ Is(open[h].path, "file")
    THEN LET data == fs[open[h].path].data
         IN IF open[h].pos < Len(data)
            THEN {Answer(fs, [open EXCEPT ![h].pos = @ + 1], "OK", data[open[h].pos + 1])}
            ELSE {Refuse("OK")}
    ELSE {Refuse("FAIL")}

\* FWRITE of a block at the end of the file.
Write(h, block) ==
    IF open[h].mode = "write" /\ Is(open[h].path, "file")
    THEN {Answer([fs EXCEPT ![open[h].path].data = Append(@, block)], open, "OK", 0)}
    ELSE {Refuse("FAIL")}

\* FDELETE of a file.
DeleteFile(p) ==
    IF Is(p, "file")
    THEN {Answer([fs EXCEPT ![p] = Absent], open, "OK", 0)}
         \cup (IF Busy(p) THEN {Refuse("FAIL")} ELSE {})
    ELSE {Refuse("NOTFOUND")}

\* FDELETE with ENABLE_DIR: of a directory, which must be empty.
DeleteDir(p) ==
    IF Is(p, "dir")
    THEN IF \A q \in Children(p) : Is(q, "none")
         THEN {Answer([fs EXCEPT ![p] = Absent], open, "OK", 0)}
         ELSE {Refuse("FAIL")}
    ELSE {Refuse("NOTFOUND")}

\* FFILEFIND of p\*: a snapshot of the directory, which starts with ".".
FindFirst(c, n, p) ==
    IF Is(p, "dir")
    THEN Grant(fs, [mode |-> "find", client |-> c, call |-> n,
                    left |-> {<<q, fs[q].kind>> : q \in {r \in Children(p) : ~Is(r, "none")}}])
    ELSE {Refuse("NOTFOUND")}

\* FFILEFIND of a handle: some entry that is left, with its kind.
FindNext(h) ==
    IF open[h].mode # "find" THEN {Refuse("FAIL")}
    ELSE IF open[h].left = {} THEN {Refuse("NOTFOUND")}
    ELSE {Answer(fs, [open EXCEPT ![h].left = @ \ {e}], "OK", e) : e \in open[h].left}
=============================================================================
