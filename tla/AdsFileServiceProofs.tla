----------------------- MODULE AdsFileServiceProofs -----------------------
(***************************************************************************)
(* Proofs about AdsFileService, for any clients, drives and calls, and any *)
(* number of calls and of requests that fail.                              *)
(***************************************************************************)
EXTENDS AdsFileService, SequenceTheorems, TLAPS

-----------------------------------------------------------------------------
(* Answers of the file service, and what the client makes of them. *)

IsAnswer(b) == b = Answer(b.fs, b.open, b.ret, b.val)

\* A request has the effect of one of its answers, which arrives, or is answered
\* by an error after that effect, or without any.
LEMMA ReplyOf ==
  ASSUME NEW A, NEW c \in Clients, NEW a \in Replies(A), Serve(c, a), \A b \in A : IsAnswer(b)
  PROVE  \E b \in A : \/ /\ a = b
                         /\ fs' = b.fs /\ open' = b.open /\ faults' = faults + 0
                      \/ /\ a.ret = "FAIL" /\ faults' = faults + 1
                         /\ fs' = b.fs /\ open' = b.open
                      \/ /\ a.ret = "FAIL" /\ faults' = faults + 1
                         /\ fs' = fs /\ open' = open
<1>1. CASE a \in A
  BY <1>1 DEF Serve, IsAnswer, Answer
<1>2. ASSUME NEW b \in A, a = [b EXCEPT !.ret = "FAIL", !.lost = 1]
      PROVE  a.ret = "FAIL" /\ faults' = faults + 1 /\ fs' = b.fs /\ open' = b.open
  BY <1>2 DEF Serve, IsAnswer, Answer
<1>3. ASSUME NEW b \in A, a = [b EXCEPT !.ret = "FAIL", !.lost = 1, !.fs = fs, !.open = open]
      PROVE  a.ret = "FAIL" /\ faults' = faults + 1 /\ fs' = fs /\ open' = open
  BY <1>3 DEF Serve, IsAnswer, Answer
<1> QED
  BY <1>1, <1>2, <1>3 DEF Replies

LEMMA CloseAnswers ==
  ASSUME NEW h
  PROVE  \A b \in Close(h) :
            /\ IsAnswer(b) /\ b.fs = fs
            /\ \/ /\ h \in Handles /\ open[h] # Closed
                  /\ b.open = [open EXCEPT ![h] = Closed] /\ b.ret = "OK"
               \/ /\ ~(h \in Handles /\ open[h] # Closed)
                  /\ b.open = open /\ b.ret = "INVALIDOFFSET"
  BY DEF Close, Answer, Refuse, IsAnswer

\* FCLOSE: nothing but the handle is changed.
LEMMA CloseEffect ==
  ASSUME NEW c \in Clients, NEW h, NEW a \in Replies(Close(h)), Serve(c, a), faults \in Nat
  PROVE  /\ fs' = fs /\ faults' \in Nat
         /\ \/ open' = open
            \/ h \in Handles /\ open[h] # Closed /\ open' = [open EXCEPT ![h] = Closed]
         /\ a.ret \in {"OK", "INVALIDOFFSET", "FAIL"}
         /\ a.ret = "OK" => h \in Handles /\ open' = [open EXCEPT ![h] = Closed]
         /\ faults' = 0 /\ h \in Handles /\ open[h] # Closed => a.ret = "OK"
<1>1. PICK b \in Close(h) : \/ /\ a = b
                               /\ fs' = b.fs /\ open' = b.open /\ faults' = faults + 0
                            \/ /\ a.ret = "FAIL" /\ faults' = faults + 1
                               /\ fs' = b.fs /\ open' = b.open
                            \/ /\ a.ret = "FAIL" /\ faults' = faults + 1
                               /\ fs' = fs /\ open' = open
  BY CloseAnswers, ReplyOf
<1>2. b.fs = fs /\ \/ /\ h \in Handles /\ open[h] # Closed
                      /\ b.open = [open EXCEPT ![h] = Closed] /\ b.ret = "OK"
                   \/ /\ ~(h \in Handles /\ open[h] # Closed)
                      /\ b.open = open /\ b.ret = "INVALIDOFFSET"
  BY CloseAnswers
<1> QED
  BY <1>1, <1>2
-----------------------------------------------------------------------------
(* The invariant. *)

Kinds == {"none", "dir", "file"}
Blocks == Nat \ {0}
Entries == [kind : Kinds, data : Seq(Blocks)]
Streams == [mode : {"read", "write"}, client : Clients, call : Nat, path : Paths, pos : Nat]
Finds == [mode : {"find"}, client : Clients, call : Nat, left : SUBSET (Paths \X Kinds)]

Fields == {"pc", "call", "status", "parents", "src", "dst", "block", "dirs", "marker", "stack",
           "node", "found", "entry", "required", "offset", "names"}

TypeInv ==
    /\ fs \in [Paths -> Entries]
    /\ open \in [Handles -> {Closed} \cup Streams \cup Finds]
    /\ faults \in Nat
    /\ calls \in [Clients -> Nat]
    /\ held \in [Clients -> SUBSET Handles]
    /\ DOMAIN ret = Clients
    /\ DOMAIN original = Clients
    /\ DOMAIN st = Clients
    /\ \A c \in Clients : DOMAIN st[c] = Fields

\* The steps of DirCreate, of the copy and of the enumeration.
Marking == {"mark", "append_marker", "close_marker", "delete_marker"}
Copying == {"read", "write", "close_dst"}
Renaming == Copying \cup {"open_src", "drop_src", "close_src", "delete_src"}
Finding == {"find", "find_next", "close_find", "abort_find"}

\* Where a call can be, and which of its local variables have a meaning there.
StageInv(c) ==
    LET s == st[c]
    IN /\ ~At(c, "idle") => s.call \in Calls[c]
       /\ \/ s.pc \in {"idle", "platform"}
          \/ s.pc = "delete" /\ s.call.op = "delete"
          \/ s.pc = "open" /\ s.call.op \in {"open", "rename"}
          \/ s.pc \in Marking /\ s.call.op = "mkdir" /\ ~s.parents
          \/ s.pc \in Marking /\ s.call.op \in {"open", "rename"} /\ s.parents
          \/ s.pc \in Renaming /\ s.call.op = "rename"
          \/ s.pc \in Finding /\ s.call.op \in {"list", "rmdir"}
          \/ s.pc \in {"visit", "delete_entry", "delete_as_file"} /\ s.call.op = "rmdir"
       /\ s.status # "OK" => s.pc \in {"drop_src", "close_dst", "close_src", "abort_find"}
       /\ s.status = "OK" => s.pc \notin {"drop_src", "abort_find"}
       /\ s.pc \in Marking => /\ s.dirs \in Seq(Paths) /\ s.dirs # <<>>
                              /\ \A i \in 1 .. Len(s.dirs) : Marker(s.dirs[i]) \in Paths
       /\ s.pc = "write" => s.block \in Blocks

\* Where a call holds a handle: of the source and the target of a rename, of a
\* marker file, of an enumeration.
HoldsSource(s) ==
    s.call.op = "rename" /\ s.pc \in Marking \cup Copying \cup {"open", "drop_src", "close_src"}
HoldsTarget(s) == s.pc \in Copying
HoldsMarker(s) == s.pc = "close_marker"
HoldsFind(s) ==
    \/ s.pc \in {"find_next", "delete_entry", "abort_find"}
    \/ s.pc = "close_find" /\ s.found # FindFlags

\* The number that stands in an entry before it has a handle is not one of the service's.
FlagsAreNoHandle == FindFlags \notin Handles

IsOf(c, h) == h \in Handles /\ open[h] # Closed /\ open[h].client = c
Holds(c, h, mode) == IsOf(c, h) /\ open[h].call = calls[c] /\ open[h].mode = mode

\* What a call holds is open, its own, and what it takes it for.
UseInv(c) ==
    LET s == st[c]
    IN /\ HoldsSource(s) => Holds(c, s.src, "read") /\ open[s.src].path = Normalized(s.call.path)
       /\ HoldsTarget(s) => Holds(c, s.dst, "write") /\ open[s.dst].path = Normalized(s.call.target)
       /\ HoldsMarker(s) => Holds(c, s.marker, "write") /\ open[s.marker].path = Marker(Head(s.dirs))
       /\ HoldsFind(s) => /\ Holds(c, s.found, "find")
                          /\ \A e \in open[s.found].left : e[1] \in Children(EnumeratedPath(s))

\* Handles are of calls that have begun, those of the user of calls that have ended.
HeldInv(c) ==
    /\ \A h \in Handles : IsOf(c, h) => open[h].call <= calls[c]
    /\ \A h \in held[c] : /\ IsOf(c, h) /\ open[h].mode = "write"
                          /\ ~At(c, "idle") => open[h].call < calls[c]

\* A call that has not failed holds every handle it was given and did not close.
LeakInv(c) ==
    LET s == st[c]
    IN ~At(c, "idle") /\ s.status = "OK" =>
          \A h \in Handles : IsOf(c, h) /\ open[h].call = calls[c] =>
             \/ HoldsSource(s) /\ h = s.src
             \/ HoldsTarget(s) /\ h = s.dst
             \/ HoldsMarker(s) /\ h = s.marker
             \/ HoldsFind(s) /\ h = s.found

\* The nodes of DeleteTree lie in the tree, each as deep as it says.
NodesBelow(root) ==
    {n \in [path : Paths, depth : Nat, expanded : BOOLEAN] :
        n.path \in Under(root) /\ n.depth = Len(n.path) - Len(root)}

WalkInv(c) ==
    LET s == st[c]
        root == Normalized(s.call.path)
    IN s.call.op = "rmdir" /\ ~At(c, "idle") /\ ~At(c, "platform") =>
          /\ s.stack \in Seq(NodesBelow(root))
          /\ s.pc \in Finding \cup {"delete_entry"} => s.node \in NodesBelow(root)
          /\ s.pc = "delete_entry" => s.entry \in Under(root) \ {root}
          /\ s.pc = "delete_as_file" => s.entry \in Under(root) /\ (s.entry = root => s.call.self)

ClientInv(c) == StageInv(c) /\ UseInv(c) /\ HeldInv(c) /\ LeakInv(c) /\ WalkInv(c)

FileInv == TypeInv /\ \A c \in Clients : ClientInv(c)

\* A step of c leaves the calls of the others and what is theirs alone.
Frame(c) ==
    /\ \A x \in Clients \ {c} : /\ st'[x] = st[x] /\ held'[x] = held[x]
                                /\ calls'[x] = calls[x] /\ original'[x] = original[x]
    /\ \A h \in Handles : \/ open'[h] = open[h]
                          \/ /\ open[h] = Closed \/ open[h].client = c
                             /\ open'[h] = Closed \/ open'[h].client = c

\* The parts of the two action properties that are about the steps of c.
ClosesAll(c) ==
    Returns(c, "OK") =>
        \A h \in Handles \ held'[c] :
            open'[h] = Closed \/ open'[h].client # c \/ open'[h].call # calls[c]

StaysInside(c) ==
    st[c].call.op = "rmdir" /\ ~At(c, "idle") /\ st'[c] # st[c] =>
        LET root == Normalized(st[c].call.path)
        IN \A p \in Paths : fs'[p] # fs[p] => p \in Under(root) /\ (p = root => st[c].call.self)

-----------------------------------------------------------------------------
LEMMA FrameKeepsOthers ==
  ASSUME NEW c \in Clients, NEW x \in Clients \ {c}, TypeInv, TypeInv', Frame(c), ClientInv(x)
  PROVE  ClientInv(x)'
<1>1. st'[x] = st[x] /\ held'[x] = held[x] /\ calls'[x] = calls[x]
  BY DEF Frame
<1>2. \A h \in Handles : IsOf(x, h) \/ IsOf(x, h)' => open'[h] = open[h]
  BY DEF Frame, IsOf
<1>3. StageInv(x)'
  BY <1>1 DEF ClientInv, StageInv, At
<1>4. UseInv(x)'
  BY <1>1, <1>2 DEF ClientInv, UseInv, Holds, IsOf
<1>5. HeldInv(x)'
  BY <1>1, <1>2 DEF ClientInv, HeldInv, At, IsOf
<1>6. LeakInv(x)'
  BY <1>1, <1>2 DEF ClientInv, LeakInv, At, IsOf
<1>7. WalkInv(x)'
  BY <1>1 DEF ClientInv, WalkInv, At
<1> QED
  BY <1>3, <1>4, <1>5, <1>6, <1>7 DEF ClientInv

-----------------------------------------------------------------------------
(* The other requests. *)

Stream(mode, c, p) ==
    [mode |-> mode, client |-> c, call |-> calls[c], path |-> p, pos |-> 0]

\* A free handle h has become r.
Granted(h, r) == h \in Handles /\ open[h] = Closed /\ open' = [open EXCEPT ![h] = r]

LEMMA GrantAnswers ==
  ASSUME NEW newFs, NEW r, NEW b \in Grant(newFs, r)
  PROVE  /\ IsAnswer(b)
         /\ \/ b.fs = fs /\ b.open = open /\ b.ret = "FAIL"
            \/ /\ b.val \in Handles /\ open[b.val] = Closed
               /\ b.fs = newFs /\ b.open = [open EXCEPT ![b.val] = r] /\ b.ret = "OK"
  BY DEF Grant, IsAnswer, Answer, Refuse

\* FOPEN to read.
LEMMA OpenToReadEffect ==
  ASSUME TypeInv, NEW c \in Clients, NEW p \in Paths,
         NEW a \in Replies(OpenToRead(c, calls[c], p)), Serve(c, a)
  PROVE  /\ fs' = fs /\ faults' \in Nat
         /\ \/ a.ret = "OK" /\ Granted(a.val, Stream("read", c, p))
            \/ a.ret \in {"FAIL", "NOTFOUND"} /\ open' = open
            \/ a.ret = "FAIL" /\ \E h \in Handles : Granted(h, Stream("read", c, p))
<1>1. \A b \in OpenToRead(c, calls[c], p) :
         /\ IsAnswer(b) /\ b.fs = fs
         /\ \/ b.open = open /\ b.ret \in {"FAIL", "NOTFOUND"}
            \/ /\ b.val \in Handles /\ open[b.val] = Closed /\ b.ret = "OK"
               /\ b.open = [open EXCEPT ![b.val] = Stream("read", c, p)]
  <2>1. \A b \in Grant(fs, Stream("read", c, p)) :
           /\ IsAnswer(b) /\ b.fs = fs
           /\ \/ b.open = open /\ b.ret \in {"FAIL", "NOTFOUND"}
              \/ /\ b.val \in Handles /\ open[b.val] = Closed /\ b.ret = "OK"
                 /\ b.open = [open EXCEPT ![b.val] = Stream("read", c, p)]
    BY GrantAnswers
  <2>2. IsAnswer(Refuse("NOTFOUND")) /\ Refuse("NOTFOUND").fs = fs
        /\ Refuse("NOTFOUND").open = open /\ Refuse("NOTFOUND").ret = "NOTFOUND"
    BY DEF IsAnswer, Refuse, Answer
  <2> QED
    BY <2>1, <2>2 DEF OpenToRead, Stream
<1>2. PICK b \in OpenToRead(c, calls[c], p) :
         \/ /\ a = b
            /\ fs' = b.fs /\ open' = b.open /\ faults' = faults + 0
         \/ /\ a.ret = "FAIL" /\ faults' = faults + 1
            /\ fs' = b.fs /\ open' = b.open
         \/ /\ a.ret = "FAIL" /\ faults' = faults + 1
            /\ fs' = fs /\ open' = open
  BY <1>1, ReplyOf
<1>3. faults' \in Nat
  BY <1>2 DEF TypeInv
<1>4. CASE b.open = open /\ b.ret \in {"FAIL", "NOTFOUND"}
  BY <1>1, <1>2, <1>3, <1>4
<1>5. CASE Granted(b.val, Stream("read", c, p)) /\ b.ret = "OK"
  BY <1>1, <1>2, <1>3, <1>5 DEF Granted
<1>6. CASE open' = open
  BY <1>1, <1>2, <1>3, <1>6 DEF Granted
<1> QED
  BY <1>1, <1>2, <1>4, <1>5, <1>6 DEF Granted

\* What FOPEN to write makes of the drive: missing directories, and the file.
Made(p) ==
    /\ fs' \in [Paths -> Entries]
    /\ fs[p].kind # "dir" /\ fs'[p] = File(fs'[p].data)
    /\ \A q \in Paths : fs'[q] = fs[q] \/ q = p \/ (fs[q].kind = "none" /\ fs'[q] = Directory)

LEMMA OpenToWriteEffect ==
  ASSUME TypeInv, NEW c \in Clients, NEW p \in Paths, NEW append \in BOOLEAN,
         NEW a \in Replies(OpenToWrite(c, calls[c], p, append)), Serve(c, a)
  PROVE  /\ faults' \in Nat
         /\ \/ /\ a.ret = "OK" /\ Granted(a.val, Stream("write", c, p)) /\ Made(p)
               /\ ~append => fs'[p] = File(<<>>)
            \/ a.ret \in {"FAIL", "NOTFOUND"} /\ open' = open /\ fs' = fs
            \/ /\ a.ret = "FAIL" /\ faults' # 0 /\ Made(p)
               /\ \E h \in Handles : Granted(h, Stream("write", c, p))
<1> DEFINE missing == {q \in Paths : p \in Under(q) /\ q # p /\ Is(q, "none")}
           truncated == IF append /\ Is(p, "file") THEN fs[p] ELSE File(<<>>)
           created == [q \in Paths |-> IF q \in missing THEN Directory
                                       ELSE IF q = p THEN truncated ELSE fs[q]]
<1>1. \A b \in OpenToWrite(c, calls[c], p, append) :
         /\ IsAnswer(b)
         /\ \/ b.fs = fs /\ b.open = open /\ b.ret \in {"FAIL", "NOTFOUND"}
            \/ /\ b.val \in Handles /\ open[b.val] = Closed /\ b.ret = "OK" /\ fs[p].kind # "dir"
               /\ b.fs = created /\ b.open = [open EXCEPT ![b.val] = Stream("write", c, p)]
  <2>1. \A b \in Grant(created, Stream("write", c, p)) :
           /\ IsAnswer(b)
           /\ \/ b.fs = fs /\ b.open = open /\ b.ret \in {"FAIL", "NOTFOUND"}
              \/ /\ b.val \in Handles /\ open[b.val] = Closed /\ b.ret = "OK"
                 /\ b.fs = created /\ b.open = [open EXCEPT ![b.val] = Stream("write", c, p)]
    <3> HIDE DEF created
    <3> QED
      BY GrantAnswers
  <2>2. \A r : /\ IsAnswer(Refuse(r)) /\ Refuse(r).fs = fs
               /\ Refuse(r).open = open /\ Refuse(r).ret = r
    BY DEF IsAnswer, Refuse, Answer
  <2>3. \A b \in OpenToWrite(c, calls[c], p, append) :
           \/ fs[p].kind # "dir" /\ b \in Grant(created, Stream("write", c, p))
           \/ b = Refuse("FAIL") \/ b = Refuse("NOTFOUND")
    BY DEF OpenToWrite, Stream, Is
  <2> HIDE DEF created
  <2> QED
    BY <2>1, <2>2, <2>3
<1>2. PICK b \in OpenToWrite(c, calls[c], p, append) :
         \/ /\ a = b
            /\ fs' = b.fs /\ open' = b.open /\ faults' = faults + 0
         \/ /\ a.ret = "FAIL" /\ faults' = faults + 1
            /\ fs' = b.fs /\ open' = b.open
         \/ /\ a.ret = "FAIL" /\ faults' = faults + 1
            /\ fs' = fs /\ open' = open
  <2> HIDE DEF created
  <2> QED
    BY <1>1, ReplyOf
<1>3. faults' \in Nat /\ (faults' = faults + 1 => faults' # 0)
  BY <1>2 DEF TypeInv
<1>4. fs' = created /\ fs[p].kind # "dir" => Made(p) /\ (~append => fs'[p] = File(<<>>))
  <2>1. truncated = File(truncated.data) /\ truncated \in Entries
    BY DEF TypeInv, Entries, Blocks, Kinds, File, Is
  <2>2. created \in [Paths -> Entries] /\ created[p] = truncated
    BY <2>1 DEF TypeInv, Entries, Blocks, Kinds, Directory
  <2>3. \A q \in Paths : created[q] = fs[q] \/ q = p \/ (fs[q].kind = "none" /\ created[q] = Directory)
    BY DEF Is
  <2> HIDE DEF created
  <2> QED
    BY <2>1, <2>2, <2>3 DEF Made
<1> HIDE DEF created
<1>5. CASE b.fs = fs /\ b.open = open /\ b.ret \in {"FAIL", "NOTFOUND"}
  BY <1>2, <1>3, <1>5
<1>6. CASE b.fs = created /\ b.ret = "OK" /\ fs' = b.fs /\ open' = b.open
  <2>1. Granted(b.val, Stream("write", c, p)) /\ fs[p].kind # "dir"
    BY <1>1, <1>6 DEF Granted
  <2> QED
    BY <1>2, <1>3, <1>4, <1>6, <2>1 DEF Granted
<1>7. CASE a.ret = "FAIL" /\ fs' = fs /\ open' = open
  BY <1>3, <1>7
<1> QED
  BY <1>1, <1>2, <1>5, <1>6, <1>7

\* FREAD of an open file: its next block, or none at the end.
LEMMA ReadEffect ==
  ASSUME TypeInv, NEW c \in Clients, NEW h \in Handles, open[h].mode = "read",
         NEW a \in Replies(Read(h)), Serve(c, a)
  PROVE  /\ fs' = fs /\ faults' \in Nat
         /\ open' = open \/ open' = [open EXCEPT ![h].pos = open[h].pos + 1]
         /\ \/ /\ a.ret = "OK" /\ open[h].pos < Len(fs[open[h].path].data)
               /\ a.val = fs[open[h].path].data[open[h].pos + 1]
               /\ open' = [open EXCEPT ![h].pos = open[h].pos + 1]
            \/ /\ a.ret = "OK" /\ open[h].pos >= Len(fs[open[h].path].data)
               /\ a.val = 0 /\ open' = open
            \/ a.ret = "FAIL"
<1> DEFINE data == fs[open[h].path].data
<1>1. open[h].pos \in Nat /\ Len(data) \in Nat
  BY DEF TypeInv, Closed, Streams, Finds, Entries
<1>2. \A b \in Read(h) :
         /\ IsAnswer(b) /\ b.fs = fs
         /\ \/ /\ b.ret = "OK" /\ open[h].pos < Len(data) /\ b.val = data[open[h].pos + 1]
               /\ b.open = [open EXCEPT ![h].pos = open[h].pos + 1]
            \/ b.ret = "OK" /\ open[h].pos >= Len(data) /\ b.val = 0 /\ b.open = open
            \/ b.ret = "FAIL" /\ b.open = open
  BY <1>1 DEF Read, IsAnswer, Answer, Refuse
<1>3. PICK b \in Read(h) :
         \/ /\ a = b
            /\ fs' = b.fs /\ open' = b.open /\ faults' = faults + 0
         \/ /\ a.ret = "FAIL" /\ faults' = faults + 1
            /\ fs' = b.fs /\ open' = b.open
         \/ /\ a.ret = "FAIL" /\ faults' = faults + 1
            /\ fs' = fs /\ open' = open
  <2> HIDE DEF data
  <2> QED
    BY <1>2, ReplyOf
<1>4. faults' \in Nat
  BY <1>3 DEF TypeInv
<1> QED
  BY <1>2, <1>3, <1>4

\* FWRITE to an open file.
LEMMA WriteEffect ==
  ASSUME TypeInv, NEW c \in Clients, NEW h \in Handles, NEW block,
         NEW a \in Replies(Write(h, block)), Serve(c, a)
  PROVE  /\ open' = open /\ faults' \in Nat
         /\ \/ /\ open[h].mode = "write" /\ fs[open[h].path].kind = "file"
               /\ fs' = [fs EXCEPT ![open[h].path].data = Append(@, block)]
            \/ a.ret = "FAIL" /\ fs' = fs
         /\ a.ret \in {"OK", "FAIL"}
<1>1. \A b \in Write(h, block) :
         /\ IsAnswer(b) /\ b.open = open
         /\ \/ /\ b.ret = "OK" /\ open[h].mode = "write" /\ fs[open[h].path].kind = "file"
               /\ b.fs = [fs EXCEPT ![open[h].path].data = Append(@, block)]
            \/ b.ret = "FAIL" /\ b.fs = fs
  BY DEF Write, IsAnswer, Answer, Refuse, Is
<1>2. PICK b \in Write(h, block) :
         \/ /\ a = b
            /\ fs' = b.fs /\ open' = b.open /\ faults' = faults + 0
         \/ /\ a.ret = "FAIL" /\ faults' = faults + 1
            /\ fs' = b.fs /\ open' = b.open
         \/ /\ a.ret = "FAIL" /\ faults' = faults + 1
            /\ fs' = fs /\ open' = open
  BY <1>1, ReplyOf
<1>3. faults' \in Nat
  BY <1>2 DEF TypeInv
<1> QED
  BY <1>1, <1>2, <1>3

\* FDELETE of a file, or of a directory.
LEMMA DeleteEffect ==
  ASSUME TypeInv, NEW c \in Clients, NEW p \in Paths,
         NEW kind, NEW A, (kind = "file" /\ A = DeleteFile(p)) \/ (kind = "dir" /\ A = DeleteDir(p)),
         NEW a \in Replies(A), Serve(c, a)
  PROVE  /\ open' = open /\ faults' \in Nat
         /\ fs' = fs \/ (fs[p].kind = kind /\ fs' = [fs EXCEPT ![p] = Absent])
         /\ a.ret \in {"OK", "NOTFOUND", "FAIL"}
         /\ a.ret = "OK" => fs' = [fs EXCEPT ![p] = Absent]
         /\ a.ret = "NOTFOUND" => fs' = fs /\ fs[p].kind # kind
         /\ a.ret = "FAIL" /\ faults' = 0 /\ kind = "file" => fs' = fs /\ Busy(p)
<1>1. \A b \in A :
         /\ IsAnswer(b) /\ b.open = open
         /\ \/ b.ret = "OK" /\ fs[p].kind = kind /\ b.fs = [fs EXCEPT ![p] = Absent]
            \/ b.ret = "NOTFOUND" /\ fs[p].kind # kind /\ b.fs = fs
            \/ b.ret = "FAIL" /\ b.fs = fs /\ (kind = "file" => Busy(p))
  BY DEF DeleteFile, DeleteDir, IsAnswer, Answer, Refuse, Is
<1>2. PICK b \in A :
         \/ /\ a = b
            /\ fs' = b.fs /\ open' = b.open /\ faults' = faults + 0
         \/ /\ a.ret = "FAIL" /\ faults' = faults + 1
            /\ fs' = b.fs /\ open' = b.open
         \/ /\ a.ret = "FAIL" /\ faults' = faults + 1
            /\ fs' = fs /\ open' = open
  BY <1>1, ReplyOf
<1>3. faults' \in Nat /\ (faults' = faults + 1 => faults' # 0)
  BY <1>2 DEF TypeInv
<1> QED
  BY <1>1, <1>2, <1>3

\* FFILEFIND of a directory, and of a handle.
Searches(c, p) ==
    [mode : {"find"}, client : {c}, call : {calls[c]}, left : SUBSET (Children(p) \X Kinds)]

\* What is in the directory p, each with its kind.
Snapshot(p) == {<<q, fs[q].kind>> : q \in {r \in Children(p) : ~Is(r, "none")}}

LEMMA FindFirstEffect ==
  ASSUME TypeInv, NEW c \in Clients, NEW p,
         NEW a \in Replies(FindFirst(c, calls[c], p)), Serve(c, a)
  PROVE  /\ fs' = fs /\ faults' \in Nat
         /\ \E f \in Searches(c, p) :
            /\ f.left = Snapshot(p)
            /\ \/ a.ret = "OK" /\ Granted(a.val, f)
               \/ a.ret \in {"FAIL", "NOTFOUND"} /\ open' = open
               \/ a.ret = "FAIL" /\ \E h \in Handles : Granted(h, f)
<1>1. PICK f : f = [mode |-> "find", client |-> c, call |-> calls[c], left |-> Snapshot(p)]
  OBVIOUS
<1>2. Snapshot(p) \subseteq Children(p) \X Kinds
  BY DEF Snapshot, Children, Under, TypeInv, Entries
<1>3. f \in Searches(c, p) /\ f.left = Snapshot(p)
  BY <1>1, <1>2 DEF Searches
<1>4. \A b \in FindFirst(c, calls[c], p) :
         /\ IsAnswer(b) /\ b.fs = fs
         /\ \/ b.open = open /\ b.ret \in {"FAIL", "NOTFOUND"}
            \/ /\ b.val \in Handles /\ open[b.val] = Closed /\ b.ret = "OK"
               /\ b.open = [open EXCEPT ![b.val] = f]
  <2>1. \A b \in FindFirst(c, calls[c], p) : b \in Grant(fs, f) \/ b = Refuse("NOTFOUND")
    BY <1>1 DEF FindFirst, Snapshot
  <2>2. \A r : /\ IsAnswer(Refuse(r)) /\ Refuse(r).fs = fs
               /\ Refuse(r).open = open /\ Refuse(r).ret = r
    BY DEF IsAnswer, Refuse, Answer
  <2> QED
    BY <2>1, <2>2, GrantAnswers
<1>5. PICK b \in FindFirst(c, calls[c], p) :
         \/ /\ a = b
            /\ fs' = b.fs /\ open' = b.open /\ faults' = faults + 0
         \/ /\ a.ret = "FAIL" /\ faults' = faults + 1
            /\ fs' = b.fs /\ open' = b.open
         \/ /\ a.ret = "FAIL" /\ faults' = faults + 1
            /\ fs' = fs /\ open' = open
  BY <1>4, ReplyOf
<1>6. fs' = fs /\ faults' \in Nat
  <2>1. fs' = fs
    BY <1>4, <1>5, Zenon
  <2>2. faults' \in Nat
    BY <1>5 DEF TypeInv
  <2> QED
    BY <2>1, <2>2
<1>7. CASE open' = open /\ a.ret \in {"FAIL", "NOTFOUND"}
  BY <1>3, <1>6, <1>7
<1>8. CASE b.ret = "OK" /\ open' = b.open /\ Granted(b.val, f)
  BY <1>3, <1>5, <1>6, <1>8 DEF Granted
<1>9. \/ open' = open /\ a.ret \in {"FAIL", "NOTFOUND"}
      \/ b.ret = "OK" /\ open' = b.open /\ Granted(b.val, f)
  BY <1>4, <1>5 DEF Granted
<1> QED
  BY <1>7, <1>8, <1>9

LEMMA FindNextEffect ==
  ASSUME TypeInv, NEW c \in Clients, NEW h \in Handles, open[h].mode = "find",
         NEW a \in Replies(FindNext(h)), Serve(c, a)
  PROVE  /\ fs' = fs /\ faults' \in Nat
         /\ open' = open \/ \E e \in open[h].left : open' = [open EXCEPT ![h].left = @ \ {e}]
         /\ a.ret \in {"OK", "NOTFOUND", "FAIL"}
         /\ a.ret = "OK" => /\ a.val \in open[h].left
                            /\ open' = [open EXCEPT ![h].left = @ \ {a.val}]
         /\ a.ret = "NOTFOUND" => open[h].left = {} /\ open' = open
<1>1. \A b \in FindNext(h) :
         /\ IsAnswer(b) /\ b.fs = fs
         /\ \/ /\ b.ret = "OK" /\ b.val \in open[h].left
               /\ b.open = [open EXCEPT ![h].left = @ \ {b.val}]
            \/ b.ret = "NOTFOUND" /\ open[h].left = {} /\ b.open = open
  BY SMTT(20) DEF FindNext, IsAnswer, Answer, Refuse
<1>2. PICK b \in FindNext(h) :
         \/ /\ a = b
            /\ fs' = b.fs /\ open' = b.open /\ faults' = faults + 0
         \/ /\ a.ret = "FAIL" /\ faults' = faults + 1
            /\ fs' = b.fs /\ open' = b.open
         \/ /\ a.ret = "FAIL" /\ faults' = faults + 1
            /\ fs' = fs /\ open' = open
  BY <1>1, ReplyOf
<1>3. faults' \in Nat
  BY <1>2 DEF TypeInv
<1> QED
  BY <1>1, <1>2, <1>3

LEMMA EntriesMade ==
  /\ Absent \in Entries
  /\ \A e \in Entries, b \in Blocks : [e EXCEPT !.data = Append(e.data, b)] \in Entries
<1>1. Absent \in Entries
  BY DEF Absent, Entries, Kinds
<1>2. ASSUME NEW e \in Entries, NEW b \in Blocks
      PROVE  [e EXCEPT !.data = Append(e.data, b)] \in Entries
  <2>1. Append(e.data, b) \in Seq(Blocks)
    BY DEF Entries
  <2> QED
    BY <2>1 DEF Entries
<1> QED
  BY <1>1, <1>2

-----------------------------------------------------------------------------
(* What the steps have in common. *)

\* A step of a call of c gives to it or takes from it what is open.
OpenStep(c) ==
    /\ open' \in [Handles -> {Closed} \cup Streams \cup Finds]
    /\ \A h \in Handles :
          \/ open'[h] = open[h]
          \/ /\ open[h] = Closed \/ (open[h].client = c /\ open[h].call = calls[c])
             /\ open'[h] = Closed \/ (open'[h].client = c /\ open'[h].call = calls[c])

LEMMA OpenSteps ==
  ASSUME TypeInv, NEW c \in Clients
  PROVE  /\ open' = open => OpenStep(c)
         /\ \A h, r : Granted(h, r) /\ r \in Streams \cup Finds /\ r.client = c /\ r.call = calls[c]
                         => OpenStep(c)
         /\ \A h, m : Holds(c, h, m) /\ open' = [open EXCEPT ![h] = Closed] => OpenStep(c)
         /\ \A h : Holds(c, h, "read") /\ open' = [open EXCEPT ![h].pos = open[h].pos + 1]
                      => OpenStep(c)
         /\ \A h, e : Holds(c, h, "find") /\ open' = [open EXCEPT ![h].left = @ \ {e}]
                         => OpenStep(c)
<1>1. open' = open => OpenStep(c)
  BY DEF OpenStep, TypeInv
<1>2. ASSUME NEW h, NEW r, Granted(h, r), r \in Streams \cup Finds, r.client = c, r.call = calls[c]
      PROVE  OpenStep(c)
  BY <1>2 DEF OpenStep, TypeInv, Granted
<1>3. ASSUME NEW h, NEW m, Holds(c, h, m), open' = [open EXCEPT ![h] = Closed]
      PROVE  OpenStep(c)
  BY <1>3 DEF OpenStep, TypeInv, Holds, IsOf
<1>4. ASSUME NEW h, Holds(c, h, "read"), open' = [open EXCEPT ![h].pos = open[h].pos + 1]
      PROVE  OpenStep(c)
  BY <1>4 DEF OpenStep, TypeInv, Holds, IsOf, Streams, Finds, Closed
<1>5. ASSUME NEW h, NEW e, Holds(c, h, "find"), open' = [open EXCEPT ![h].left = @ \ {e}]
      PROVE  OpenStep(c)
  BY <1>5 DEF OpenStep, TypeInv, Holds, IsOf, Streams, Finds, Closed
<1> QED
  BY <1>1, <1>2, <1>3, <1>4, <1>5

\* The part of the invariant that every step of a call keeps in the same way.
Common(c) == TypeInv' /\ HeldInv(c)' /\ Frame(c) /\ ClosesAll(c)

\* A call goes on with the local variables t.
LEMMA GoesOn ==
  ASSUME TypeInv, NEW c \in Clients, ClientInv(c), ~At(c, "idle"),
         fs' \in [Paths -> Entries], faults' \in Nat, OpenStep(c),
         NEW t, Continue(c, t), DOMAIN t = Fields, t.pc # "idle"
  PROVE  /\ Common(c)
         /\ st'[c] = t /\ calls' = calls /\ held' = held /\ original' = original
<1>1. /\ st'[c] = t /\ DOMAIN st' = Clients /\ \A x \in Clients \ {c} : st'[x] = st[x]
      /\ calls' = calls /\ held' = held /\ ret' = ret /\ original' = original
  BY DEF Continue, TypeInv
<1>2. TypeInv'
  BY <1>1 DEF TypeInv, OpenStep
<1>3. HeldInv(c)'
  BY <1>1 DEF ClientInv, HeldInv, TypeInv, At, OpenStep, IsOf
<1>4. Frame(c)
  BY <1>1 DEF Frame, OpenStep
<1>5. ClosesAll(c)
  BY <1>1 DEF ClosesAll, Returns
<1> QED
  BY <1>1, <1>2, <1>3, <1>4, <1>5 DEF Common

\* A call returns r.
LEMMA Returned ==
  ASSUME TypeInv, NEW c \in Clients, ClientInv(c), ~At(c, "idle"),
         fs' \in [Paths -> Entries], faults' \in Nat, OpenStep(c),
         NEW r, Return(c, r),
         r = "OK" => \A h \in Handles : open'[h] = Closed \/ open'[h].client # c
                                        \/ open'[h].call # calls[c]
  PROVE  /\ Common(c) /\ ClientInv(c)'
         /\ st'[c] = Fresh(st[c].call) /\ calls' = calls /\ held' = held /\ original' = original
         /\ ret'[c] = r
<1>1. /\ st'[c] = Fresh(st[c].call) /\ DOMAIN st' = Clients /\ \A x \in Clients \ {c} : st'[x] = st[x]
      /\ calls' = calls /\ held' = held /\ original' = original
      /\ DOMAIN ret' = Clients /\ ret'[c] = r
  BY DEF Return, TypeInv
<1>2. st'[c].pc = "idle" /\ st'[c].status = "OK" /\ DOMAIN st'[c] = Fields
  BY <1>1 DEF Fresh, Fields
<1>3. TypeInv'
  BY <1>1, <1>2 DEF TypeInv, OpenStep
<1>4. HeldInv(c)'
  BY <1>1, <1>2 DEF ClientInv, HeldInv, TypeInv, At, OpenStep, IsOf
<1>5. Frame(c) /\ ClosesAll(c)
  BY <1>1 DEF Frame, OpenStep, ClosesAll, Returns
<1>6. StageInv(c)' /\ UseInv(c)' /\ LeakInv(c)' /\ WalkInv(c)'
  BY <1>2 DEF StageInv, UseInv, LeakInv, WalkInv, At, Marking, Copying,
              HoldsSource, HoldsTarget, HoldsMarker, HoldsFind
<1> QED
  BY <1>1, <1>3, <1>4, <1>5, <1>6 DEF Common, ClientInv

\* What a step of c keeps and does.
StepInv(c) == Common(c) /\ ClientInv(c)' /\ StaysInside(c)

-----------------------------------------------------------------------------
(* FileRename. *)

LEMMA OpenSourceStep ==
  ASSUME NEW c \in Clients, TypeInv, ClientInv(c), OpenSource(c)
  PROVE  StepInv(c)
<1> DEFINE s == st[c]
           source == Stream("read", c, Normalized(s.call.path))
<1>1. /\ s.pc = "open_src" /\ s.call.op = "rename" /\ s.call \in Calls[c] /\ s.status = "OK"
      /\ Normalized(s.call.path) \in Paths
  BY CallsAssumption
     DEF OpenSource, At, ClientInv, StageInv, Marking, Renaming, Copying, Finding
<1>2. PICK a \in Replies(OpenToRead(c, calls[c], Normalized(s.call.path))) :
         /\ Serve(c, a)
         /\ \/ a.ret = "OK" /\ Continue(c, [s EXCEPT !.pc = "open", !.src = a.val])
            \/ a.ret # "OK" /\ Return(c, a.ret)
  BY DEF OpenSource
<1>3. /\ fs' = fs /\ faults' \in Nat
      /\ \/ a.ret = "OK" /\ Granted(a.val, source)
         \/ a.ret \in {"FAIL", "NOTFOUND"} /\ open' = open
         \/ a.ret = "FAIL" /\ \E h \in Handles : Granted(h, source)
  BY <1>1, <1>2, OpenToReadEffect
<1>4. source \in Streams /\ source.client = c /\ source.call = calls[c]
      /\ source.mode = "read" /\ source.path = Normalized(s.call.path)
  BY <1>1 DEF Stream, Streams, TypeInv
<1> HIDE DEF source
<1>5. OpenStep(c)
  BY <1>3, <1>4, OpenSteps
<1>6. CASE a.ret = "OK" /\ Continue(c, [s EXCEPT !.pc = "open", !.src = a.val])
  <2>1. PICK t : t = [s EXCEPT !.pc = "open", !.src = a.val]
    OBVIOUS
  <2>2. DOMAIN t = Fields /\ t.pc = "open" /\ t.src = a.val /\ t.call = s.call /\ t.status = s.status
    BY <2>1 DEF TypeInv, Fields
  <2>3. Common(c) /\ st'[c] = t /\ calls' = calls
    BY <1>1, <1>3, <1>5, <1>6, <2>1, <2>2, GoesOn DEF TypeInv, At
  <2>4. Granted(a.val, source)
    BY <1>3, <1>6
  <2>5. StageInv(c)' /\ WalkInv(c)'
    BY <1>1, <2>2, <2>3 DEF StageInv, WalkInv, At, Marking
  <2>6. UseInv(c)' /\ LeakInv(c)'
    BY <1>1, <1>4, <2>2, <2>3, <2>4
       DEF ClientInv, UseInv, LeakInv, HoldsSource, HoldsTarget, HoldsMarker, HoldsFind, Marking,
           Copying, Granted, Holds, IsOf, At, TypeInv, Streams, Closed
  <2> QED
    BY <1>3, <2>3, <2>5, <2>6 DEF StepInv, Common, ClientInv, StaysInside
<1>7. CASE a.ret # "OK" /\ Return(c, a.ret)
  <2>1. Common(c) /\ ClientInv(c)'
    BY <1>1, <1>3, <1>5, <1>7, Returned DEF TypeInv, At
  <2> QED
    BY <1>3, <2>1 DEF StepInv, StaysInside
<1> QED
  BY <1>2, <1>6, <1>7

LEMMA DropSourceStep ==
  ASSUME NEW c \in Clients, TypeInv, ClientInv(c), DropSource(c)
  PROVE  StepInv(c)
<1> DEFINE s == st[c]
<1>1. s.pc = "drop_src" /\ s.call.op = "rename" /\ s.status # "OK"
  BY DEF DropSource, At, ClientInv, StageInv, Marking, Renaming, Copying, Finding
<1>2. Holds(c, s.src, "read")
  BY <1>1 DEF ClientInv, UseInv, HoldsSource
<1>3. PICK a \in Replies(Close(s.src)) : Serve(c, a) /\ Return(c, s.status)
  BY DEF DropSource
<1>4. fs' = fs /\ faults' \in Nat /\ (open' = open \/ open' = [open EXCEPT ![s.src] = Closed])
  BY <1>3, CloseEffect DEF TypeInv
<1>5. OpenStep(c)
  BY <1>2, <1>4, OpenSteps
<1>6. Common(c) /\ ClientInv(c)'
  BY <1>1, <1>3, <1>4, <1>5, Returned DEF TypeInv, At
<1> QED
  BY <1>4, <1>6 DEF StepInv, StaysInside

LEMMA CopyReadStep ==
  ASSUME NEW c \in Clients, TypeInv, ClientInv(c), CopyRead(c)
  PROVE  StepInv(c)
<1> DEFINE s == st[c]
<1>1. s.pc = "read" /\ s.call.op = "rename" /\ s.call \in Calls[c] /\ s.status = "OK"
  BY DEF CopyRead, At, ClientInv, StageInv, Marking, Renaming, Copying, Finding
<1>2. /\ Holds(c, s.src, "read") /\ open[s.src].path = Normalized(s.call.path)
      /\ Holds(c, s.dst, "write") /\ open[s.dst].path = Normalized(s.call.target)
  BY <1>1 DEF ClientInv, UseInv, HoldsSource, HoldsTarget, Copying
<1>3. PICK a \in Replies(Read(s.src)) :
         /\ Serve(c, a)
         /\ \/ a.ret = "OK" /\ a.val # 0 /\ Continue(c, [s EXCEPT !.pc = "write", !.block = a.val])
            \/ ~(a.ret = "OK" /\ a.val # 0)
               /\ Continue(c, [s EXCEPT !.pc = "close_dst", !.status = a.ret])
  BY DEF CopyRead
<1>4. /\ fs' = fs /\ faults' \in Nat
      /\ open' = open \/ open' = [open EXCEPT ![s.src].pos = open[s.src].pos + 1]
      /\ a.ret = "OK" /\ a.val # 0 => a.val \in Blocks
  <2>1. s.src \in Handles /\ open[s.src] \in Streams
    BY <1>2 DEF Holds, IsOf, TypeInv, Streams, Finds, Closed
  <2>2. open[s.src].pos \in Nat /\ fs[open[s.src].path].data \in Seq(Blocks)
    BY <2>1 DEF Streams, TypeInv, Entries
  <2>3. open[s.src].mode = "read"
    BY <1>2 DEF Holds
  <2>4. /\ fs' = fs /\ faults' \in Nat
        /\ open' = open \/ open' = [open EXCEPT ![s.src].pos = open[s.src].pos + 1]
        /\ a.ret = "OK" => \/ /\ open[s.src].pos < Len(fs[open[s.src].path].data)
                             /\ a.val = fs[open[s.src].path].data[open[s.src].pos + 1]
                          \/ a.val = 0
    BY <1>3, <2>1, <2>3, ReadEffect
  <2>5. ASSUME NEW data \in Seq(Blocks), NEW n \in Nat, n < Len(data)
        PROVE  data[n + 1] \in Blocks
    BY <2>5
  <2> QED
    BY <2>2, <2>4, <2>5
<1>5. OpenStep(c)
  BY <1>2, <1>4, OpenSteps
<1>6. PICK t : /\ Continue(c, t) /\ DOMAIN t = Fields /\ t.call = s.call
               /\ t.src = s.src /\ t.dst = s.dst
               /\ \/ t.pc = "write" /\ t.block \in Blocks /\ t.status = s.status
                  \/ t.pc = "close_dst"
  <2>1. CASE a.ret = "OK" /\ a.val # 0 /\ Continue(c, [s EXCEPT !.pc = "write", !.block = a.val])
    <3>1. PICK t : t = [s EXCEPT !.pc = "write", !.block = a.val]
      OBVIOUS
    <3>2. DOMAIN t = Fields /\ t.call = s.call /\ t.src = s.src /\ t.dst = s.dst
          /\ t.pc = "write" /\ t.block \in Blocks /\ t.status = s.status
      BY <1>4, <2>1, <3>1 DEF TypeInv, Fields
    <3> QED
      BY <2>1, <3>1, <3>2
  <2>2. CASE Continue(c, [s EXCEPT !.pc = "close_dst", !.status = a.ret])
    <3>1. PICK t : t = [s EXCEPT !.pc = "close_dst", !.status = a.ret]
      OBVIOUS
    <3>2. DOMAIN t = Fields /\ t.call = s.call /\ t.src = s.src /\ t.dst = s.dst
          /\ t.pc = "close_dst"
      BY <3>1 DEF TypeInv, Fields
    <3> QED
      BY <2>2, <3>1, <3>2
  <2> QED
    BY <1>3, <2>1, <2>2
<1>7. Common(c) /\ st'[c] = t /\ calls' = calls
  BY <1>1, <1>4, <1>5, <1>6, GoesOn DEF TypeInv, At
<1>8. StageInv(c)' /\ WalkInv(c)'
  BY <1>1, <1>6, <1>7 DEF StageInv, WalkInv, At, Marking, Copying, Renaming
<1>9. UseInv(c)' /\ LeakInv(c)'
  BY <1>1, <1>2, <1>4, <1>6, <1>7
     DEF ClientInv, UseInv, LeakInv, HoldsSource, HoldsTarget, HoldsMarker, HoldsFind, Marking,
         Copying, Holds, IsOf, At, TypeInv, Streams, Finds, Closed
<1> QED
  BY <1>4, <1>7, <1>8, <1>9 DEF StepInv, Common, ClientInv, StaysInside

LEMMA CopyWriteStep ==
  ASSUME NEW c \in Clients, TypeInv, ClientInv(c), CopyWrite(c)
  PROVE  StepInv(c)
<1> DEFINE s == st[c]
<1>1. /\ s.pc = "write" /\ s.call.op = "rename" /\ s.call \in Calls[c] /\ s.status = "OK"
      /\ s.block \in Blocks
  BY DEF CopyWrite, At, ClientInv, StageInv, Marking, Renaming, Copying, Finding
<1>2. /\ Holds(c, s.src, "read") /\ open[s.src].path = Normalized(s.call.path)
      /\ Holds(c, s.dst, "write") /\ open[s.dst].path = Normalized(s.call.target)
  BY <1>1 DEF ClientInv, UseInv, HoldsSource, HoldsTarget, Copying
<1>3. PICK a \in Replies(Write(s.dst, s.block)) :
         /\ Serve(c, a)
         /\ Continue(c, [s EXCEPT !.pc = IF a.ret = "OK" THEN "read" ELSE "close_dst",
                                  !.status = a.ret, !.block = 0])
  BY DEF CopyWrite
<1>4. /\ open' = open /\ faults' \in Nat /\ a.ret \in {"OK", "FAIL"}
      /\ \/ fs' = [fs EXCEPT ![open[s.dst].path].data = Append(@, s.block)]
         \/ fs' = fs
  BY ZenonT(30), <1>2, <1>3, WriteEffect DEF Holds, IsOf
<1>5. fs' \in [Paths -> Entries]
  <2>1. CASE fs' = [fs EXCEPT ![open[s.dst].path].data = Append(@, s.block)]
    <3>1. PICK p : p = open[s.dst].path
      OBVIOUS
    <3>2. fs' = [fs EXCEPT ![p] = [fs[p] EXCEPT !.data = Append(fs[p].data, s.block)]]
      BY <2>1, <3>1
    <3>3. p \in Paths => [fs[p] EXCEPT !.data = Append(fs[p].data, s.block)] \in Entries
      BY <1>1, EntriesMade DEF TypeInv
    <3> QED
      BY <3>2, <3>3 DEF TypeInv
  <2> QED
    BY <1>4, <2>1 DEF TypeInv
<1>6. OpenStep(c)
  BY <1>4, OpenSteps
<1>7. PICK t : t = [s EXCEPT !.pc = IF a.ret = "OK" THEN "read" ELSE "close_dst",
                             !.status = a.ret, !.block = 0]
  OBVIOUS
<1>8. /\ DOMAIN t = Fields /\ t.call = s.call /\ t.src = s.src /\ t.dst = s.dst
      /\ (t.pc = "read" /\ t.status = "OK") \/ t.pc = "close_dst"
  BY <1>7 DEF TypeInv, Fields
<1>9. Common(c) /\ st'[c] = t /\ calls' = calls
  BY <1>1, <1>3, <1>4, <1>5, <1>6, <1>7, <1>8, GoesOn DEF At
<1>10. StageInv(c)' /\ WalkInv(c)'
  BY <1>1, <1>8, <1>9 DEF StageInv, WalkInv, At, Marking, Copying, Renaming
<1>11. UseInv(c)'
  <2>1. /\ HoldsSource(t) /\ ~HoldsMarker(t) /\ ~HoldsFind(t)
        /\ HoldsTarget(t)
    BY <1>1, <1>8 DEF HoldsSource, HoldsTarget, HoldsMarker, HoldsFind, Copying
  <2>2. /\ Holds(c, t.src, "read")' /\ open'[t.src].path = Normalized(t.call.path)
        /\ Holds(c, t.dst, "write")' /\ open'[t.dst].path = Normalized(t.call.target)
    BY <1>2, <1>4, <1>8, <1>9 DEF Holds, IsOf
  <2> QED
    BY <1>9, <2>1, <2>2 DEF UseInv
<1>12. LeakInv(c)'
  <2>1. \A h \in Handles : IsOf(c, h) /\ open[h].call = calls[c] => h = s.src \/ h = s.dst
    BY <1>1 DEF ClientInv, LeakInv, HoldsMarker, HoldsFind, At
  <2>2. HoldsSource(t) /\ HoldsTarget(t)
    BY <1>1, <1>8 DEF HoldsSource, HoldsTarget, Copying
  <2>3. \A h \in Handles : IsOf(c, h)' /\ open'[h].call = calls'[c] => h = t.src \/ h = t.dst
    BY <1>4, <1>8, <1>9, <2>1 DEF IsOf
  <2> QED
    BY <1>9, <2>2, <2>3 DEF LeakInv
<1> QED
  BY <1>1, <1>9, <1>10, <1>11, <1>12 DEF StepInv, Common, ClientInv, StaysInside

LEMMA CloseTargetStep ==
  ASSUME NEW c \in Clients, TypeInv, ClientInv(c), CloseTarget(c)
  PROVE  StepInv(c)
<1> DEFINE s == st[c]
<1>1. s.pc = "close_dst" /\ s.call.op = "rename" /\ s.call \in Calls[c]
  BY DEF CloseTarget, At, ClientInv, StageInv, Marking, Renaming, Copying, Finding
<1>2. /\ Holds(c, s.src, "read") /\ open[s.src].path = Normalized(s.call.path)
      /\ Holds(c, s.dst, "write")
  BY <1>1 DEF ClientInv, UseInv, HoldsSource, HoldsTarget, Copying
<1>3. PICK a \in Replies(Close(s.dst)) :
         /\ Serve(c, a)
         /\ Continue(c, [s EXCEPT !.pc = "close_src", !.status = FirstError(@, a.ret)])
  BY DEF CloseTarget
<1>4. /\ fs' = fs /\ faults' \in Nat
      /\ open' = open \/ open' = [open EXCEPT ![s.dst] = Closed]
      /\ a.ret = "OK" => open' = [open EXCEPT ![s.dst] = Closed]
  BY <1>3, CloseEffect DEF TypeInv
<1>5. OpenStep(c)
  BY <1>2, <1>4, OpenSteps
<1>6. PICK t : t = [s EXCEPT !.pc = "close_src", !.status = FirstError(@, a.ret)]
  OBVIOUS
<1>7. /\ DOMAIN t = Fields /\ t.call = s.call /\ t.src = s.src /\ t.pc = "close_src"
      /\ t.status = "OK" => s.status = "OK" /\ a.ret = "OK"
  BY <1>6 DEF TypeInv, Fields, FirstError
<1>8. Common(c) /\ st'[c] = t /\ calls' = calls
  BY <1>1, <1>3, <1>4, <1>5, <1>6, <1>7, GoesOn DEF TypeInv, At
<1>9. StageInv(c)' /\ WalkInv(c)'
  BY <1>1, <1>7, <1>8 DEF StageInv, WalkInv, At, Marking, Copying, Renaming
<1>10. UseInv(c)' /\ LeakInv(c)'
  BY <1>1, <1>2, <1>4, <1>7, <1>8
     DEF ClientInv, UseInv, LeakInv, HoldsSource, HoldsTarget, HoldsMarker, HoldsFind, Marking,
         Copying, Holds, IsOf, At, TypeInv
<1> QED
  BY <1>1, <1>4, <1>8, <1>9, <1>10 DEF StepInv, Common, ClientInv, StaysInside

LEMMA CloseSourceStep ==
  ASSUME NEW c \in Clients, TypeInv, ClientInv(c), CloseSource(c)
  PROVE  StepInv(c)
<1> DEFINE s == st[c]
<1>1. s.pc = "close_src" /\ s.call.op = "rename" /\ s.call \in Calls[c]
  BY DEF CloseSource, At, ClientInv, StageInv, Marking, Renaming, Copying, Finding
<1>2. Holds(c, s.src, "read")
  BY <1>1 DEF ClientInv, UseInv, HoldsSource
<1>3. PICK a \in Replies(Close(s.src)) :
         /\ Serve(c, a)
         /\ \/ FirstError(s.status, a.ret) = "OK" /\ Continue(c, [s EXCEPT !.pc = "delete_src"])
            \/ FirstError(s.status, a.ret) # "OK" /\ Return(c, FirstError(s.status, a.ret))
  BY DEF CloseSource
<1>4. /\ fs' = fs /\ faults' \in Nat
      /\ open' = open \/ open' = [open EXCEPT ![s.src] = Closed]
      /\ a.ret = "OK" => open' = [open EXCEPT ![s.src] = Closed]
  BY <1>3, CloseEffect DEF TypeInv
<1>5. OpenStep(c)
  BY <1>2, <1>4, OpenSteps
<1>6. CASE FirstError(s.status, a.ret) = "OK" /\ Continue(c, [s EXCEPT !.pc = "delete_src"])
  <2>1. PICK t : t = [s EXCEPT !.pc = "delete_src"]
    OBVIOUS
  <2>2. DOMAIN t = Fields /\ t.pc = "delete_src" /\ t.call = s.call /\ t.status = s.status
    BY <2>1 DEF TypeInv, Fields
  <2>3. Common(c) /\ st'[c] = t /\ calls' = calls
    BY <1>1, <1>4, <1>5, <1>6, <2>1, <2>2, GoesOn DEF TypeInv, At
  <2>4. StageInv(c)' /\ WalkInv(c)'
    BY <1>1, <1>6, <2>2, <2>3 DEF StageInv, WalkInv, At, Marking, Copying, Renaming, FirstError
  <2>5. UseInv(c)' /\ LeakInv(c)'
    BY <1>1, <1>2, <1>4, <1>6, <2>2, <2>3
       DEF ClientInv, UseInv, LeakInv, HoldsSource, HoldsTarget, HoldsMarker, HoldsFind, Marking,
           Copying, Holds, IsOf, At, TypeInv, FirstError
  <2> QED
    BY <1>4, <2>3, <2>4, <2>5 DEF StepInv, Common, ClientInv, StaysInside
<1>7. CASE FirstError(s.status, a.ret) # "OK" /\ Return(c, FirstError(s.status, a.ret))
  <2>1. Common(c) /\ ClientInv(c)'
    BY <1>1, <1>4, <1>5, <1>7, Returned DEF TypeInv, At
  <2> QED
    BY <1>4, <2>1 DEF StepInv, StaysInside
<1> QED
  BY <1>3, <1>6, <1>7

LEMMA DeleteSourceStep ==
  ASSUME NEW c \in Clients, TypeInv, ClientInv(c), DeleteSource(c)
  PROVE  StepInv(c)
<1> DEFINE s == st[c]
<1>1. /\ s.pc = "delete_src" /\ s.call.op = "rename" /\ s.call \in Calls[c] /\ s.status = "OK"
      /\ Normalized(s.call.path) \in Paths
  BY CallsAssumption
     DEF DeleteSource, At, ClientInv, StageInv, Marking, Renaming, Copying, Finding
<1>2. PICK a \in Replies(DeleteFile(Normalized(s.call.path))) :
         Serve(c, a) /\ Return(c, IF Gone(a.ret) THEN "OK" ELSE a.ret)
  BY DEF DeleteSource
<1>3. /\ open' = open /\ faults' \in Nat
      /\ fs' = fs \/ fs' = [fs EXCEPT ![Normalized(s.call.path)] = Absent]
  BY <1>1, <1>2, DeleteEffect
<1>4. fs' \in [Paths -> Entries]
  BY <1>3, EntriesMade DEF TypeInv
<1>5. OpenStep(c)
  BY <1>3, OpenSteps
<1>6. \A h \in Handles : open'[h] = Closed \/ open'[h].client # c \/ open'[h].call # calls[c]
  BY <1>1, <1>3 DEF ClientInv, LeakInv, IsOf, At, HoldsSource, HoldsTarget, HoldsMarker, HoldsFind,
                    Marking, Copying
<1>7. Common(c) /\ ClientInv(c)'
  BY <1>1, <1>2, <1>3, <1>4, <1>5, <1>6, Returned DEF At
<1> QED
  BY <1>1, <1>7 DEF StepInv, StaysInside

-----------------------------------------------------------------------------
(* Calls begin, a file is deleted, the user closes a file. *)

LEMMA FileDeleteStep ==
  ASSUME NEW c \in Clients, TypeInv, ClientInv(c), FileDelete(c)
  PROVE  StepInv(c)
<1> DEFINE s == st[c]
<1>1. /\ s.pc = "delete" /\ s.call.op = "delete" /\ s.call \in Calls[c] /\ s.status = "OK"
      /\ Normalized(s.call.path) \in Paths
  BY CallsAssumption
     DEF FileDelete, At, ClientInv, StageInv, Marking, Renaming, Copying, Finding
<1>2. PICK a \in Replies(DeleteFile(Normalized(s.call.path))) : Serve(c, a) /\ Return(c, a.ret)
  BY DEF FileDelete
<1>3. /\ open' = open /\ faults' \in Nat
      /\ fs' = fs \/ fs' = [fs EXCEPT ![Normalized(s.call.path)] = Absent]
  BY <1>1, <1>2, DeleteEffect
<1>4. fs' \in [Paths -> Entries]
  BY <1>3, EntriesMade DEF TypeInv
<1>5. OpenStep(c)
  BY <1>3, OpenSteps
<1>6. \A h \in Handles : open'[h] = Closed \/ open'[h].client # c \/ open'[h].call # calls[c]
  BY <1>1, <1>3 DEF ClientInv, LeakInv, IsOf, At, HoldsSource, HoldsTarget, HoldsMarker, HoldsFind,
                    Marking, Copying
<1>7. Common(c) /\ ClientInv(c)'
  BY <1>1, <1>2, <1>3, <1>4, <1>5, <1>6, Returned DEF At
<1> QED
  BY <1>1, <1>7 DEF StepInv, StaysInside

LEMMA FileCloseStep ==
  ASSUME NEW c \in Clients, TypeInv, ClientInv(c), NEW h \in held[c], FileClose(c, h)
  PROVE  StepInv(c)
<1>1. /\ st[c].pc = "idle" /\ calls' = calls /\ st' = st /\ original' = original
      /\ held' = [held EXCEPT ![c] = @ \ {h}] /\ DOMAIN ret' = Clients
  BY DEF FileClose, At, TypeInv
<1>2. PICK a \in Replies(Close(h)) : Serve(c, a)
  BY DEF FileClose
<1>3. fs' = fs /\ faults' \in Nat /\ (open' = open \/ open' = [open EXCEPT ![h] = Closed])
  BY <1>2, CloseEffect DEF TypeInv
<1>4. TypeInv'
  BY <1>1, <1>3 DEF TypeInv
<1>5. HeldInv(c)' /\ Frame(c)
  BY <1>1, <1>3 DEF ClientInv, HeldInv, Frame, IsOf, At, TypeInv
<1>6. StageInv(c)' /\ UseInv(c)' /\ LeakInv(c)' /\ WalkInv(c)'
  BY <1>1 DEF ClientInv, StageInv, UseInv, LeakInv, WalkInv, At, Marking, Copying,
              HoldsSource, HoldsTarget, HoldsMarker, HoldsFind
<1> QED
  BY <1>1, <1>4, <1>5, <1>6 DEF StepInv, Common, ClientInv, ClosesAll, StaysInside, Returns, At

\* The directories DirCreate works on are on the drive, and so are their markers.
LEMMA AncestorsAreMarked ==
  ASSUME NEW c \in Clients, NEW k \in Calls[c], NEW p \in EnsuredDirs(k), p \in Paths
  PROVE  /\ WithAncestors(p) \in Seq(Paths) /\ WithAncestors(p) # <<>>
         /\ \A i \in 1 .. Len(WithAncestors(p)) : Marker(WithAncestors(p)[i]) \in Paths
<1>1. p \in Seq(STRING) /\ Len(p) \in Nat
  BY ServerAssumption
<1>2. \A i \in 1 .. Len(p) + 1 : SubSeq(p, 1, i - 1) \in Paths
  BY <1>1, ServerAssumption
<1>3. /\ WithAncestors(p) \in Seq(Paths) /\ Len(WithAncestors(p)) = Len(p) + 1
      /\ \A i \in 1 .. Len(p) + 1 : WithAncestors(p)[i] = SubSeq(p, 1, i - 1)
  BY <1>1, <1>2 DEF WithAncestors
<1>4. \A i \in 1 .. Len(p) + 1 : p \in Under(SubSeq(p, 1, i - 1))
  <2>1. TAKE i \in 1 .. Len(p) + 1
  <2>2. Len(SubSeq(p, 1, i - 1)) = i - 1
    BY <1>1
  <2> QED
    BY <1>1, <2>2 DEF Under
<1>5. \A d \in Paths : p \in Under(d) => Marker(d) \in Paths
  BY CallsAssumption
<1>6. WithAncestors(p) # <<>>
  BY <1>1, <1>3
<1>7. \A i \in 1 .. Len(p) + 1 : Marker(SubSeq(p, 1, i - 1)) \in Paths
  BY <1>2, <1>4, <1>5
<1> QED
  BY <1>3, <1>6, <1>7

LEMMA RootNode ==
  ASSUME NEW p \in Paths
  PROVE  <<Node(p, 0, FALSE)>> \in Seq(NodesBelow(p))
<1>1. p \in Under(p)
  BY ServerAssumption DEF Under
<1>2. PICK n : n = Node(p, 0, FALSE)
  OBVIOUS
<1>3. n \in NodesBelow(p)
  BY <1>1, <1>2, ServerAssumption DEF Node, NodesBelow
<1>4. <<n>> \in Seq(NodesBelow(p))
  BY <1>3
<1> QED
  BY <1>2, <1>4

LEMMA StartedCall ==
  ASSUME NEW c \in Clients, NEW k \in Calls[c], TypeInv',
         st'[c] = Started(k),
         \A h \in Handles : IsOf(c, h)' => open'[h].call # calls'[c]
  PROVE  StageInv(c)' /\ UseInv(c)' /\ LeakInv(c)' /\ WalkInv(c)'
<1>1. k.op \in Operations /\ Normalized(k.path) \in Paths
  BY CallsAssumption
<1>2. PICK t : t = Started(k)
  OBVIOUS
<1>3. /\ t.call = k /\ t.status = "OK" /\ t.parents = FALSE /\ t.pc = FirstStep(k)
      /\ k.op = "mkdir" => t.dirs = WithAncestors(Normalized(k.path))
      /\ k.op = "rmdir" => t.stack = <<Node(Normalized(k.path), 0, FALSE)>>
  BY <1>2 DEF Started, Fresh
<1>4. \/ k.op = "open" /\ t.pc = "open"
      \/ k.op = "delete" /\ t.pc = "delete"
      \/ k.op = "mkdir" /\ t.pc = "mark"
      \/ k.op = "rmdir" /\ t.pc = "visit"
      \/ k.op = "rename" /\ t.pc = "open_src"
      \/ k.op = "list" /\ t.pc = "find"
  BY <1>1, <1>3 DEF FirstStep, Operations
<1>5. k.op = "mkdir" => /\ t.dirs \in Seq(Paths) /\ t.dirs # <<>>
                        /\ \A i \in 1 .. Len(t.dirs) : Marker(t.dirs[i]) \in Paths
  <2>1. k.op = "mkdir" => Normalized(k.path) \in EnsuredDirs(k)
    BY DEF EnsuredDirs
  <2> QED
    BY <1>1, <1>3, <2>1, AncestorsAreMarked
<1>6. k.op = "rmdir" => t.stack \in Seq(NodesBelow(Normalized(k.path)))
  BY <1>1, <1>3, RootNode
<1>7. StageInv(c)'
  BY <1>2, <1>3, <1>4, <1>5 DEF StageInv, At, Marking, Copying, Renaming, Finding
<1>8. UseInv(c)' /\ LeakInv(c)'
  BY <1>2, <1>3, <1>4 DEF UseInv, LeakInv, HoldsSource, HoldsTarget, HoldsMarker, HoldsFind,
                          Marking, Copying, At
<1>9. WalkInv(c)'
  BY <1>2, <1>3, <1>4, <1>6 DEF WalkInv, At, Finding
<1> QED
  BY <1>7, <1>8, <1>9

LEMMA StartCallStep ==
  ASSUME NEW c \in Clients, TypeInv, ClientInv(c), NEW k \in Calls[c], StartCall(c, k)
  PROVE  StepInv(c)
<1>1. /\ st[c].pc = "idle" /\ fs' = fs /\ open' = open /\ faults' = faults /\ held' = held
      /\ calls' = [calls EXCEPT ![c] = @ + 1]
      /\ DOMAIN ret' = Clients /\ DOMAIN original' = Clients /\ DOMAIN st' = Clients
      /\ \A x \in Clients \ {c} : st'[x] = st[x] /\ original'[x] = original[x]
  BY DEF StartCall, At, TypeInv, NoRequest
<1>2. \/ st'[c] = Fresh(k)
      \/ st'[c] = Started(k)
      \/ st'[c] = [Fresh(k) EXCEPT !.pc = "platform"]
  BY DEF StartCall, TypeInv
<1>3. DOMAIN st'[c] = Fields
  BY <1>2 DEF Started, Fresh, Fields
<1>4. TypeInv'
  BY <1>1, <1>3 DEF TypeInv
<1>5. \A h \in Handles : IsOf(c, h)' => open'[h].call # calls'[c] /\ open'[h].call < calls'[c]
  BY <1>1 DEF ClientInv, HeldInv, IsOf, TypeInv, Streams, Finds, Closed
<1>6. HeldInv(c)' /\ Frame(c)
  <2>1. \A h \in Handles : IsOf(c, h)' => open'[h].call <= calls'[c]
    BY <1>1, <1>4, <1>5 DEF TypeInv, IsOf, Streams, Finds, Closed
  <2>2. \A h \in held'[c] : IsOf(c, h)' /\ open'[h].mode = "write" /\ open'[h].call < calls'[c]
    BY <1>1, <1>5 DEF ClientInv, HeldInv, IsOf
  <2>3. Frame(c)
    BY <1>1 DEF Frame, TypeInv
  <2> QED
    BY <2>1, <2>2, <2>3 DEF HeldInv
<1>7. StageInv(c)' /\ UseInv(c)' /\ LeakInv(c)' /\ WalkInv(c)'
  <2>1. CASE st'[c] = Started(k)
    BY <1>4, <1>5, <2>1, StartedCall
  <2>2. CASE st'[c] = Fresh(k) \/ st'[c] = [Fresh(k) EXCEPT !.pc = "platform"]
    <3>1. PICK t : t = st'[c]
      OBVIOUS
    <3>2. t.call = k /\ t.status = "OK" /\ t.pc \in {"idle", "platform"}
      BY <2>2, <3>1 DEF Fresh
    <3> QED
      BY <1>5, <3>1, <3>2
         DEF StageInv, UseInv, LeakInv, WalkInv, At, Marking, Copying,
             HoldsSource, HoldsTarget, HoldsMarker, HoldsFind
  <2> QED
    BY <1>2, <2>1, <2>2
<1> QED
  BY <1>1, <1>4, <1>6, <1>7 DEF StepInv, Common, ClientInv, ClosesAll, StaysInside, Returns, At

LEMMA ReadPlatformIdStep ==
  ASSUME NEW c \in Clients, TypeInv, ClientInv(c), ReadPlatformId(c)
  PROVE  StepInv(c)
<1>1. st[c].pc = "platform" /\ st[c].call \in Calls[c] /\ st[c].status = "OK"
  BY DEF ReadPlatformId, ClientInv, StageInv, At
<1>2. CASE /\ st' = [st EXCEPT ![c] = Started(@.call)] /\ NoRequest
           /\ UNCHANGED <<calls, held, ret, original>>
  <2>1. /\ fs' = fs /\ open' = open /\ faults' = faults /\ held' = held /\ calls' = calls
        /\ ret' = ret /\ original' = original /\ st'[c] = Started(st[c].call)
        /\ DOMAIN st' = Clients /\ \A x \in Clients \ {c} : st'[x] = st[x]
    BY <1>2 DEF TypeInv, NoRequest
  <2>2. DOMAIN st'[c] = Fields
    BY <2>1 DEF Started, Fresh, Fields
  <2>3. TypeInv'
    BY <2>1, <2>2 DEF TypeInv
  <2>4. \A h \in Handles : IsOf(c, h)' => open'[h].call # calls'[c]
    BY <1>1, <2>1 DEF ClientInv, LeakInv, IsOf, At, HoldsSource, HoldsTarget, HoldsMarker, HoldsFind,
                      Marking, Copying
  <2>5. StageInv(c)' /\ UseInv(c)' /\ LeakInv(c)' /\ WalkInv(c)'
    BY <1>1, <2>1, <2>3, <2>4, StartedCall
  <2>6. HeldInv(c)' /\ Frame(c)
    BY <1>1, <2>1 DEF ClientInv, HeldInv, Frame, IsOf, At, TypeInv
  <2>7. ret'[c] # "OK" \/ st'[c].pc # "idle"
    <3>1. PICK t : t = Started(st[c].call)
      OBVIOUS
    <3>2. t.pc = FirstStep(st[c].call)
      BY <3>1 DEF Started, Fresh
    <3>3. st[c].call.op \in Operations
      BY <1>1, CallsAssumption
    <3>4. FirstStep(st[c].call) # "idle"
      BY <3>3 DEF FirstStep, Operations
    <3> QED
      BY <2>1, <3>1, <3>2, <3>4
  <2> QED
    BY <2>1, <2>3, <2>5, <2>6, <2>7
       DEF StepInv, Common, ClientInv, ClosesAll, StaysInside, Returns, At
<1>3. CASE \E a \in Replies({Refuse("OK")}) : a.lost = 1 /\ Serve(c, a) /\ Return(c, a.ret)
  <2>1. PICK a \in Replies({Refuse("OK")}) : a.lost = 1 /\ Serve(c, a) /\ Return(c, a.ret)
    BY <1>3
  <2>2. \A b \in {Refuse("OK")} : IsAnswer(b) /\ b.fs = fs /\ b.open = open /\ b.lost = 0
    BY DEF Refuse, Answer, IsAnswer
  <2>3. fs' = fs /\ open' = open /\ faults' \in Nat /\ a.ret = "FAIL"
    <3>1. PICK b \in {Refuse("OK")} :
            \/ /\ a = b
               /\ fs' = b.fs /\ open' = b.open /\ faults' = faults + 0
            \/ /\ a.ret = "FAIL" /\ faults' = faults + 1
               /\ fs' = b.fs /\ open' = b.open
            \/ /\ a.ret = "FAIL" /\ faults' = faults + 1
               /\ fs' = fs /\ open' = open
      BY <2>1, <2>2, ReplyOf
    <3> QED
      BY <2>1, <2>2, <3>1 DEF TypeInv
  <2>4. OpenStep(c)
    BY <2>3, OpenSteps
  <2>5. Common(c) /\ ClientInv(c)'
    BY <1>1, <2>1, <2>3, <2>4, Returned DEF TypeInv, At
  <2> QED
    BY <2>3, <2>5 DEF StepInv, StaysInside
<1> QED
  BY <1>2, <1>3 DEF ReadPlatformId

-----------------------------------------------------------------------------
(* FileOpen and DirCreate. *)

\* A failure in them ends the call, or that of a rename after its source is closed.
LEMMA FailsKeeps ==
  ASSUME TypeInv, NEW c \in Clients, ClientInv(c), st[c].pc \in Marking \cup {"open"},
         fs' \in [Paths -> Entries], faults' \in Nat, OpenStep(c),
         NEW r, r # "OK", Fails(c, r),
         st[c].call.op = "rename" => open'[st[c].src] = open[st[c].src]
  PROVE  Common(c) /\ ClientInv(c)'
<1> DEFINE s == st[c]
<1>1. s.call \in Calls[c] /\ ~At(c, "idle")
  BY DEF ClientInv, StageInv, At, Marking
<1>2. CASE s.call.op = "rename" /\ Continue(c, [s EXCEPT !.pc = "drop_src", !.status = r])
  <2>1. PICK t : t = [s EXCEPT !.pc = "drop_src", !.status = r]
    OBVIOUS
  <2>2. DOMAIN t = Fields /\ t.pc = "drop_src" /\ t.status = r /\ t.call = s.call /\ t.src = s.src
    BY <2>1 DEF TypeInv, Fields
  <2>3. Common(c) /\ st'[c] = t /\ calls' = calls
    BY <1>1, <1>2, <2>1, <2>2, GoesOn
  <2>4. StageInv(c)' /\ WalkInv(c)' /\ LeakInv(c)'
    BY <1>1, <1>2, <2>2, <2>3 DEF StageInv, WalkInv, LeakInv, At, Marking, Renaming
  <2>5. UseInv(c)'
    BY <1>2, <2>2, <2>3
       DEF ClientInv, UseInv, HoldsSource, HoldsTarget, HoldsMarker, HoldsFind, Copying, Holds, IsOf
  <2> QED
    BY <2>3, <2>4, <2>5 DEF Common, ClientInv
<1>3. CASE Return(c, r)
  BY <1>1, <1>3, Returned
<1> QED
  BY <1>2, <1>3 DEF Fails

LEMMA OpenedPathKnown ==
  ASSUME NEW c \in Clients, NEW s, s.call \in Calls[c]
  PROVE  OpenedPath(s) \in Paths /\ Parent(OpenedPath(s)) \in Paths
<1>1. OpenedPath(s) \in Paths
  BY CallsAssumption DEF OpenedPath, Normalized
<1>2. PICK p \in Paths : p = OpenedPath(s)
  BY <1>1
<1>3. Parent(p) \in Paths
  <2>1. p \in Seq(STRING) /\ Len(p) \in Nat
    BY ServerAssumption
  <2>2. CASE Len(p) = 0
    <3>1. Parent(p) = <<>>
      BY <2>1, <2>2 DEF Parent
    <3> QED
      BY <3>1, ServerAssumption
  <2>3. CASE Len(p) # 0
    <3>1. Len(p) - 1 \in 0 .. Len(p)
      BY <2>1, <2>3
    <3> QED
      BY <3>1, ServerAssumption DEF Parent
  <2> QED
    BY <2>2, <2>3
<1> QED
  BY <1>2, <1>3

LEMMA FileOpenStep ==
  ASSUME NEW c \in Clients, TypeInv, ClientInv(c), FileOpen(c)
  PROVE  StepInv(c)
<1> DEFINE s == st[c]
           writer == Stream("write", c, OpenedPath(s))
<1>1. /\ s.pc = "open" /\ s.call.op \in {"open", "rename"} /\ s.call \in Calls[c] /\ s.status = "OK"
      /\ OpenedPath(s) \in Paths
  <2>1. s.pc = "open" /\ s.call.op \in {"open", "rename"} /\ s.call \in Calls[c] /\ s.status = "OK"
    BY DEF FileOpen, At, ClientInv, StageInv, Marking, Renaming, Copying, Finding
  <2> QED
    BY <2>1, OpenedPathKnown
<1>2. s.call.op = "rename" => Holds(c, s.src, "read") /\ open[s.src].path = Normalized(s.call.path)
  BY <1>1 DEF ClientInv, UseInv, HoldsSource
<1>3. PICK a \in Replies(OpenToWrite(c, calls[c], OpenedPath(s), FALSE)) :
         /\ Serve(c, a)
         /\ \/ /\ a.ret = "OK" /\ s.call.op = "rename"
               /\ Continue(c, [s EXCEPT !.pc = "read", !.dst = a.val])
            \/ /\ a.ret = "OK" /\ s.call.op = "open"
               /\ held' = [held EXCEPT ![c] = @ \cup {a.val}]
               /\ st' = [st EXCEPT ![c] = Fresh(@.call)]
               /\ ret' = [ret EXCEPT ![c] = "OK"]
               /\ UNCHANGED <<platformKnown, calls, original>>
            \/ /\ a.ret = "NOTFOUND" /\ ~s.parents
               /\ Continue(c, [s EXCEPT !.pc = "mark", !.parents = TRUE,
                                        !.dirs = WithAncestors(Parent(OpenedPath(s)))])
            \/ a.ret # "OK" /\ Fails(c, a.ret)
  BY DEF FileOpen
<1>4. /\ faults' \in Nat
      /\ \/ a.ret = "OK" /\ Granted(a.val, writer) /\ Made(OpenedPath(s))
         \/ a.ret \in {"FAIL", "NOTFOUND"} /\ open' = open /\ fs' = fs
         \/ /\ a.ret = "FAIL" /\ Made(OpenedPath(s))
            /\ \E h \in Handles : Granted(h, writer)
  BY <1>1, <1>3, OpenToWriteEffect
<1>5. writer \in Streams /\ writer.client = c /\ writer.call = calls[c]
      /\ writer.mode = "write" /\ writer.path = OpenedPath(s)
  BY <1>1 DEF Stream, Streams, TypeInv
<1> HIDE DEF writer
<1>6. OpenStep(c) /\ fs' \in [Paths -> Entries]
  BY <1>4, <1>5, OpenSteps DEF Made, TypeInv
<1>7. ~At(c, "idle") /\ StaysInside(c)
  BY <1>1 DEF At, StaysInside
<1>8. CASE a.ret = "OK" /\ s.call.op = "rename" /\ Continue(c, [s EXCEPT !.pc = "read", !.dst = a.val])
  <2>1. PICK t : t = [s EXCEPT !.pc = "read", !.dst = a.val]
    OBVIOUS
  <2>2. DOMAIN t = Fields /\ t.pc = "read" /\ t.dst = a.val /\ t.src = s.src /\ t.call = s.call
        /\ t.status = s.status
    BY <2>1 DEF TypeInv, Fields
  <2>3. Common(c) /\ st'[c] = t /\ calls' = calls
    BY <1>4, <1>6, <1>7, <1>8, <2>1, <2>2, GoesOn
  <2>4. Granted(a.val, writer) /\ OpenedPath(s) = Normalized(s.call.target)
    BY <1>4, <1>8 DEF OpenedPath
  <2>5. StageInv(c)' /\ WalkInv(c)'
    BY <1>1, <1>8, <2>2, <2>3 DEF StageInv, WalkInv, At, Marking, Copying, Renaming
  <2>6. UseInv(c)' /\ LeakInv(c)'
    BY <1>1, <1>2, <1>5, <1>8, <2>2, <2>3, <2>4
       DEF ClientInv, UseInv, LeakInv, HoldsSource, HoldsTarget, HoldsMarker, HoldsFind, Marking,
           Copying, Granted, Holds, IsOf, At, TypeInv, Streams, Closed
  <2> QED
    BY <1>7, <2>3, <2>5, <2>6 DEF StepInv, Common, ClientInv
<1>9. CASE /\ a.ret = "OK" /\ s.call.op = "open"
           /\ held' = [held EXCEPT ![c] = @ \cup {a.val}]
           /\ st' = [st EXCEPT ![c] = Fresh(@.call)]
           /\ ret' = [ret EXCEPT ![c] = "OK"]
           /\ UNCHANGED <<platformKnown, calls, original>>
  <2>1. Granted(a.val, writer)
    BY <1>4, <1>9
  <2>2. /\ st'[c] = Fresh(s.call) /\ DOMAIN st' = Clients /\ \A x \in Clients \ {c} : st'[x] = st[x]
        /\ held'[c] = held[c] \cup {a.val} /\ \A x \in Clients \ {c} : held'[x] = held[x]
        /\ calls' = calls /\ original' = original /\ DOMAIN ret' = Clients
    BY <1>9 DEF TypeInv
  <2>3. st'[c].pc = "idle" /\ st'[c].status = "OK" /\ DOMAIN st'[c] = Fields
    BY <2>2 DEF Fresh, Fields
  <2>4. TypeInv'
    BY <1>4, <1>6, <1>9, <2>1, <2>2, <2>3 DEF TypeInv, OpenStep, Granted
  <2>5. HeldInv(c)'
    BY <1>5, <2>1, <2>2, <2>3 DEF ClientInv, HeldInv, TypeInv, At, IsOf, Granted, Streams, Closed
  <2>6. Frame(c)
    BY <1>6, <2>2 DEF Frame, OpenStep
  <2>7. ClosesAll(c)
    <3>1. \A h \in Handles : IsOf(c, h) => open[h].call # calls[c]
      BY <1>1, <1>9 DEF ClientInv, LeakInv, IsOf, At, HoldsSource, HoldsTarget, HoldsMarker, HoldsFind,
                        Marking, Copying
    <3> QED
      BY <2>1, <2>2, <3>1 DEF ClosesAll, IsOf, Granted
  <2>8. StageInv(c)' /\ UseInv(c)' /\ LeakInv(c)' /\ WalkInv(c)'
    BY <2>3 DEF StageInv, UseInv, LeakInv, WalkInv, At, Marking, Copying,
                HoldsSource, HoldsTarget, HoldsMarker, HoldsFind
  <2> QED
    BY <1>7, <2>4, <2>5, <2>6, <2>7, <2>8 DEF StepInv, Common, ClientInv
<1>10. CASE /\ a.ret = "NOTFOUND" /\ ~s.parents
            /\ Continue(c, [s EXCEPT !.pc = "mark", !.parents = TRUE,
                                     !.dirs = WithAncestors(Parent(OpenedPath(s)))])
  <2>1. PICK t : t = [s EXCEPT !.pc = "mark", !.parents = TRUE,
                               !.dirs = WithAncestors(Parent(OpenedPath(s)))]
    OBVIOUS
  <2>2. /\ DOMAIN t = Fields /\ t.pc = "mark" /\ t.src = s.src /\ t.call = s.call
        /\ t.status = s.status /\ t.parents = TRUE /\ t.dirs = WithAncestors(Parent(OpenedPath(s)))
    BY <2>1 DEF TypeInv, Fields
  <2>3. Common(c) /\ st'[c] = t /\ calls' = calls /\ open' = open
    BY <1>4, <1>6, <1>7, <1>10, <2>1, <2>2, GoesOn
  <2>4. Parent(OpenedPath(s)) \in EnsuredDirs(s.call) /\ Parent(OpenedPath(s)) \in Paths
    BY <1>1, OpenedPathKnown DEF EnsuredDirs, OpenedPath
  <2>5. /\ t.dirs \in Seq(Paths) /\ t.dirs # <<>>
        /\ \A i \in 1 .. Len(t.dirs) : Marker(t.dirs[i]) \in Paths
    BY <1>1, <2>2, <2>4, AncestorsAreMarked
  <2>6. StageInv(c)' /\ WalkInv(c)'
    BY <1>1, <2>2, <2>3, <2>5 DEF StageInv, WalkInv, At, Marking, Copying, Renaming
  <2>7. UseInv(c)' /\ LeakInv(c)'
    BY <1>1, <1>2, <2>2, <2>3
       DEF ClientInv, UseInv, LeakInv, HoldsSource, HoldsTarget, HoldsMarker, HoldsFind, Marking,
           Copying, Holds, IsOf, At
  <2> QED
    BY <1>7, <2>3, <2>6, <2>7 DEF StepInv, Common, ClientInv
<1>11. CASE a.ret # "OK" /\ Fails(c, a.ret)
  <2>1. s.call.op = "rename" => open'[s.src] = open[s.src]
    BY <1>2, <1>4 DEF Granted, Holds, IsOf, TypeInv
  <2> QED
    BY <1>1, <1>4, <1>6, <1>7, <1>11, <2>1, FailsKeeps DEF StepInv
<1> QED
  BY <1>3, <1>8, <1>9, <1>10, <1>11

\* Where DirCreate is.
LEMMA MarkingStage ==
  ASSUME NEW c \in Clients, TypeInv, ClientInv(c), st[c].pc \in Marking
  PROVE  /\ st[c].call \in Calls[c] /\ st[c].status = "OK" /\ ~At(c, "idle")
         /\ \/ st[c].call.op = "mkdir" /\ ~st[c].parents
            \/ st[c].call.op \in {"open", "rename"} /\ st[c].parents
         /\ st[c].dirs \in Seq(Paths) /\ st[c].dirs # <<>>
         /\ \A i \in 1 .. Len(st[c].dirs) : Marker(st[c].dirs[i]) \in Paths
         /\ Marker(Head(st[c].dirs)) \in Paths
         /\ st[c].call.op = "rename" =>
               Holds(c, st[c].src, "read") /\ open[st[c].src].path = Normalized(st[c].call.path)
<1>1. /\ st[c].call \in Calls[c] /\ st[c].status = "OK" /\ ~At(c, "idle")
      /\ \/ st[c].call.op = "mkdir" /\ ~st[c].parents
         \/ st[c].call.op \in {"open", "rename"} /\ st[c].parents
      /\ st[c].dirs \in Seq(Paths) /\ st[c].dirs # <<>>
      /\ \A i \in 1 .. Len(st[c].dirs) : Marker(st[c].dirs[i]) \in Paths
  BY DEF ClientInv, StageInv, At, Marking, Renaming, Copying, Finding
<1>2. Marker(Head(st[c].dirs)) \in Paths
  BY <1>1
<1>3. st[c].call.op = "rename" =>
         Holds(c, st[c].src, "read") /\ open[st[c].src].path = Normalized(st[c].call.path)
  BY DEF ClientInv, UseInv, HoldsSource
<1> QED
  BY <1>1, <1>2, <1>3

LEMMA OpenMarkerStep ==
  ASSUME NEW c \in Clients, TypeInv, ClientInv(c), NEW append \in BOOLEAN, OpenMarker(c, append),
         st[c].pc \in {"mark", "append_marker"}
  PROVE  StepInv(c)
<1> DEFINE s == st[c]
           writer == Stream("write", c, Marker(Head(s.dirs)))
<1>1. /\ s.call \in Calls[c] /\ s.status = "OK" /\ ~At(c, "idle")
      /\ \/ s.call.op = "mkdir" /\ ~s.parents
         \/ s.call.op \in {"open", "rename"} /\ s.parents
      /\ s.dirs \in Seq(Paths) /\ s.dirs # <<>>
      /\ \A i \in 1 .. Len(s.dirs) : Marker(s.dirs[i]) \in Paths
      /\ Marker(Head(s.dirs)) \in Paths
      /\ s.call.op = "rename" => Holds(c, s.src, "read") /\ open[s.src].path = Normalized(s.call.path)
  BY MarkingStage DEF Marking
<1>2. PICK a \in Replies(OpenToWrite(c, calls[c], Marker(Head(s.dirs)), append)) :
         /\ Serve(c, a)
         /\ \/ /\ a.ret = "OK"
               /\ Continue(c, [s EXCEPT !.pc = "close_marker", !.marker = a.val])
            \/ /\ a.ret = "NOTFOUND"
               /\ Continue(c, [s EXCEPT !.pc = "append_marker"])
            \/ /\ a.ret # "OK" /\ Fails(c, a.ret)
  BY DEF OpenMarker
<1>3. /\ faults' \in Nat
      /\ \/ a.ret = "OK" /\ Granted(a.val, writer) /\ Made(Marker(Head(s.dirs)))
         \/ a.ret \in {"FAIL", "NOTFOUND"} /\ open' = open /\ fs' = fs
         \/ /\ a.ret = "FAIL" /\ Made(Marker(Head(s.dirs)))
            /\ \E h \in Handles : Granted(h, writer)
  BY <1>1, <1>2, OpenToWriteEffect
<1>4. writer \in Streams /\ writer.client = c /\ writer.call = calls[c]
      /\ writer.mode = "write" /\ writer.path = Marker(Head(s.dirs))
  BY <1>1 DEF Stream, Streams, TypeInv
<1> HIDE DEF writer
<1>5. OpenStep(c) /\ fs' \in [Paths -> Entries]
  BY <1>3, <1>4, OpenSteps DEF Made, TypeInv
<1>6. StaysInside(c)
  BY <1>1 DEF StaysInside
<1>7. CASE a.ret = "OK" /\ Continue(c, [s EXCEPT !.pc = "close_marker", !.marker = a.val])
  <2>1. PICK t : t = [s EXCEPT !.pc = "close_marker", !.marker = a.val]
    OBVIOUS
  <2>2. /\ DOMAIN t = Fields /\ t.pc = "close_marker" /\ t.marker = a.val /\ t.src = s.src
        /\ t.call = s.call /\ t.status = s.status /\ t.dirs = s.dirs /\ t.parents = s.parents
    BY <2>1 DEF TypeInv, Fields
  <2>3. Common(c) /\ st'[c] = t /\ calls' = calls
    BY <1>1, <1>3, <1>5, <1>7, <2>1, <2>2, GoesOn
  <2>4. Granted(a.val, writer)
    BY <1>3, <1>7
  <2>5. StageInv(c)' /\ WalkInv(c)'
    BY <1>1, <2>2, <2>3 DEF StageInv, WalkInv, At, Marking, Copying, Renaming
  <2>6. UseInv(c)'
    BY <1>1, <1>4, <2>2, <2>3, <2>4
       DEF UseInv, HoldsSource, HoldsTarget, HoldsMarker, HoldsFind, Marking,
           Copying, Granted, Holds, IsOf, TypeInv, Streams, Closed
  <2>7. LeakInv(c)'
    BY ZenonT(30), <1>1, <1>4, <2>2, <2>3, <2>4
       DEF ClientInv, LeakInv, HoldsSource, HoldsTarget, HoldsMarker, HoldsFind, Marking,
           Copying, Granted, IsOf, At, TypeInv
  <2> QED
    BY <1>6, <2>3, <2>5, <2>6, <2>7 DEF StepInv, Common, ClientInv
<1>8. CASE a.ret = "NOTFOUND" /\ Continue(c, [s EXCEPT !.pc = "append_marker"])
  <2>1. PICK t : t = [s EXCEPT !.pc = "append_marker"]
    OBVIOUS
  <2>2. /\ DOMAIN t = Fields /\ t.pc = "append_marker" /\ t.src = s.src
        /\ t.call = s.call /\ t.status = s.status /\ t.dirs = s.dirs /\ t.parents = s.parents
    BY <2>1 DEF TypeInv, Fields
  <2>3. Common(c) /\ st'[c] = t /\ calls' = calls /\ open' = open
    BY <1>1, <1>3, <1>5, <1>8, <2>1, <2>2, GoesOn
  <2>4. StageInv(c)' /\ WalkInv(c)'
    BY <1>1, <2>2, <2>3 DEF StageInv, WalkInv, At, Marking, Copying, Renaming
  <2>5. UseInv(c)' /\ LeakInv(c)'
    BY <1>1, <2>2, <2>3
       DEF ClientInv, UseInv, LeakInv, HoldsSource, HoldsTarget, HoldsMarker, HoldsFind, Marking,
           Copying, Holds, IsOf, At
  <2> QED
    BY <1>6, <2>3, <2>4, <2>5 DEF StepInv, Common, ClientInv
<1>9. CASE a.ret # "OK" /\ Fails(c, a.ret)
  <2>1. s.call.op = "rename" => open'[s.src] = open[s.src]
    BY <1>1, <1>3 DEF Granted, Holds, IsOf, TypeInv
  <2> QED
    BY <1>3, <1>5, <1>6, <1>9, <2>1, FailsKeeps DEF StepInv, Marking
<1> QED
  BY <1>2, <1>7, <1>8, <1>9

LEMMA CloseMarkerStep ==
  ASSUME NEW c \in Clients, TypeInv, ClientInv(c), CloseMarker(c)
  PROVE  StepInv(c)
<1> DEFINE s == st[c]
<1>1. /\ s.pc = "close_marker"
      /\ s.call \in Calls[c] /\ s.status = "OK" /\ ~At(c, "idle")
      /\ \/ s.call.op = "mkdir" /\ ~s.parents
         \/ s.call.op \in {"open", "rename"} /\ s.parents
      /\ s.dirs \in Seq(Paths) /\ s.dirs # <<>>
      /\ \A i \in 1 .. Len(s.dirs) : Marker(s.dirs[i]) \in Paths
      /\ s.call.op = "rename" => Holds(c, s.src, "read") /\ open[s.src].path = Normalized(s.call.path)
  BY MarkingStage DEF Marking, CloseMarker, At
<1>2. Holds(c, s.marker, "write")
  BY <1>1 DEF ClientInv, UseInv, HoldsMarker
<1>3. PICK a \in Replies(Close(s.marker)) :
         /\ Serve(c, a)
         /\ \/ /\ a.ret = "OK"
               /\ Continue(c, [s EXCEPT !.pc = "delete_marker", !.marker = 0])
            \/ a.ret # "OK" /\ Fails(c, a.ret)
  BY DEF CloseMarker
<1>4. /\ fs' = fs /\ faults' \in Nat
      /\ open' = open \/ open' = [open EXCEPT ![s.marker] = Closed]
      /\ a.ret = "OK" => open' = [open EXCEPT ![s.marker] = Closed]
  BY <1>3, CloseEffect DEF TypeInv
<1>5. OpenStep(c)
  BY <1>2, <1>4, OpenSteps
<1>6. s.call.op = "rename" => open'[s.src] = open[s.src]
  BY <1>1, <1>2, <1>4 DEF Holds, IsOf, TypeInv
<1>7. StaysInside(c)
  BY <1>4 DEF StaysInside
<1>8. CASE a.ret = "OK" /\ Continue(c, [s EXCEPT !.pc = "delete_marker", !.marker = 0])
  <2>1. PICK t : t = [s EXCEPT !.pc = "delete_marker", !.marker = 0]
    OBVIOUS
  <2>2. /\ DOMAIN t = Fields /\ t.pc = "delete_marker" /\ t.src = s.src
        /\ t.call = s.call /\ t.status = s.status /\ t.dirs = s.dirs /\ t.parents = s.parents
    BY <2>1 DEF TypeInv, Fields
  <2>3. Common(c) /\ st'[c] = t /\ calls' = calls
    BY <1>1, <1>4, <1>5, <1>8, <2>1, <2>2, GoesOn DEF TypeInv
  <2>4. StageInv(c)' /\ WalkInv(c)'
    BY <1>1, <2>2, <2>3 DEF StageInv, WalkInv, At, Marking, Copying, Renaming
  <2>5. UseInv(c)'
    BY <1>1, <1>6, <2>2, <2>3
       DEF UseInv, HoldsSource, HoldsTarget, HoldsMarker, HoldsFind, Marking, Copying, Holds, IsOf
  <2>6. LeakInv(c)'
    BY <1>1, <1>4, <1>8, <2>2, <2>3
       DEF ClientInv, LeakInv, HoldsSource, HoldsTarget, HoldsMarker, HoldsFind, Marking,
           Copying, IsOf, At, TypeInv
  <2> QED
    BY <1>7, <2>3, <2>4, <2>5, <2>6 DEF StepInv, Common, ClientInv
<1>9. CASE a.ret # "OK" /\ Fails(c, a.ret)
  BY <1>1, <1>4, <1>5, <1>6, <1>7, <1>9, FailsKeeps DEF StepInv, Marking, TypeInv
<1> QED
  BY <1>3, <1>8, <1>9

LEMMA DeleteMarkerStep ==
  ASSUME NEW c \in Clients, TypeInv, ClientInv(c), DeleteMarker(c)
  PROVE  StepInv(c)
<1> DEFINE s == st[c]
           marker == Marker(Head(s.dirs))
<1>1. /\ s.pc = "delete_marker"
      /\ s.call \in Calls[c] /\ s.status = "OK" /\ ~At(c, "idle")
      /\ \/ s.call.op = "mkdir" /\ ~s.parents
         \/ s.call.op \in {"open", "rename"} /\ s.parents
      /\ s.dirs \in Seq(Paths) /\ s.dirs # <<>>
      /\ \A i \in 1 .. Len(s.dirs) : Marker(s.dirs[i]) \in Paths
      /\ marker \in Paths
      /\ s.call.op = "rename" => Holds(c, s.src, "read") /\ open[s.src].path = Normalized(s.call.path)
  BY MarkingStage DEF Marking, DeleteMarker, At
<1>2. PICK a \in Replies(DeleteFile(marker)) :
         Serve(c, a) /\ (DirCreated(c) \/ (~Gone(a.ret) /\ Fails(c, a.ret)))
  BY DEF DeleteMarker
<1>3. /\ open' = open /\ faults' \in Nat
      /\ fs' = fs \/ fs' = [fs EXCEPT ![marker] = Absent]
  BY <1>1, <1>2, DeleteEffect
<1>4. OpenStep(c) /\ fs' \in [Paths -> Entries]
  BY <1>3, OpenSteps, EntriesMade DEF TypeInv
<1>5. StaysInside(c)
  BY <1>1 DEF StaysInside
<1>6. \A h \in Handles : IsOf(c, h) /\ open[h].call = calls[c] => s.call.op = "rename" /\ h = s.src
  BY <1>1 DEF ClientInv, LeakInv, At, HoldsSource, HoldsTarget, HoldsMarker, HoldsFind, Copying
<1>7. CASE DirCreated(c)
  <2>1. PICK t : t = [s EXCEPT !.dirs = Tail(@)]
    OBVIOUS
  <2>2. /\ DOMAIN t = Fields /\ t.src = s.src /\ t.call = s.call /\ t.status = s.status
        /\ t.dirs = Tail(s.dirs) /\ t.parents = s.parents
    BY <2>1 DEF TypeInv, Fields
  <2>3. \/ t.dirs # <<>> /\ Continue(c, [t EXCEPT !.pc = "mark"])
        \/ t.parents /\ Continue(c, [t EXCEPT !.pc = "open"])
        \/ ~t.parents /\ Return(c, "OK")
    BY <1>7, <2>1 DEF DirCreated
  <2>4. CASE t.dirs # <<>> /\ Continue(c, [t EXCEPT !.pc = "mark"])
    <3>1. PICK u : u = [t EXCEPT !.pc = "mark"]
      OBVIOUS
    <3>2. /\ DOMAIN u = Fields /\ u.src = s.src /\ u.call = s.call /\ u.status = s.status
          /\ u.dirs = Tail(s.dirs) /\ u.dirs # <<>> /\ u.parents = s.parents /\ u.pc = "mark"
      BY <2>2, <2>4, <3>1 DEF Fields
    <3>3. Common(c) /\ st'[c] = u /\ calls' = calls
      BY <1>1, <1>3, <1>4, <2>4, <3>1, <3>2, GoesOn
    <3>4. u.dirs \in Seq(Paths) /\ \A i \in 1 .. Len(u.dirs) : Marker(u.dirs[i]) \in Paths
      BY <1>1, <3>2
    <3>5. StageInv(c)' /\ WalkInv(c)'
      BY <1>1, <3>2, <3>3, <3>4 DEF StageInv, WalkInv, At, Marking, Copying, Renaming
    <3>6. UseInv(c)' /\ LeakInv(c)'
      BY <1>1, <1>3, <1>6, <3>2, <3>3
         DEF UseInv, LeakInv, HoldsSource, HoldsTarget, HoldsMarker, HoldsFind, Marking,
             Copying, Holds, IsOf, At
    <3> QED
      BY <1>5, <3>3, <3>5, <3>6 DEF StepInv, Common, ClientInv
  <2>5. CASE t.parents /\ Continue(c, [t EXCEPT !.pc = "open"])
    <3>1. PICK u : u = [t EXCEPT !.pc = "open"]
      OBVIOUS
    <3>2. /\ DOMAIN u = Fields /\ u.src = s.src /\ u.call = s.call /\ u.status = s.status
          /\ u.pc = "open"
      BY <2>2, <3>1 DEF Fields
    <3>3. Common(c) /\ st'[c] = u /\ calls' = calls
      BY <1>1, <1>3, <1>4, <2>5, <3>1, <3>2, GoesOn
    <3>4. StageInv(c)' /\ WalkInv(c)'
      BY <1>1, <2>2, <2>5, <3>2, <3>3 DEF StageInv, WalkInv, At, Marking, Copying, Renaming
    <3>5. UseInv(c)' /\ LeakInv(c)'
      BY <1>1, <1>3, <1>6, <3>2, <3>3
         DEF UseInv, LeakInv, HoldsSource, HoldsTarget, HoldsMarker, HoldsFind, Marking,
             Copying, Holds, IsOf, At
    <3> QED
      BY <1>5, <3>3, <3>4, <3>5 DEF StepInv, Common, ClientInv
  <2>6. CASE ~t.parents /\ Return(c, "OK")
    <3>1. \A h \in Handles : open'[h] = Closed \/ open'[h].client # c \/ open'[h].call # calls[c]
      BY <1>1, <1>3, <1>6, <2>2, <2>6 DEF IsOf
    <3> QED
      BY <1>1, <1>3, <1>4, <1>5, <2>6, <3>1, Returned DEF StepInv
  <2> QED
    BY <2>3, <2>4, <2>5, <2>6
<1>8. CASE ~Gone(a.ret) /\ Fails(c, a.ret)
  BY <1>1, <1>3, <1>4, <1>5, <1>8, FailsKeeps DEF StepInv, Marking, Gone
<1> QED
  BY <1>2, <1>7, <1>8

-----------------------------------------------------------------------------
(* The enumeration of a directory. *)

LEMMA FindingStage ==
  ASSUME NEW c \in Clients, TypeInv, ClientInv(c), st[c].pc \in Finding \cup {"delete_entry"}
  PROVE  /\ st[c].call \in Calls[c] /\ ~At(c, "idle") /\ Normalized(st[c].call.path) \in Paths
         /\ st[c].call.op \in {"list", "rmdir"} /\ (st[c].pc = "delete_entry" => st[c].call.op = "rmdir")
         /\ (st[c].status = "OK" <=> st[c].pc # "abort_find")
         /\ HoldsFind(st[c]) => /\ Holds(c, st[c].found, "find")
                                /\ \A e \in open[st[c].found].left : e[1] \in Children(EnumeratedPath(st[c]))
         /\ st[c].call.op = "rmdir" =>
               /\ st[c].stack \in Seq(NodesBelow(Normalized(st[c].call.path)))
               /\ st[c].node \in NodesBelow(Normalized(st[c].call.path))
         /\ st[c].status = "OK" => \A h \in Handles : IsOf(c, h) /\ open[h].call = calls[c] =>
               HoldsFind(st[c]) /\ h = st[c].found
<1>1. /\ st[c].call \in Calls[c] /\ ~At(c, "idle")
      /\ st[c].call.op \in {"list", "rmdir"} /\ (st[c].pc = "delete_entry" => st[c].call.op = "rmdir")
      /\ (st[c].status = "OK" <=> st[c].pc # "abort_find")
  BY DEF ClientInv, StageInv, At, Marking, Renaming, Copying, Finding
<1>2. HoldsFind(st[c]) => /\ Holds(c, st[c].found, "find")
                          /\ \A e \in open[st[c].found].left : e[1] \in Children(EnumeratedPath(st[c]))
  BY DEF ClientInv, UseInv
<1>3. st[c].call.op = "rmdir" => /\ st[c].stack \in Seq(NodesBelow(Normalized(st[c].call.path)))
                                 /\ st[c].node \in NodesBelow(Normalized(st[c].call.path))
  BY <1>1 DEF ClientInv, WalkInv, At, Finding
<1>4. st[c].status = "OK" => \A h \in Handles : IsOf(c, h) /\ open[h].call = calls[c] =>
               HoldsFind(st[c]) /\ h = st[c].found
  BY <1>1 DEF ClientInv, LeakInv, HoldsSource, HoldsTarget, HoldsMarker, Copying, Finding
<1> QED
  BY <1>1, <1>2, <1>3, <1>4, CallsAssumption

LEMMA FindFirstEntryStep ==
  ASSUME NEW c \in Clients, TypeInv, ClientInv(c), FindFirstEntry(c)
  PROVE  StepInv(c)
<1> DEFINE s == st[c]
           root == Normalized(s.call.path)
<1>1. /\ s.pc = "find" /\ s.call \in Calls[c] /\ ~At(c, "idle") /\ s.status = "OK"
      /\ s.call.op \in {"list", "rmdir"}
      /\ s.call.op = "rmdir" => s.stack \in Seq(NodesBelow(root)) /\ s.node \in NodesBelow(root)
      /\ \A h \in Handles : IsOf(c, h) => open[h].call # calls[c]
  BY FindingStage DEF FindFirstEntry, At, Finding, HoldsFind
<1>2. PICK a \in Replies(FindFirst(c, calls[c], EnumeratedPath(s))) :
         /\ Serve(c, a)
         /\ \/ a.ret = "OK" /\ Continue(c, [s EXCEPT !.pc = "find_next", !.found = a.val])
            \/ a.ret = "NOTFOUND" /\ Continue(c, [s EXCEPT !.pc = "close_find", !.found = FindFlags])
            \/ a.ret # "OK" /\ Return(c, a.ret)
  BY DEF FindFirstEntry
<1>3. PICK f \in Searches(c, EnumeratedPath(s)) :
         /\ fs' = fs /\ faults' \in Nat
         /\ \/ a.ret = "OK" /\ Granted(a.val, f)
            \/ a.ret \in {"FAIL", "NOTFOUND"} /\ open' = open
            \/ a.ret = "FAIL" /\ \E h \in Handles : Granted(h, f)
  <2>1. PICK p : p = EnumeratedPath(s)
    OBVIOUS
  <2>2. a \in Replies(FindFirst(c, calls[c], p)) /\ Serve(c, a)
    BY <1>2, <2>1
  <2>3. /\ fs' = fs /\ faults' \in Nat
        /\ \E f \in Searches(c, p) :
              \/ a.ret = "OK" /\ Granted(a.val, f)
              \/ a.ret \in {"FAIL", "NOTFOUND"} /\ open' = open
              \/ a.ret = "FAIL" /\ \E h \in Handles : Granted(h, f)
    BY <2>2, FindFirstEffect
  <2> QED
    BY <2>1, <2>3
<1>4. f \in Finds /\ f.client = c /\ f.call = calls[c]
  BY DEF Searches, Finds, TypeInv, Children, Under
<1>5. OpenStep(c)
  BY <1>3, <1>4, OpenSteps
<1>6. StaysInside(c)
  BY <1>3 DEF StaysInside
<1>7. CASE a.ret = "OK" /\ Continue(c, [s EXCEPT !.pc = "find_next", !.found = a.val])
  <2>1. PICK t : t = [s EXCEPT !.pc = "find_next", !.found = a.val]
    OBVIOUS
  <2>2. /\ DOMAIN t = Fields /\ t.pc = "find_next" /\ t.found = a.val
        /\ t.call = s.call /\ t.status = s.status /\ t.stack = s.stack /\ t.node = s.node
    BY <2>1 DEF TypeInv, Fields
  <2>3. Common(c) /\ st'[c] = t /\ calls' = calls
    BY <1>1, <1>3, <1>5, <1>7, <2>1, <2>2, GoesOn DEF TypeInv
  <2>4. Granted(a.val, f)
    BY <1>3, <1>7
  <2>5. StageInv(c)' /\ WalkInv(c)'
    BY <1>1, <2>2, <2>3 DEF StageInv, WalkInv, At, Marking, Copying, Renaming, Finding
  <2>6. EnumeratedPath(t) = EnumeratedPath(s) /\ \A e \in f.left : e[1] \in Children(EnumeratedPath(s))
    BY <2>2 DEF EnumeratedPath, Searches
  <2>7. UseInv(c)'
    BY <1>1, <1>4, <2>2, <2>3, <2>4, <2>6
       DEF Searches, UseInv, HoldsSource, HoldsTarget, HoldsMarker, HoldsFind, Marking,
           Copying, Granted, Holds, IsOf, TypeInv, Finds, Closed
  <2>8. LeakInv(c)'
    BY <1>1, <2>2, <2>3, <2>4
       DEF LeakInv, HoldsFind, Granted, IsOf, TypeInv
  <2> QED
    BY <1>6, <2>3, <2>5, <2>7, <2>8 DEF StepInv, Common, ClientInv
<1>8. CASE a.ret = "NOTFOUND" /\ Continue(c, [s EXCEPT !.pc = "close_find", !.found = FindFlags])
  <2>1. PICK t : t = [s EXCEPT !.pc = "close_find", !.found = FindFlags]
    OBVIOUS
  <2>2. /\ DOMAIN t = Fields /\ t.pc = "close_find" /\ t.found = FindFlags
        /\ t.call = s.call /\ t.status = s.status /\ t.stack = s.stack /\ t.node = s.node
    BY <2>1 DEF TypeInv, Fields
  <2>3. Common(c) /\ st'[c] = t /\ calls' = calls
    BY <1>1, <1>3, <1>5, <1>8, <2>1, <2>2, GoesOn DEF TypeInv
  <2>4. StageInv(c)' /\ WalkInv(c)' /\ UseInv(c)'
    BY <1>1, <2>2, <2>3
       DEF StageInv, WalkInv, UseInv, At, Marking, Copying, Renaming, Finding,
           HoldsSource, HoldsTarget, HoldsMarker, HoldsFind
  <2>5. LeakInv(c)'
    BY <1>1, <1>3, <1>8, <2>3 DEF LeakInv, IsOf
  <2> QED
    BY <1>6, <2>3, <2>4, <2>5 DEF StepInv, Common, ClientInv
<1>9. CASE a.ret # "OK" /\ Return(c, a.ret)
  BY <1>1, <1>3, <1>5, <1>6, <1>9, Returned DEF StepInv, TypeInv
<1> QED
  BY <1>2, <1>7, <1>8, <1>9

\* The names in a directory of the tree lie in the tree, one level deeper.
LEMMA ChildrenBelow ==
  ASSUME NEW root \in Paths, NEW n \in NodesBelow(root), NEW p \in Children(n.path)
  PROVE  /\ p \in Under(root) \ {root}
         /\ Node(p, n.depth + 1, FALSE) \in NodesBelow(root)
<1>1. /\ root \in Seq(STRING) /\ n.path \in Seq(STRING) /\ p \in Seq(STRING) /\ p \in Paths
      /\ n.path \in Paths /\ n.depth \in Nat /\ n.depth = Len(n.path) - Len(root)
      /\ Len(n.path) >= Len(root) /\ SubSeq(n.path, 1, Len(root)) = root
      /\ Len(p) = Len(n.path) + 1 /\ SubSeq(p, 1, Len(n.path)) = n.path
  <2>1. n.path \in Under(root) /\ n.path \in Paths /\ n.depth \in Nat /\ n.depth = Len(n.path) - Len(root)
    BY DEF NodesBelow
  <2>2. p \in Paths /\ Len(p) = Len(n.path) + 1 /\ SubSeq(p, 1, Len(n.path)) = n.path
    BY DEF Children, Under
  <2>3. Len(n.path) >= Len(root) /\ SubSeq(n.path, 1, Len(root)) = root
    BY <2>1 DEF Under
  <2>4. \A q \in Paths : q \in Seq(STRING)
    BY ServerAssumption
  <2> QED
    BY <2>1, <2>2, <2>3, <2>4
<1>2. Len(p) >= Len(root) /\ Len(p) # Len(root)
  <2>1. Len(root) \in Nat /\ Len(n.path) \in Nat
    BY <1>1
  <2>2. Len(n.path) >= Len(root) /\ Len(p) = Len(n.path) + 1
    BY <1>1
  <2> QED
    BY <2>1, <2>2
<1>3. SubSeq(p, 1, Len(root)) = root
  <2>1. SubSeq(SubSeq(p, 1, Len(n.path)), 1, Len(root)) = SubSeq(p, 1, Len(root))
    BY <1>1
  <2> QED
    BY <1>1, <2>1
<1>4. p \in Under(root) \ {root}
  BY <1>1, <1>2, <1>3 DEF Under
<1>5. PICK m : m = Node(p, n.depth + 1, FALSE)
  OBVIOUS
<1>6. m \in NodesBelow(root)
  BY <1>1, <1>4, <1>5 DEF Node, NodesBelow
<1> QED
  BY <1>4, <1>5, <1>6

LEMMA FindNextEntryStep ==
  ASSUME FlagsAreNoHandle, NEW c \in Clients, TypeInv, ClientInv(c), FindNextEntry(c)
  PROVE  StepInv(c)
<1> DEFINE s == st[c]
           root == Normalized(s.call.path)
<1>1. /\ s.pc = "find_next" /\ s.call \in Calls[c] /\ ~At(c, "idle") /\ s.status = "OK"
      /\ root \in Paths /\ s.call.op \in {"list", "rmdir"}
      /\ Holds(c, s.found, "find")
      /\ \A e \in open[s.found].left : e[1] \in Children(EnumeratedPath(s))
      /\ s.call.op = "rmdir" => s.stack \in Seq(NodesBelow(root)) /\ s.node \in NodesBelow(root)
      /\ \A h \in Handles : IsOf(c, h) /\ open[h].call = calls[c] => h = s.found
  BY FindingStage DEF FindNextEntry, At, Finding, HoldsFind
<1>2. PICK a \in Replies(FindNext(s.found)) :
         /\ Serve(c, a)
         /\ \/ a.ret = "OK" /\ Continue(c, Enumerated(s, a.val[1], a.val[2]))
            \/ a.ret # "OK" /\ Continue(c, [s EXCEPT !.pc = "close_find"])
            \/ a.ret # "OK" /\ Continue(c, [s EXCEPT !.pc = "abort_find", !.status = a.ret])
  BY DEF FindNextEntry
<1>3. /\ fs' = fs /\ faults' \in Nat
      /\ open' = open \/ \E e \in open[s.found].left : open' = [open EXCEPT ![s.found].left = @ \ {e}]
      /\ a.ret = "OK" => a.val \in open[s.found].left
  BY <1>1, <1>2, FindNextEffect DEF Holds, IsOf
<1>4. OpenStep(c)
  BY <1>1, <1>3, OpenSteps
<1>5. StaysInside(c)
  BY <1>3 DEF StaysInside
<1>6. /\ \A h \in Handles : open'[h] # Closed <=> open[h] # Closed
      /\ \A h \in Handles : open[h] # Closed =>
            /\ open'[h].client = open[h].client /\ open'[h].call = open[h].call
            /\ open'[h].mode = open[h].mode
            /\ h = s.found => open'[h].left \subseteq open[h].left
  <2>1. CASE open' = open
    BY <2>1
  <2>2. ASSUME NEW e, open' = [open EXCEPT ![s.found].left = @ \ {e}]
        PROVE  /\ s.found \in Handles /\ open[s.found] # Closed /\ open'[s.found] # Closed
               /\ open'[s.found].client = open[s.found].client
               /\ open'[s.found].call = open[s.found].call
               /\ open'[s.found].mode = open[s.found].mode
               /\ open'[s.found].left \subseteq open[s.found].left
               /\ \A h \in Handles \ {s.found} : open'[h] = open[h]
    <3>1. s.found \in Handles /\ open[s.found] \in Finds
      BY <1>1 DEF Holds, IsOf, TypeInv, Streams, Finds, Closed
    <3> QED
      BY <2>2, <3>1 DEF TypeInv, Finds, Closed
  <2> QED
    BY <1>3, <2>1, <2>2
<1>7. PICK t : /\ Continue(c, t) /\ DOMAIN t = Fields /\ t.call = s.call /\ t.found = s.found
               /\ t.node = s.node
               /\ \/ t.pc \in {"find_next", "close_find"} /\ t.status = "OK" /\ t.stack = s.stack
                  \/ t.pc = "abort_find" /\ t.status # "OK" /\ t.stack = s.stack
                  \/ /\ s.call.op = "rmdir" /\ t.pc = "find_next" /\ t.status = "OK"
                     /\ t.stack = Append(s.stack, Node(a.val[1], s.node.depth + 1, FALSE))
                     /\ a.val \in open[s.found].left
                  \/ /\ s.call.op = "rmdir" /\ t.pc = "delete_entry" /\ t.status = "OK"
                     /\ t.stack = s.stack /\ t.entry = a.val[1] /\ a.val \in open[s.found].left
  <2>1. CASE a.ret = "OK" /\ Continue(c, Enumerated(s, a.val[1], a.val[2]))
    <3>1. PICK t : t = Enumerated(s, a.val[1], a.val[2])
      OBVIOUS
    <3>2. CASE s.call.op = "list"
      <4>1. /\ DOMAIN t = Fields /\ t.call = s.call /\ t.found = s.found /\ t.node = s.node
            /\ t.pc = "find_next" /\ t.status = "OK" /\ t.stack = s.stack
        BY <1>1, <3>1, <3>2 DEF TypeInv, Fields, Enumerated, Listed
      <4> QED
        BY <2>1, <3>1, <4>1
    <3>3. CASE s.call.op = "rmdir" /\ a.val[2] = "dir"
      <4>1. /\ DOMAIN t = Fields /\ t.call = s.call /\ t.found = s.found /\ t.node = s.node
            /\ t.pc = "find_next" /\ t.status = "OK"
            /\ t.stack = Append(s.stack, Node(a.val[1], s.node.depth + 1, FALSE))
        BY <1>1, <3>1, <3>3 DEF TypeInv, Fields, Enumerated, Push
      <4> QED
        BY <1>3, <2>1, <3>1, <3>3, <4>1
    <3>4. CASE s.call.op = "rmdir" /\ a.val[2] # "dir"
      <4>1. /\ DOMAIN t = Fields /\ t.call = s.call /\ t.found = s.found /\ t.node = s.node
            /\ t.pc = "delete_entry" /\ t.status = "OK" /\ t.stack = s.stack /\ t.entry = a.val[1]
        BY <1>1, <3>1, <3>4 DEF TypeInv, Fields, Enumerated
      <4> QED
        BY <1>3, <2>1, <3>1, <3>4, <4>1
    <3> QED
      BY <1>1, <3>2, <3>3, <3>4
  <2>2. CASE Continue(c, [s EXCEPT !.pc = "close_find"])
    <3>1. PICK t : t = [s EXCEPT !.pc = "close_find"]
      OBVIOUS
    <3>2. /\ DOMAIN t = Fields /\ t.call = s.call /\ t.found = s.found /\ t.node = s.node
          /\ t.pc = "close_find" /\ t.status = "OK" /\ t.stack = s.stack
      BY <1>1, <3>1 DEF TypeInv, Fields
    <3> QED
      BY <2>2, <3>1, <3>2
  <2>3. CASE a.ret # "OK" /\ Continue(c, [s EXCEPT !.pc = "abort_find", !.status = a.ret])
    <3>1. PICK t : t = [s EXCEPT !.pc = "abort_find", !.status = a.ret]
      OBVIOUS
    <3>2. /\ DOMAIN t = Fields /\ t.call = s.call /\ t.found = s.found /\ t.node = s.node
          /\ t.pc = "abort_find" /\ t.status = a.ret /\ t.stack = s.stack
      BY <1>1, <3>1 DEF TypeInv, Fields
    <3> QED
      BY <2>3, <3>1, <3>2
  <2> QED
    BY <1>2, <2>1, <2>2, <2>3
<1>8. Common(c) /\ st'[c] = t /\ calls' = calls
  <2>1. fs' \in [Paths -> Entries]
    BY <1>3 DEF TypeInv
  <2>2. Continue(c, t) /\ DOMAIN t = Fields /\ t.pc # "idle"
    BY <1>7
  <2> QED
    BY <1>1, <1>3, <1>4, <2>1, <2>2, GoesOn
<1>9. StageInv(c)'
  BY <1>1, <1>7, <1>8 DEF StageInv, At, Marking, Copying, Renaming, Finding
<1>10. UseInv(c)'
  <2>1. EnumeratedPath(t) = EnumeratedPath(s)
    BY <1>7 DEF EnumeratedPath
  <2> QED
    BY <1>1, <1>6, <1>7, <1>8, <2>1
       DEF UseInv, HoldsSource, HoldsTarget, HoldsMarker, HoldsFind, Marking, Copying, Holds, IsOf
<1>11. LeakInv(c)'
  <2>1. t.status = "OK" => t.pc \in {"find_next", "delete_entry", "close_find"}
    BY <1>7
  <2>2. t.status = "OK" => \A h \in Handles : IsOf(c, h)' /\ open'[h].call = calls'[c] => HoldsFind(t) /\ h = t.found
    <3>1. \A h \in Handles : IsOf(c, h)' /\ open'[h].call = calls'[c] => h = s.found
      BY <1>1, <1>6, <1>8 DEF IsOf
    <3>2. s.found \in Handles
      BY <1>1 DEF Holds, IsOf
    <3> QED
      BY <1>7, <2>1, <3>1, <3>2, FlagsAreNoHandle DEF HoldsFind, FlagsAreNoHandle
  <2> QED
    BY <1>8, <2>2 DEF LeakInv
<1>12. WalkInv(c)'
  <2>1. CASE s.call.op # "rmdir"
    BY <1>7, <1>8, <2>1 DEF WalkInv
  <2>2. CASE s.call.op = "rmdir" /\ t.stack = s.stack /\ t.pc # "delete_entry"
    BY <1>1, <1>7, <1>8, <2>2 DEF WalkInv
  <2>3. CASE s.call.op = "rmdir" /\ a.val \in open[s.found].left
    <3>1. a.val[1] \in Children(s.node.path)
      BY <1>1, <2>3 DEF EnumeratedPath
    <3>2. PICK p, m : p = a.val[1] /\ m = Node(a.val[1], s.node.depth + 1, FALSE)
      OBVIOUS
    <3>3. p \in Under(root) \ {root} /\ m \in NodesBelow(root)
      BY <1>1, <2>3, <3>1, <3>2, ChildrenBelow
    <3>4. Append(s.stack, m) \in Seq(NodesBelow(root))
      BY <1>1, <2>3, <3>3
    <3> QED
      BY <1>1, <1>7, <1>8, <2>3, <3>2, <3>3, <3>4 DEF WalkInv
  <2> QED
    BY <1>1, <1>7, <2>1, <2>2, <2>3
<1> QED
  BY <1>5, <1>8, <1>9, <1>10, <1>11, <1>12 DEF StepInv, Common, ClientInv

LEMMA CloseFindStep ==
  ASSUME FlagsAreNoHandle, NEW c \in Clients, TypeInv, ClientInv(c), CloseFind(c)
  PROVE  StepInv(c)
<1> DEFINE s == st[c]
<1>1. /\ s.pc = "close_find" /\ s.call \in Calls[c] /\ ~At(c, "idle") /\ s.status = "OK"
      /\ s.call.op \in {"list", "rmdir"}
      /\ s.found # FindFlags => Holds(c, s.found, "find")
      /\ s.call.op = "rmdir" => s.stack \in Seq(NodesBelow(Normalized(s.call.path)))
      /\ \A h \in Handles : IsOf(c, h) /\ open[h].call = calls[c] => h = s.found
  BY FindingStage DEF CloseFind, At, Finding, HoldsFind
<1>2. PICK a \in Replies(Close(s.found)) :
         /\ Serve(c, a)
         /\ \/ a.ret # "OK" /\ Return(c, IF s.call.op = "rmdir" THEN DirDeleteResult(a.ret) ELSE a.ret)
            \/ a.ret = "OK" /\ Return(c, ListResult(s))
            \/ /\ a.ret = "OK" /\ s.call.op = "rmdir"
               /\ Continue(c, [s EXCEPT !.pc = "visit", !.found = 0])
  BY <1>1 DEF CloseFind
<1>3. /\ fs' = fs /\ faults' \in Nat /\ a.ret \in {"OK", "INVALIDOFFSET", "FAIL"}
      /\ \/ open' = open
         \/ s.found \in Handles /\ open' = [open EXCEPT ![s.found] = Closed]
      /\ a.ret = "OK" => open' = [open EXCEPT ![s.found] = Closed]
  BY <1>2, CloseEffect DEF TypeInv
<1>4. OpenStep(c)
  BY <1>1, <1>3, OpenSteps DEF FlagsAreNoHandle
<1>5. StaysInside(c)
  BY <1>3 DEF StaysInside
<1>6. a.ret = "OK" =>
         \A h \in Handles : open'[h] = Closed \/ open'[h].client # c \/ open'[h].call # calls[c]
  BY <1>1, <1>3 DEF IsOf, TypeInv
<1>7. CASE a.ret # "OK" /\ Return(c, IF s.call.op = "rmdir" THEN DirDeleteResult(a.ret) ELSE a.ret)
  <2>1. PICK r : r = IF s.call.op = "rmdir" THEN DirDeleteResult(a.ret) ELSE a.ret
    OBVIOUS
  <2>2. r # "OK"
    BY <1>3, <1>7, <2>1 DEF DirDeleteResult, Gone
  <2> QED
    BY <1>1, <1>3, <1>4, <1>5, <1>7, <2>1, <2>2, Returned DEF StepInv, TypeInv
<1>8. CASE a.ret = "OK" /\ Return(c, ListResult(s))
  <2>1. PICK r : r = ListResult(s)
    OBVIOUS
  <2> QED
    BY <1>1, <1>3, <1>4, <1>5, <1>6, <1>8, <2>1, Returned DEF StepInv, TypeInv
<1>9. CASE /\ a.ret = "OK" /\ s.call.op = "rmdir"
           /\ Continue(c, [s EXCEPT !.pc = "visit", !.found = 0])
  <2>1. PICK t : t = [s EXCEPT !.pc = "visit", !.found = 0]
    OBVIOUS
  <2>2. DOMAIN t = Fields /\ t.pc = "visit" /\ t.call = s.call /\ t.status = s.status /\ t.stack = s.stack
    BY <2>1 DEF TypeInv, Fields
  <2>3. Common(c) /\ st'[c] = t /\ calls' = calls
    BY <1>1, <1>3, <1>4, <1>9, <2>1, <2>2, GoesOn DEF TypeInv
  <2>4. StageInv(c)' /\ WalkInv(c)' /\ UseInv(c)'
    BY <1>1, <1>9, <2>2, <2>3
       DEF StageInv, WalkInv, UseInv, At, Marking, Copying, Renaming, Finding,
           HoldsSource, HoldsTarget, HoldsMarker, HoldsFind
  <2>5. LeakInv(c)'
    BY <1>6, <1>9, <2>3 DEF LeakInv, IsOf
  <2> QED
    BY <1>5, <2>3, <2>4, <2>5 DEF StepInv, Common, ClientInv
<1> QED
  BY <1>2, <1>7, <1>8, <1>9

LEMMA AbortFindStep ==
  ASSUME NEW c \in Clients, TypeInv, ClientInv(c), AbortFind(c)
  PROVE  StepInv(c)
<1> DEFINE s == st[c]
<1>1. s.pc = "abort_find" /\ ~At(c, "idle") /\ s.status # "OK" /\ Holds(c, s.found, "find")
  BY FindingStage DEF AbortFind, At, Finding, HoldsFind
<1>2. PICK a \in Replies(Close(s.found)) : Serve(c, a) /\ Return(c, s.status)
  BY DEF AbortFind
<1>3. fs' = fs /\ faults' \in Nat /\ (open' = open \/ open' = [open EXCEPT ![s.found] = Closed])
  BY <1>2, CloseEffect DEF TypeInv
<1>4. OpenStep(c)
  BY <1>1, <1>3, OpenSteps
<1>5. Common(c) /\ ClientInv(c)'
  BY <1>1, <1>2, <1>3, <1>4, Returned DEF TypeInv
<1> QED
  BY <1>3, <1>5 DEF StepInv, StaysInside

LEMMA DeleteEntryStep ==
  ASSUME NEW c \in Clients, TypeInv, ClientInv(c), DeleteEntry(c)
  PROVE  StepInv(c)
<1> DEFINE s == st[c]
           root == Normalized(s.call.path)
<1>1. /\ s.pc = "delete_entry" /\ s.call \in Calls[c] /\ ~At(c, "idle") /\ s.status = "OK"
      /\ s.call.op = "rmdir"
      /\ Holds(c, s.found, "find")
      /\ \A e \in open[s.found].left : e[1] \in Children(EnumeratedPath(s))
      /\ s.stack \in Seq(NodesBelow(root)) /\ s.node \in NodesBelow(root)
      /\ \A h \in Handles : IsOf(c, h) /\ open[h].call = calls[c] => h = s.found
  BY FindingStage DEF DeleteEntry, At, Finding, HoldsFind
<1>2. s.entry \in Under(root) \ {root} /\ s.entry \in Paths
  BY <1>1 DEF ClientInv, WalkInv, At, Under
<1>3. PICK a \in Replies(DeleteFile(s.entry)) :
         /\ Serve(c, a)
         /\ \/ Continue(c, [s EXCEPT !.pc = "find_next", !.entry = <<>>])
            \/ ~Gone(a.ret) /\ Return(c, a.ret)
  BY DEF DeleteEntry
<1>4. /\ open' = open /\ faults' \in Nat
      /\ fs' = fs \/ fs' = [fs EXCEPT ![s.entry] = Absent]
  BY <1>2, <1>3, DeleteEffect
<1>5. OpenStep(c) /\ fs' \in [Paths -> Entries]
  BY <1>4, OpenSteps, EntriesMade DEF TypeInv
<1>6. StaysInside(c)
  BY <1>2, <1>4 DEF StaysInside, TypeInv
<1>7. CASE Continue(c, [s EXCEPT !.pc = "find_next", !.entry = <<>>])
  <2>1. PICK t : t = [s EXCEPT !.pc = "find_next", !.entry = <<>>]
    OBVIOUS
  <2>2. /\ DOMAIN t = Fields /\ t.pc = "find_next" /\ t.call = s.call /\ t.status = s.status
        /\ t.stack = s.stack /\ t.node = s.node /\ t.found = s.found
    BY <2>1 DEF TypeInv, Fields
  <2>3. Common(c) /\ st'[c] = t /\ calls' = calls
    BY <1>1, <1>4, <1>5, <1>7, <2>1, <2>2, GoesOn
  <2>4. StageInv(c)' /\ WalkInv(c)'
    BY <1>1, <2>2, <2>3 DEF StageInv, WalkInv, At, Marking, Copying, Renaming, Finding
  <2>5. UseInv(c)' /\ LeakInv(c)'
    <3>1. EnumeratedPath(t) = EnumeratedPath(s)
      BY <2>2 DEF EnumeratedPath
    <3> QED
      BY <1>1, <1>4, <2>2, <2>3, <3>1
         DEF UseInv, LeakInv, HoldsSource, HoldsTarget, HoldsMarker, HoldsFind, Marking, Copying,
             Holds, IsOf
  <2> QED
    BY <1>6, <2>3, <2>4, <2>5 DEF StepInv, Common, ClientInv
<1>8. CASE ~Gone(a.ret) /\ Return(c, a.ret)
  BY <1>1, <1>4, <1>5, <1>6, <1>8, Returned DEF StepInv, Gone
<1> QED
  BY <1>3, <1>7, <1>8

-----------------------------------------------------------------------------
(* DeleteTree. *)

\* Between the directories a call holds nothing, and its stack lies in the tree.
LEMMA VisitStage ==
  ASSUME NEW c \in Clients, TypeInv, ClientInv(c), st[c].pc \in {"visit", "delete_as_file"}
  PROVE  /\ st[c].call \in Calls[c] /\ ~At(c, "idle") /\ Normalized(st[c].call.path) \in Paths
         /\ st[c].call.op = "rmdir" /\ st[c].status = "OK"
         /\ st[c].stack \in Seq(NodesBelow(Normalized(st[c].call.path)))
         /\ \A h \in Handles : open[h] = Closed \/ open[h].client # c \/ open[h].call # calls[c]
<1>1. st[c].call \in Calls[c] /\ ~At(c, "idle") /\ st[c].call.op = "rmdir" /\ st[c].status = "OK"
  BY DEF ClientInv, StageInv, At, Marking, Renaming, Copying, Finding
<1>2. st[c].stack \in Seq(NodesBelow(Normalized(st[c].call.path)))
  BY <1>1 DEF ClientInv, WalkInv, At
<1>3. \A h \in Handles : open[h] = Closed \/ open[h].client # c \/ open[h].call # calls[c]
  BY <1>1 DEF ClientInv, LeakInv, IsOf, HoldsSource, HoldsTarget, HoldsMarker, HoldsFind, Copying
<1> QED
  BY <1>1, <1>2, <1>3, CallsAssumption

\* The call goes on with t and holds nothing, or still walks.
LEMMA WalksOn ==
  ASSUME NEW c \in Clients, TypeInv, ClientInv(c), st[c].pc \in {"visit", "delete_as_file"},
         open' = open, fs' \in [Paths -> Entries], faults' \in Nat, StaysInside(c),
         NEW t, Continue(c, t), DOMAIN t = Fields, t.call = st[c].call, t.status = "OK",
         t.pc \in {"visit", "delete_as_file", "find"},
         t.stack \in Seq(NodesBelow(Normalized(st[c].call.path))),
         t.pc = "find" => t.node \in NodesBelow(Normalized(st[c].call.path)),
         t.pc = "delete_as_file" => /\ t.entry \in Under(Normalized(st[c].call.path))
                                    /\ t.entry = Normalized(st[c].call.path) => st[c].call.self
  PROVE  StepInv(c)
<1>1. /\ st[c].call \in Calls[c] /\ ~At(c, "idle") /\ st[c].call.op = "rmdir"
      /\ \A h \in Handles : open[h] = Closed \/ open[h].client # c \/ open[h].call # calls[c]
  BY VisitStage
<1>2. OpenStep(c)
  BY OpenSteps
<1>3. Common(c) /\ st'[c] = t /\ calls' = calls
  BY <1>1, <1>2, GoesOn
<1>4. StageInv(c)' /\ WalkInv(c)'
  BY <1>1, <1>3 DEF StageInv, WalkInv, At, Marking, Copying, Renaming, Finding
<1>5. UseInv(c)' /\ LeakInv(c)'
  BY <1>1, <1>3
     DEF UseInv, LeakInv, HoldsSource, HoldsTarget, HoldsMarker, HoldsFind, Marking, Copying, IsOf
<1> QED
  BY <1>3, <1>4, <1>5 DEF StepInv, Common, ClientInv

LEMMA WalkReturned ==
  ASSUME NEW c \in Clients, TypeInv, ClientInv(c), st[c].pc \in {"visit", "delete_as_file"},
         open' = open, fs' \in [Paths -> Entries], faults' \in Nat, StaysInside(c),
         NEW r, Return(c, r)
  PROVE  StepInv(c)
<1>1. /\ ~At(c, "idle")
      /\ \A h \in Handles : open[h] = Closed \/ open[h].client # c \/ open[h].call # calls[c]
  BY VisitStage
<1>2. OpenStep(c)
  BY OpenSteps
<1> QED
  BY <1>1, <1>2, Returned DEF StepInv

LEMMA StackNodes ==
  ASSUME NEW N, NEW s, s.stack \in Seq(N), s.stack # <<>>
  PROVE  Top(s) \in N /\ SubSeq(s.stack, 1, Len(s.stack) - 1) \in Seq(N)
  BY DEF Top

LEMMA TreeDeletedStep ==
  ASSUME NEW c \in Clients, TypeInv, ClientInv(c), TreeDeleted(c)
  PROVE  StepInv(c)
<1>1. st[c].pc = "visit" /\ Return(c, "OK") /\ fs' = fs /\ open' = open /\ faults' = faults
  BY DEF TreeDeleted, NoRequest, At
<1>2. StaysInside(c) /\ fs' \in [Paths -> Entries] /\ faults' \in Nat
  BY <1>1 DEF StaysInside, TypeInv
<1> QED
  BY <1>1, <1>2, WalkReturned

LEMMA ExpandDirectoryStep ==
  ASSUME NEW c \in Clients, TypeInv, ClientInv(c), ExpandDirectory(c)
  PROVE  StepInv(c)
<1> DEFINE s == st[c]
           N == NodesBelow(Normalized(s.call.path))
<1>1. s.pc = "visit" /\ s.stack # <<>> /\ fs' = fs /\ open' = open /\ faults' = faults
  BY DEF ExpandDirectory, NoRequest, At
<1>2. StaysInside(c) /\ fs' \in [Paths -> Entries] /\ faults' \in Nat
  BY <1>1 DEF StaysInside, TypeInv
<1>3. s.stack \in Seq(N) /\ s.status = "OK" /\ Top(s) \in N /\ SubSeq(s.stack, 1, Len(s.stack) - 1) \in Seq(N)
  BY <1>1, VisitStage, StackNodes
<1>4. PICK node, m : node = Top(s) /\ m = [node EXCEPT !.expanded = TRUE]
  OBVIOUS
<1>5. node \in N /\ m \in N
  BY <1>3, <1>4 DEF NodesBelow
<1>6. \/ Return(c, "INVALIDPARM")
      \/ Continue(c, [Push(Pop(s), m) EXCEPT !.pc = "find", !.node = node])
  BY <1>4 DEF ExpandDirectory
<1>7. CASE Return(c, "INVALIDPARM")
  BY <1>1, <1>2, <1>7, WalkReturned
<1>8. CASE Continue(c, [Push(Pop(s), m) EXCEPT !.pc = "find", !.node = node])
  <2>1. PICK t : t = [Push(Pop(s), m) EXCEPT !.pc = "find", !.node = node]
    OBVIOUS
  <2>2. /\ DOMAIN t = Fields /\ t.pc = "find" /\ t.call = s.call /\ t.status = s.status /\ t.node = node
        /\ t.stack = Append(SubSeq(s.stack, 1, Len(s.stack) - 1), m)
    BY <2>1 DEF Push, Pop, TypeInv, Fields
  <2>3. t.stack \in Seq(N)
    BY <1>3, <1>5, <2>2
  <2> QED
    BY <1>1, <1>2, <1>3, <1>5, <1>8, <2>1, <2>2, <2>3, WalksOn
<1> QED
  BY <1>6, <1>7, <1>8

LEMMA KeepRootStep ==
  ASSUME NEW c \in Clients, TypeInv, ClientInv(c), KeepRoot(c)
  PROVE  StepInv(c)
<1> DEFINE s == st[c]
           N == NodesBelow(Normalized(s.call.path))
<1>1. s.pc = "visit" /\ s.stack # <<>> /\ fs' = fs /\ open' = open /\ faults' = faults
      /\ Continue(c, Pop(s))
  BY DEF KeepRoot, NoRequest, At
<1>2. StaysInside(c) /\ fs' \in [Paths -> Entries] /\ faults' \in Nat
  BY <1>1 DEF StaysInside, TypeInv
<1>3. s.status = "OK" /\ SubSeq(s.stack, 1, Len(s.stack) - 1) \in Seq(N)
  BY <1>1, VisitStage, StackNodes
<1>4. PICK t : t = Pop(s)
  OBVIOUS
<1>5. DOMAIN t = Fields /\ t.pc = "visit" /\ t.call = s.call /\ t.status = "OK" /\ t.stack \in Seq(N)
  BY <1>1, <1>3, <1>4 DEF Pop, Fields, TypeInv
<1> QED
  BY <1>1, <1>2, <1>4, <1>5, WalksOn

LEMMA DeleteDirectoryStep ==
  ASSUME NEW c \in Clients, TypeInv, ClientInv(c), DeleteDirectory(c)
  PROVE  StepInv(c)
<1> DEFINE s == st[c]
           root == Normalized(s.call.path)
           N == NodesBelow(root)
           p == Top(s).path
<1>1. s.pc = "visit" /\ s.stack # <<>> /\ ~KeepsRoot(s)
  BY DEF DeleteDirectory, At
<1>2. /\ s.call.op = "rmdir" /\ s.status = "OK" /\ Top(s) \in N
      /\ SubSeq(s.stack, 1, Len(s.stack) - 1) \in Seq(N) /\ root \in Paths
  BY <1>1, VisitStage, StackNodes
<1>3. p \in Paths /\ p \in Under(root) /\ (p = root => s.call.self)
  <2>1. p \in Paths /\ p \in Under(root) /\ Top(s).depth = Len(p) - Len(root)
    BY <1>2 DEF NodesBelow
  <2>2. Len(root) \in Nat
    BY <1>2, ServerAssumption
  <2> QED
    BY <1>1, <2>1, <2>2 DEF KeepsRoot
<1>4. PICK a \in Replies(DeleteDir(p)) :
         /\ Serve(c, a)
         /\ \/ Continue(c, Pop(s))
            \/ Continue(c, [Pop(s) EXCEPT !.pc = "delete_as_file", !.entry = p])
            \/ Return(c, a.ret)
  BY DEF DeleteDirectory
<1>5. /\ open' = open /\ faults' \in Nat
      /\ fs' = fs \/ fs' = [fs EXCEPT ![p] = Absent]
  BY <1>3, <1>4, DeleteEffect
<1>6. fs' \in [Paths -> Entries] /\ StaysInside(c)
  BY <1>3, <1>5, EntriesMade DEF StaysInside, TypeInv
<1>7. CASE Continue(c, Pop(s))
  <2>1. PICK t : t = Pop(s)
    OBVIOUS
  <2>2. DOMAIN t = Fields /\ t.pc = "visit" /\ t.call = s.call /\ t.status = "OK" /\ t.stack \in Seq(N)
    BY <1>1, <1>2, <2>1 DEF Pop, Fields, TypeInv
  <2> QED
    BY <1>1, <1>5, <1>6, <1>7, <2>1, <2>2, WalksOn
<1>8. CASE Continue(c, [Pop(s) EXCEPT !.pc = "delete_as_file", !.entry = p])
  <2>1. PICK t : t = [Pop(s) EXCEPT !.pc = "delete_as_file", !.entry = p]
    OBVIOUS
  <2>2. /\ DOMAIN t = Fields /\ t.pc = "delete_as_file" /\ t.call = s.call /\ t.status = "OK"
        /\ t.stack \in Seq(N) /\ t.entry = p
    BY <1>1, <1>2, <2>1 DEF Pop, Fields, TypeInv
  <2> QED
    BY <1>1, <1>3, <1>5, <1>6, <1>8, <2>1, <2>2, WalksOn
<1>9. CASE Return(c, a.ret)
  BY <1>1, <1>5, <1>6, <1>9, WalkReturned
<1> QED
  BY <1>4, <1>7, <1>8, <1>9

LEMMA DeleteAsFileStep ==
  ASSUME NEW c \in Clients, TypeInv, ClientInv(c), DeleteAsFile(c)
  PROVE  StepInv(c)
<1> DEFINE s == st[c]
           root == Normalized(s.call.path)
           N == NodesBelow(root)
<1>1. s.pc = "delete_as_file"
  BY DEF DeleteAsFile, At
<1>2. s.call.op = "rmdir" /\ s.status = "OK" /\ s.stack \in Seq(N) /\ ~At(c, "idle")
  BY <1>1, VisitStage
<1>3. s.entry \in Paths /\ s.entry \in Under(root) /\ (s.entry = root => s.call.self)
  BY <1>1, <1>2 DEF ClientInv, WalkInv, Under, At
<1>4. PICK a \in Replies(DeleteFile(s.entry)) :
         /\ Serve(c, a)
         /\ \/ Continue(c, [s EXCEPT !.pc = "visit", !.entry = <<>>])
            \/ Return(c, a.ret)
  BY DEF DeleteAsFile
<1>5. /\ open' = open /\ faults' \in Nat
      /\ fs' = fs \/ fs' = [fs EXCEPT ![s.entry] = Absent]
  BY <1>3, <1>4, DeleteEffect
<1>6. fs' \in [Paths -> Entries] /\ StaysInside(c)
  BY <1>3, <1>5, EntriesMade DEF StaysInside, TypeInv
<1>7. CASE Continue(c, [s EXCEPT !.pc = "visit", !.entry = <<>>])
  <2>1. PICK t : t = [s EXCEPT !.pc = "visit", !.entry = <<>>]
    OBVIOUS
  <2>2. DOMAIN t = Fields /\ t.pc = "visit" /\ t.call = s.call /\ t.status = "OK" /\ t.stack \in Seq(N)
    BY <1>2, <2>1 DEF Fields, TypeInv
  <2> QED
    BY <1>1, <1>5, <1>6, <1>7, <2>1, <2>2, WalksOn
<1>8. CASE Return(c, a.ret)
  BY <1>1, <1>5, <1>6, <1>8, WalkReturned
<1> QED
  BY <1>4, <1>7, <1>8

-----------------------------------------------------------------------------
(* The invariant, and the first two action properties. *)

LEMMA InitInv ==
  FileInit => FileInv
<1> SUFFICES ASSUME FileInit
             PROVE  FileInv
  OBVIOUS
<1>1. ASSUME NEW p \in Paths
      PROVE  fs[p] \in Entries
  <2>1. Directory \in Entries /\ Absent \in Entries
    BY DEF Directory, Absent, Entries, Kinds
  <2>2. p \in DOMAIN Payload => File(Payload[p]) \in Entries
    BY ServerAssumption DEF File, Entries, Kinds, Blocks
  <2>3. \/ p \in DirsAtStart /\ fs[p] = Directory
        \/ p \in DOMAIN Payload /\ fs[p] = File(Payload[p])
        \/ fs[p] = Absent
    BY ServerAssumption DEF FileInit, ServerInit
  <2> QED
    BY <2>1, <2>2, <2>3
<1>2. fs \in [Paths -> Entries]
  BY <1>1 DEF FileInit, ServerInit
<1>3. \A c \in Clients : st[c].pc = "idle" /\ st[c].status = "OK" /\ DOMAIN st[c] = Fields
  BY DEF FileInit, Fresh, Fields
<1>4. TypeInv
  BY <1>2, <1>3 DEF TypeInv, FileInit, ServerInit
<1>5. ASSUME NEW c \in Clients
      PROVE  ClientInv(c)
  <2>1. st[c].pc = "idle" /\ st[c].status = "OK" /\ held[c] = {}
    BY <1>3 DEF FileInit
  <2>2. \A h : ~IsOf(c, h)
    BY DEF IsOf, FileInit, ServerInit
  <2>3. StageInv(c) /\ WalkInv(c)
    BY <2>1 DEF StageInv, WalkInv, At, Marking, Copying
  <2>4. UseInv(c) /\ HeldInv(c) /\ LeakInv(c)
    BY <2>1, <2>2 DEF UseInv, HeldInv, LeakInv, At, Marking, Copying,
                      HoldsSource, HoldsTarget, HoldsMarker, HoldsFind
  <2> QED
    BY <2>3, <2>4 DEF ClientInv
<1> QED
  BY <1>4, <1>5 DEF FileInv

\* One of the actions of c.
StepOf(c) ==
    \/ \E k \in Calls[c] : StartCall(c, k)
    \/ \E h \in held[c] : FileClose(c, h)
    \/ ClientStep(c)

LEMMA EveryStep ==
  ASSUME FlagsAreNoHandle, NEW c \in Clients, TypeInv, ClientInv(c), StepOf(c)
  PROVE  StepInv(c)
<1>1. ASSUME ClientStep(c)
      PROVE  StepInv(c)
  <2>1. CASE CreateMarker(c)
    BY <2>1, OpenMarkerStep DEF CreateMarker, At
  <2>2. CASE AppendMarker(c)
    BY <2>2, OpenMarkerStep DEF AppendMarker, At
  <2>3. CASE \/ ReadPlatformId(c) \/ FileDelete(c) \/ FileOpen(c)
             \/ CloseMarker(c) \/ DeleteMarker(c)
    BY <2>3, ReadPlatformIdStep, FileDeleteStep, FileOpenStep, CloseMarkerStep, DeleteMarkerStep
  <2>4. CASE \/ OpenSource(c) \/ DropSource(c) \/ CopyRead(c) \/ CopyWrite(c)
             \/ CloseTarget(c) \/ CloseSource(c) \/ DeleteSource(c)
    BY <2>4, OpenSourceStep, DropSourceStep, CopyReadStep, CopyWriteStep,
       CloseTargetStep, CloseSourceStep, DeleteSourceStep
  <2>5. CASE FindFirstEntry(c) \/ FindNextEntry(c) \/ CloseFind(c) \/ AbortFind(c) \/ DeleteEntry(c)
    BY <2>5, FindFirstEntryStep, FindNextEntryStep, CloseFindStep, AbortFindStep, DeleteEntryStep
  <2>6. CASE \/ TreeDeleted(c) \/ ExpandDirectory(c) \/ KeepRoot(c)
             \/ DeleteDirectory(c) \/ DeleteAsFile(c)
    BY <2>6, TreeDeletedStep, ExpandDirectoryStep, KeepRootStep, DeleteDirectoryStep,
       DeleteAsFileStep
  <2> QED
    BY <1>1, <2>1, <2>2, <2>3, <2>4, <2>5, <2>6 DEF ClientStep
<1> QED
  BY <1>1, StartCallStep, FileCloseStep DEF StepOf

LEMMA StepKeepsInv ==
  ASSUME FlagsAreNoHandle, FileInv, NEW c \in Clients, StepOf(c)
  PROVE  FileInv' /\ StepInv(c)
<1>1. StepInv(c)
  BY EveryStep DEF FileInv
<1>2. TypeInv' /\ ClientInv(c)' /\ Frame(c)
  BY <1>1 DEF StepInv, Common
<1>3. \A x \in Clients \ {c} : ClientInv(x)'
  BY <1>2, FrameKeepsOthers DEF FileInv
<1> QED
  BY <1>1, <1>2, <1>3 DEF FileInv

LEMMA StutterKeepsInv ==
  ASSUME FileInv, UNCHANGED fileVars
  PROVE  FileInv'
<1>1. TypeInv'
  BY DEF FileInv, TypeInv, fileVars
<1>2. ASSUME NEW c \in Clients
      PROVE  ClientInv(c)'
  BY DEF FileInv, fileVars, ClientInv, StageInv, UseInv, HeldInv, LeakInv, WalkInv, At, Holds, IsOf
<1> QED
  BY <1>1, <1>2 DEF FileInv

\* The inductive invariant: where each call is, and whose the open handles are.
THEOREM FileInvariant ==
  ASSUME FlagsAreNoHandle
  PROVE  FileSpec => []FileInv
<1>1. FileInv /\ [FileNext]_fileVars => FileInv'
  BY StepKeepsInv, StutterKeepsInv DEF FileNext, StepOf
<1> QED
  BY <1>1, InitInv, PTL DEF FileSpec

\* A call that succeeds has closed every handle it was given (FileRename,
\* DirCreate, DirDelete, FileList and the marker's handles).
THEOREM HandlesAreClosed ==
  ASSUME FlagsAreNoHandle
  PROVE  FileSpec => HandlesClosed
<1> DEFINE Closes ==
        \A c \in Clients : Returns(c, "OK") =>
          \A h \in Handles \ held'[c] :
              open'[h] = Closed \/ open'[h].client # c \/ open'[h].call # calls[c]
<1>1. ASSUME FileInv, NEW c \in Clients, StepOf(c), NEW x \in Clients
      PROVE  ClosesAll(x)
  <2>1. Frame(c) /\ ClosesAll(c)
    BY <1>1, StepKeepsInv DEF StepInv, Common
  <2> QED
    BY <2>1 DEF Frame, ClosesAll, Returns, At
<1>2. FileInv /\ [FileNext]_fileVars => [Closes]_fileVars
  BY <1>1 DEF FileNext, StepOf, ClosesAll
<1> QED
  BY <1>2, FileInvariant, PTL DEF FileSpec, HandlesClosed

\* DeleteTree deletes nothing outside the directory, nor a root it is to keep.
THEOREM DeletionStaysInside ==
  ASSUME FlagsAreNoHandle
  PROVE  FileSpec => DirDeleteStaysInside
<1> DEFINE Inside ==
        \A c \in Clients : st[c].call.op = "rmdir" /\ ~At(c, "idle") /\ st'[c] # st[c] =>
          LET root == Normalized(st[c].call.path)
          IN \A p \in Paths : fs'[p] # fs[p] =>
                 p \in Under(root) /\ (p = root => st[c].call.self)
<1>1. ASSUME FileInv, NEW c \in Clients, StepOf(c), NEW x \in Clients
      PROVE  StaysInside(x)
  <2>1. Frame(c) /\ StaysInside(c)
    BY <1>1, StepKeepsInv DEF StepInv, Common
  <2> QED
    BY <2>1 DEF Frame, StaysInside
<1>2. FileInv /\ [FileNext]_fileVars => [Inside]_fileVars
  BY <1>1 DEF FileNext, StepOf, StaysInside
<1> QED
  BY <1>2, FileInvariant, PTL DEF FileSpec, DirDeleteStaysInside

-----------------------------------------------------------------------------
(* What a step does to the drive. *)

IsMarker(p) == p # <<>> /\ p[Len(p)] = MarkerName

LEMMA MarkersAreMarkers ==
  ASSUME NEW d \in Paths
  PROVE  IsMarker(Marker(d)) /\ Marker(d) # <<>>
<1>1. d \in Seq(STRING) /\ Len(d) \in Nat
  BY ServerAssumption
<1> QED
  BY <1>1 DEF IsMarker, Marker

\* What a client with the local variables s deletes, or writes, next.
Deletes(s) ==
    {p \in Paths : \/ s.pc \in {"delete", "delete_src"} /\ p = Normalized(s.call.path)
                   \/ /\ s.pc \in {"visit", "delete_entry", "delete_as_file"}
                      /\ p \in Under(Normalized(s.call.path))}
Writes(s) == {p \in Paths : s.pc \in {"open", "write"} /\ p = OpenedPath(s)}

\* What a step of c may change, on the drive and of what is open.
FsPrint(c) ==
    \A p \in Paths : \/ fs'[p] = fs[p]
                     \/ fs[p].kind = "none" /\ fs'[p] = Directory
                     \/ p \in Deletes(st[c]) /\ fs'[p] = Absent
                     \/ p \in Writes(st[c])
                     \/ st[c].pc \in Marking /\ p = Marker(Head(st[c].dirs))
OpenPrint(c) ==
    \A h \in Handles : \/ open'[h] = open[h]
                       \/ open'[h] = Closed
                       \/ open'[h].mode = "find"
                       \/ /\ st[c].pc \in {"open", "open_src", "read"}
                          /\ open'[h].path \in {Normalized(st[c].call.path), OpenedPath(st[c])}
                       \/ st[c].pc \in Marking

LEMMA ClosePrint ==
  ASSUME TypeInv, NEW c \in Clients,
         \/ \E h : FileClose(c, h)
         \/ CloseMarker(c) \/ DropSource(c) \/ CloseTarget(c) \/ CloseSource(c)
         \/ CloseFind(c) \/ AbortFind(c)
  PROVE  FsPrint(c) /\ OpenPrint(c)
<1>1. PICK h : \E a \in Replies(Close(h)) : Serve(c, a)
  BY DEF FileClose, CloseMarker, DropSource, CloseTarget, CloseSource, CloseFind, AbortFind
<1>2. fs' = fs /\ (open' = open \/ open' = [open EXCEPT ![h] = Closed])
  BY <1>1, CloseEffect DEF TypeInv
<1> QED
  BY <1>2 DEF FsPrint, OpenPrint, TypeInv

LEMMA QuietPrint ==
  ASSUME TypeInv, NEW c \in Clients,
         \/ \E k : StartCall(c, k)
         \/ ReadPlatformId(c) \/ TreeDeleted(c) \/ ExpandDirectory(c) \/ KeepRoot(c)
  PROVE  FsPrint(c) /\ OpenPrint(c)
<1>1. fs' = fs /\ open' = open
  <2>1. CASE NoRequest
    BY <2>1 DEF NoRequest
  <2>2. CASE \E a \in Replies({Refuse("OK")}) : Serve(c, a)
    <3>1. \A b \in {Refuse("OK")} : IsAnswer(b) /\ b.fs = fs /\ b.open = open
      BY DEF Refuse, Answer, IsAnswer
    <3> QED
      BY <2>2, <3>1, ReplyOf
  <2> QED
    BY <2>1, <2>2 DEF StartCall, ReadPlatformId, TreeDeleted, ExpandDirectory, KeepRoot
<1> QED
  BY <1>1 DEF FsPrint, OpenPrint

LEMMA DeletePrint ==
  ASSUME TypeInv, NEW c \in Clients, ClientInv(c),
         \/ FileDelete(c) \/ DeleteMarker(c) \/ DeleteSource(c) \/ DeleteEntry(c)
         \/ DeleteDirectory(c) \/ DeleteAsFile(c)
  PROVE  FsPrint(c) /\ OpenPrint(c)
<1> DEFINE s == st[c]
           root == Normalized(s.call.path)
<1>1. ASSUME NEW p \in Paths, p \in Deletes(s) \/ (s.pc \in Marking /\ p = Marker(Head(s.dirs))),
             NEW a \in Replies(DeleteFile(p)) \cup Replies(DeleteDir(p)), Serve(c, a)
      PROVE  FsPrint(c) /\ OpenPrint(c)
  <2>1. open' = open /\ (fs' = fs \/ fs' = [fs EXCEPT ![p] = Absent])
    BY <1>1, DeleteEffect
  <2> QED
    BY <1>1, <2>1 DEF FsPrint, OpenPrint, TypeInv
<1>2. CASE FileDelete(c) \/ DeleteSource(c)
  <2>1. s.pc \in {"delete", "delete_src"} /\ root \in Paths
    BY <1>2, CallsAssumption DEF FileDelete, DeleteSource, At, ClientInv, StageInv
  <2>2. root \in Deletes(s)
    BY <2>1 DEF Deletes
  <2>3. \E a \in Replies(DeleteFile(root)) : Serve(c, a)
    BY <1>2 DEF FileDelete, DeleteSource
  <2> QED
    BY <1>1, <2>1, <2>2, <2>3
<1>3. CASE DeleteMarker(c)
  <2>1. s.pc \in Marking /\ Marker(Head(s.dirs)) \in Paths
    BY <1>3, MarkingStage DEF DeleteMarker, At, Marking
  <2>2. \E a \in Replies(DeleteFile(Marker(Head(s.dirs)))) : Serve(c, a)
    BY <1>3 DEF DeleteMarker
  <2> QED
    BY <1>1, <2>1, <2>2
<1>4. CASE DeleteEntry(c) \/ DeleteAsFile(c)
  <2>1. s.pc \in {"delete_entry", "delete_as_file"} /\ s.call.op = "rmdir"
    BY <1>4 DEF DeleteEntry, DeleteAsFile, At, ClientInv, StageInv, Marking, Renaming, Copying, Finding
  <2>2. s.entry \in Under(root)
    BY <2>1 DEF ClientInv, WalkInv, At
  <2>3. s.entry \in Paths /\ s.entry \in Deletes(s)
    BY <2>1, <2>2 DEF Under, Deletes
  <2>4. \E a \in Replies(DeleteFile(s.entry)) : Serve(c, a)
    BY <1>4 DEF DeleteEntry, DeleteAsFile
  <2> QED
    BY <1>1, <2>3, <2>4
<1>5. CASE DeleteDirectory(c)
  <2>1. s.pc = "visit" /\ s.stack # <<>>
    BY <1>5 DEF DeleteDirectory, At
  <2>2. Top(s) \in NodesBelow(root)
    BY <2>1, VisitStage, StackNodes
  <2>3. Top(s).path \in Paths /\ Top(s).path \in Deletes(s)
    BY <2>1, <2>2 DEF NodesBelow, Deletes
  <2>4. \E a \in Replies(DeleteDir(Top(s).path)) : Serve(c, a)
    BY <1>5 DEF DeleteDirectory
  <2> QED
    BY <1>1, <2>3, <2>4
<1> QED
  BY <1>2, <1>3, <1>4, <1>5

LEMMA OpenPrints ==
  ASSUME TypeInv, NEW c \in Clients, ClientInv(c),
         FileOpen(c) \/ CreateMarker(c) \/ AppendMarker(c)
  PROVE  FsPrint(c) /\ OpenPrint(c)
<1> DEFINE s == st[c]
<1>1. ASSUME NEW p \in Paths, NEW append \in BOOLEAN,
             \/ s.pc = "open" /\ p = OpenedPath(s)
             \/ s.pc \in Marking /\ p = Marker(Head(s.dirs)),
             NEW a \in Replies(OpenToWrite(c, calls[c], p, append)), Serve(c, a)
      PROVE  FsPrint(c) /\ OpenPrint(c)
  <2>1. \/ Made(p) /\ \E h \in Handles : Granted(h, Stream("write", c, p))
        \/ fs' = fs /\ open' = open
    BY <1>1, OpenToWriteEffect DEF Granted
  <2>2. Stream("write", c, p).path = p
    BY DEF Stream
  <2>3. FsPrint(c)
    BY <1>1, <2>1 DEF FsPrint, Made, Writes
  <2>4. OpenPrint(c)
    BY <1>1, <2>1, <2>2 DEF OpenPrint, Granted, TypeInv
  <2> QED
    BY <2>3, <2>4
<1>2. CASE FileOpen(c)
  <2>1. s.pc = "open" /\ s.call \in Calls[c]
    BY <1>2 DEF FileOpen, At, ClientInv, StageInv
  <2>2. OpenedPath(s) \in Paths
    BY <2>1, OpenedPathKnown
  <2>3. \E a \in Replies(OpenToWrite(c, calls[c], OpenedPath(s), FALSE)) : Serve(c, a)
    BY <1>2 DEF FileOpen
  <2> QED
    BY <1>1, <2>1, <2>2, <2>3
<1>3. CASE CreateMarker(c) \/ AppendMarker(c)
  <2>1. s.pc \in Marking /\ Marker(Head(s.dirs)) \in Paths
    BY <1>3, MarkingStage DEF CreateMarker, AppendMarker, At, Marking
  <2>2. PICK append \in BOOLEAN :
           \E a \in Replies(OpenToWrite(c, calls[c], Marker(Head(s.dirs)), append)) : Serve(c, a)
    BY <1>3 DEF CreateMarker, AppendMarker, OpenMarker
  <2> QED
    BY <1>1, <2>1, <2>2
<1> QED
  BY <1>2, <1>3

LEMMA CopyPrint ==
  ASSUME TypeInv, NEW c \in Clients, ClientInv(c),
         OpenSource(c) \/ CopyRead(c) \/ CopyWrite(c)
  PROVE  FsPrint(c) /\ OpenPrint(c)
<1> DEFINE s == st[c]
           source == Normalized(s.call.path)
<1>1. /\ s.call.op = "rename" /\ s.call \in Calls[c]
      /\ source \in Paths /\ OpenedPath(s) = Normalized(s.call.target) /\ OpenedPath(s) \in Paths
  BY CallsAssumption DEF OpenSource, CopyRead, CopyWrite, At, ClientInv, StageInv, Marking,
                         Finding, OpenedPath
<1>2. CASE OpenSource(c)
  <2>1. s.pc = "open_src"
    BY <1>2 DEF OpenSource, At
  <2>2. PICK a \in Replies(OpenToRead(c, calls[c], source)) : Serve(c, a)
    BY <1>2 DEF OpenSource
  <2>3. fs' = fs /\ (open' = open \/ \E h \in Handles : Granted(h, Stream("read", c, source)))
    BY <1>1, <2>2, OpenToReadEffect DEF Granted
  <2> QED
    BY <2>1, <2>3 DEF FsPrint, OpenPrint, Granted, Stream, TypeInv
<1>3. CASE CopyRead(c)
  <2>1. s.pc = "read"
    BY <1>3 DEF CopyRead, At
  <2>2. Holds(c, s.src, "read") /\ open[s.src].path = source
    BY <1>1, <2>1 DEF ClientInv, UseInv, HoldsSource, Copying
  <2>3. PICK a \in Replies(Read(s.src)) : Serve(c, a)
    BY <1>3 DEF CopyRead
  <2>4. fs' = fs /\ (open' = open \/ open' = [open EXCEPT ![s.src].pos = open[s.src].pos + 1])
    BY <2>2, <2>3, ReadEffect DEF Holds, IsOf
  <2>5. s.src \in Handles /\ open[s.src] \in Streams
    BY <2>2 DEF Holds, IsOf, TypeInv, Streams, Finds, Closed
  <2>6. \A h \in Handles : open'[h] = open[h] \/ open'[h].path = source
    BY <2>2, <2>4, <2>5 DEF TypeInv, Streams
  <2> QED
    BY <2>1, <2>4, <2>6 DEF FsPrint, OpenPrint
<1>4. CASE CopyWrite(c)
  <2>1. s.pc = "write"
    BY <1>4 DEF CopyWrite, At
  <2>2. Holds(c, s.dst, "write") /\ open[s.dst].path = OpenedPath(s)
    BY <1>1, <2>1 DEF ClientInv, UseInv, HoldsTarget, Copying
  <2>3. PICK a \in Replies(Write(s.dst, s.block)) : Serve(c, a)
    BY <1>4 DEF CopyWrite
  <2>4. /\ open' = open
        /\ fs' = fs \/ fs' = [fs EXCEPT ![open[s.dst].path].data = Append(@, s.block)]
    <3>1. s.dst \in Handles
      BY <2>2 DEF Holds, IsOf
    <3>2. PICK h \in Handles : h = s.dst
      BY <3>1
    <3>3. PICK b : b = s.block
      OBVIOUS
    <3>4. a \in Replies(Write(h, b))
      BY <3>2, <3>3
    <3>5. /\ open' = open
          /\ fs' = fs \/ fs' = [fs EXCEPT ![open[h].path].data = Append(@, b)]
      BY SMTT(20), <2>3, <3>4, WriteEffect
    <3> QED
      BY <3>2, <3>3, <3>5
  <2>5. OpenedPath(s) \in Writes(s)
    BY <1>1, <2>1 DEF Writes
  <2>6. \A p \in Paths : fs'[p] = fs[p] \/ p = OpenedPath(s)
    BY <2>2, <2>4 DEF TypeInv
  <2> QED
    BY <2>4, <2>5, <2>6 DEF FsPrint, OpenPrint
<1> QED
  BY <1>2, <1>3, <1>4

LEMMA FindPrint ==
  ASSUME FlagsAreNoHandle, TypeInv, NEW c \in Clients, ClientInv(c),
         FindFirstEntry(c) \/ FindNextEntry(c)
  PROVE  FsPrint(c) /\ OpenPrint(c)
<1> DEFINE s == st[c]
<1>1. CASE FindFirstEntry(c)
  <2>1. PICK a \in Replies(FindFirst(c, calls[c], EnumeratedPath(s))) : Serve(c, a)
    BY <1>1 DEF FindFirstEntry
  <2>2. /\ fs' = fs
        /\ \E f \in Searches(c, EnumeratedPath(s)) :
              open' = open \/ \E h \in Handles : Granted(h, f)
    BY <2>1, FindFirstEffect DEF Granted
  <2> QED
    BY <2>2 DEF FsPrint, OpenPrint, Granted, Searches, TypeInv
<1>2. CASE FindNextEntry(c)
  <2>1. s.pc = "find_next"
    BY <1>2 DEF FindNextEntry, At
  <2>2. Holds(c, s.found, "find")
    BY <2>1 DEF ClientInv, UseInv, HoldsFind
  <2>3. PICK a \in Replies(FindNext(s.found)) : Serve(c, a)
    BY <1>2 DEF FindNextEntry
  <2>4. /\ fs' = fs
        /\ open' = open \/ \E e : open' = [open EXCEPT ![s.found].left = @ \ {e}]
    BY <2>2, <2>3, FindNextEffect DEF Holds, IsOf
  <2>5. open[s.found].mode = "find" /\ open[s.found] \in Finds
    BY <2>2 DEF Holds, IsOf, TypeInv, Streams, Finds, Closed
  <2>6. ASSUME NEW h \in Handles
        PROVE  open'[h] = open[h] \/ open'[h].mode = "find"
    <3>1. CASE open' = open
      BY <3>1
    <3>2. CASE \E e : open' = [open EXCEPT ![s.found].left = @ \ {e}]
      <4>1. PICK e : open' = [open EXCEPT ![s.found].left = @ \ {e}]
        BY <3>2
      <4> QED
        BY <2>5, <4>1 DEF TypeInv, Finds
    <3> QED
      BY <2>4, <3>1, <3>2
  <2> QED
    BY <2>4, <2>6 DEF FsPrint, OpenPrint
<1> QED
  BY <1>1, <1>2

LEMMA Footprint ==
  ASSUME FlagsAreNoHandle, TypeInv, NEW c \in Clients, ClientInv(c), StepOf(c)
  PROVE  FsPrint(c) /\ OpenPrint(c)
<1>1. CASE ClientStep(c)
  BY <1>1, ClosePrint, QuietPrint, DeletePrint, OpenPrints, CopyPrint, FindPrint DEF ClientStep
<1> QED
  BY <1>1, ClosePrint, QuietPrint DEF StepOf

-----------------------------------------------------------------------------
(* FileRename keeps its file. *)

\* The paths a call writes or deletes.
Touches(k) ==
    {p \in Paths :
        \/ k.op \in {"open", "delete", "rename"} /\ p = Normalized(k.path)
        \/ k.op = "rename" /\ p = Normalized(k.target)
        \/ k.op = "rmdir" /\ p \in Under(Normalized(k.path))}

\* A file is not renamed to itself under another spelling, a marker is not renamed,
\* and no other client writes or deletes one of the two files.
RenamesApart ==
    \A c \in Clients : \A k \in Calls[c] : k.op = "rename" =>
        LET files == {Normalized(k.path), Normalized(k.target)}
        IN /\ Normalized(k.path) # Normalized(k.target)
           /\ \A p \in files : ~IsMarker(p)
           /\ \A x \in Clients \ {c} : \A other \in Calls[x] : files \cap Touches(other) = {}

\* How far a rename is: the source is as it was, and the target holds the blocks
\* that have been written, until it holds them all.
CopyInv(c) ==
    LET s == st[c]
        blocks == original[c].data
        target == fs[Normalized(s.call.target)]
        pos == open[s.src].pos
    IN s.call.op = "rename" /\ ~At(c, "idle") /\ original[c].kind = "file" =>
          /\ fs[Normalized(s.call.path)] = original[c]
          /\ s.pc \in Marking \cup {"open"} => pos = 0
          /\ s.pc = "read" => pos \in 0 .. Len(blocks) /\ target = File(SubSeq(blocks, 1, pos))
          /\ s.pc = "write" => /\ pos \in 1 .. Len(blocks)
                               /\ s.block = blocks[pos]
                               /\ target = File(SubSeq(blocks, 1, pos - 1))
          /\ s.pc = "delete_src" \/ (s.pc \in {"close_dst", "close_src"} /\ s.status = "OK")
                => target = original[c]

\* The part of the action property that is about the steps of c.
KeepsContent(c) ==
    st[c].call.op = "rename" /\ ~At(c, "idle") /\ original[c].kind = "file" =>
        \E p \in {Normalized(st[c].call.path), Normalized(st[c].call.target)} : fs'[p] = original[c]

LEMMA TouchesAll ==
  ASSUME NEW c \in Clients, ClientInv(c), ~At(c, "idle")
  PROVE  /\ Deletes(st[c]) \subseteq Touches(st[c].call)
         /\ Writes(st[c]) \subseteq Touches(st[c].call)
<1> DEFINE s == st[c]
<1>1. /\ s.pc = "delete" => s.call.op = "delete"
      /\ s.pc \in {"delete_src", "write"} => s.call.op = "rename"
      /\ s.pc \in {"visit", "delete_entry", "delete_as_file"} => s.call.op = "rmdir"
      /\ s.pc = "open" => s.call.op \in {"open", "rename"}
  BY DEF ClientInv, StageInv, Marking, Renaming, Copying, Finding
<1> QED
  BY <1>1 DEF Deletes, Writes, Touches, OpenedPath

\* The files of a rename are left alone by the steps of the others.
LEMMA OthersLeaveFiles ==
  ASSUME RenamesApart, TypeInv, NEW c \in Clients, ClientInv(c), FsPrint(c),
         NEW x \in Clients \ {c}, ClientInv(x),
         st[x].call.op = "rename", ~At(x, "idle"),
         NEW p \in {Normalized(st[x].call.path), Normalized(st[x].call.target)}, fs[p].kind = "file"
  PROVE  fs'[p] = fs[p]
<1>1. st[x].call \in Calls[x]
  BY DEF ClientInv, StageInv
<1>2. p \in Paths /\ ~IsMarker(p)
  BY <1>1, CallsAssumption DEF RenamesApart
<1>3. CASE At(c, "idle")
  BY <1>2, <1>3 DEF FsPrint, At, Deletes, Writes, Marking
<1>4. CASE ~At(c, "idle")
  <2>1. st[c].call \in Calls[c]
    BY <1>4 DEF ClientInv, StageInv
  <2>2. p \notin Touches(st[c].call)
    BY <1>1, <2>1 DEF RenamesApart
  <2>3. p \notin Deletes(st[c]) /\ p \notin Writes(st[c])
    BY <1>4, <2>2, TouchesAll
  <2>4. st[c].pc \in Marking => p # Marker(Head(st[c].dirs))
    <3>1. ASSUME st[c].pc \in Marking
          PROVE  Head(st[c].dirs) \in Paths
      BY <3>1, MarkingStage
    <3> QED
      BY <1>2, <3>1, MarkersAreMarkers
  <2> QED
    BY <1>2, <2>3, <2>4 DEF FsPrint
<1> QED
  BY <1>3, <1>4

LEMMA OthersKeepCopy ==
  ASSUME RenamesApart, TypeInv, NEW c \in Clients, ClientInv(c), FsPrint(c), Frame(c),
         NEW x \in Clients \ {c}, ClientInv(x), CopyInv(x)
  PROVE  CopyInv(x)' /\ KeepsContent(x)
<1> DEFINE s == st[x]
           source == Normalized(s.call.path)
           target == Normalized(s.call.target)
<1>1. st'[x] = st[x] /\ original'[x] = original[x]
  BY DEF Frame
<1> SUFFICES ASSUME s.call.op = "rename", ~At(x, "idle"), original[x].kind = "file"
             PROVE  CopyInv(x)' /\ KeepsContent(x)
  BY <1>1 DEF CopyInv, KeepsContent, At
<1>2. fs[source] = original[x]
  BY DEF CopyInv
<1>3. fs'[source] = fs[source]
  BY <1>2, OthersLeaveFiles
<1>4. fs[target].kind = "file" => fs'[target] = fs[target]
  BY OthersLeaveFiles
<1>5. HoldsSource(s) => open'[s.src] = open[s.src]
  BY DEF ClientInv, UseInv, Holds, IsOf, Frame
<1>6. KeepsContent(x)
  BY <1>2, <1>3 DEF KeepsContent
<1>7. CASE s.pc \in {"read", "write"}
  <2>1. HoldsSource(s) /\ s.pc \notin Marking
    BY <1>7 DEF HoldsSource, Copying, Marking
  <2>2. fs[target].kind = "file"
    BY <1>7 DEF CopyInv, File
  <2> QED
    BY <1>1, <1>2, <1>3, <1>4, <1>5, <1>6, <1>7, <2>1, <2>2 DEF CopyInv, At
<1>8. CASE s.pc \in Marking \cup {"open"}
  <2>1. HoldsSource(s) /\ s.pc \notin {"read", "write", "delete_src", "close_dst", "close_src"}
    BY <1>8 DEF HoldsSource, Marking
  <2> QED
    BY <1>1, <1>2, <1>3, <1>5, <1>6, <1>8, <2>1 DEF CopyInv, At
<1>9. CASE s.pc \notin Marking \cup {"open", "read", "write"}
  BY <1>1, <1>2, <1>3, <1>4, <1>6, <1>9 DEF CopyInv, At
<1> QED
  BY <1>7, <1>8, <1>9

\* A step of a call leaves the call what it is.
LEMMA ContinueCall ==
  ASSUME TypeInv, NEW c \in Clients, NEW t, Continue(c, t), t.call = st[c].call
  PROVE  st'[c].call = st[c].call /\ original' = original
  BY DEF Continue, TypeInv

LEMMA ReturnCall ==
  ASSUME TypeInv, NEW c \in Clients, NEW r, Return(c, r)
  PROVE  st'[c].pc = "idle" /\ st'[c].call = st[c].call /\ original' = original
<1>1. st'[c] = Fresh(st[c].call) /\ original' = original
  BY DEF Return, TypeInv
<1> QED
  BY <1>1 DEF Fresh

LEMMA FailsCall ==
  ASSUME TypeInv, NEW c \in Clients, NEW r, Fails(c, r)
  PROVE  st'[c].call = st[c].call /\ original' = original
<1>1. [st[c] EXCEPT !.pc = "drop_src", !.status = r].call = st[c].call
  BY DEF TypeInv, Fields
<1> QED
  BY <1>1, ContinueCall, ReturnCall DEF Fails

\* What is not a rename needs nothing.
LEMMA NoRename ==
  ASSUME NEW c \in Clients, st[c].call.op # "rename", st'[c].call = st[c].call
  PROVE  CopyInv(c)' /\ KeepsContent(c)
  BY DEF CopyInv, KeepsContent

LEMMA OtherCallStays ==
  ASSUME TypeInv, NEW c \in Clients, ClientInv(c),
         \/ FileDelete(c) \/ FindFirstEntry(c) \/ FindNextEntry(c) \/ CloseFind(c) \/ AbortFind(c)
         \/ DeleteEntry(c) \/ TreeDeleted(c) \/ ExpandDirectory(c) \/ KeepRoot(c)
         \/ DeleteDirectory(c) \/ DeleteAsFile(c)
  PROVE  st[c].call.op # "rename" /\ st'[c].call = st[c].call
<1> DEFINE s == st[c]
<1>1. DOMAIN s = Fields
  BY DEF TypeInv
<1>2. CASE FileDelete(c) \/ AbortFind(c) \/ TreeDeleted(c)
  <2>1. \E r : Return(c, r)
    BY <1>2 DEF FileDelete, AbortFind, TreeDeleted
  <2>2. s.call.op # "rename"
    BY <1>2 DEF FileDelete, AbortFind, TreeDeleted, At, ClientInv, StageInv, Marking, Renaming,
                Copying, Finding
  <2> QED
    BY <2>1, <2>2, ReturnCall
<1>3. CASE FindFirstEntry(c) \/ CloseFind(c)
  <2>1. \/ \E r : Return(c, r)
        \/ \E f : Continue(c, [s EXCEPT !.pc = "find_next", !.found = f])
        \/ \E f : Continue(c, [s EXCEPT !.pc = "close_find", !.found = f])
        \/ Continue(c, [s EXCEPT !.pc = "visit", !.found = 0])
    BY <1>3 DEF FindFirstEntry, CloseFind
  <2>2. \A pc, f : [s EXCEPT !.pc = pc, !.found = f].call = s.call
    BY <1>1 DEF Fields
  <2>3. s.call.op # "rename"
    BY <1>3 DEF FindFirstEntry, CloseFind, At, ClientInv, StageInv, Marking, Renaming,
                Copying, Finding
  <2>4. (\E r : Return(c, r)) \/ \E t : Continue(c, t) /\ t.call = s.call
    BY <2>1, <2>2, Zenon
  <2> QED
    BY <2>3, <2>4, ReturnCall, ContinueCall
<1>4. CASE FindNextEntry(c)
  <2>1. s.call.op # "rename"
    BY <1>4 DEF FindNextEntry, At, ClientInv, StageInv, Marking, Renaming, Copying, Finding
  <2>2. \A p, kind : Enumerated(s, p, kind).call = s.call
    BY <1>1 DEF Enumerated, Listed, Push, Fields
  <2>3. \/ \E p, kind : Continue(c, Enumerated(s, p, kind))
        \/ Continue(c, [s EXCEPT !.pc = "close_find"])
        \/ \E r : Continue(c, [s EXCEPT !.pc = "abort_find", !.status = r])
    BY <1>4 DEF FindNextEntry
  <2>4. /\ [s EXCEPT !.pc = "close_find"].call = s.call
        /\ \A r : [s EXCEPT !.pc = "abort_find", !.status = r].call = s.call
    BY <1>1 DEF Fields
  <2>5. \E t : Continue(c, t) /\ t.call = s.call
    BY <2>2, <2>3, <2>4, Zenon
  <2> QED
    BY <2>1, <2>5, ContinueCall
<1>5. CASE DeleteEntry(c) \/ DeleteAsFile(c)
  <2>1. \/ \E r : Return(c, r)
        \/ Continue(c, [s EXCEPT !.pc = "find_next", !.entry = <<>>])
        \/ Continue(c, [s EXCEPT !.pc = "visit", !.entry = <<>>])
    BY <1>5 DEF DeleteEntry, DeleteAsFile
  <2>2. \A pc : [s EXCEPT !.pc = pc, !.entry = <<>>].call = s.call
    BY <1>1 DEF Fields
  <2>3. s.call.op # "rename"
    BY <1>5 DEF DeleteEntry, DeleteAsFile, At, ClientInv, StageInv, Marking, Renaming, Copying,
                Finding
  <2> QED
    BY <2>1, <2>2, <2>3, ReturnCall, ContinueCall
<1>6. CASE ExpandDirectory(c) \/ KeepRoot(c) \/ DeleteDirectory(c)
  <2>1. s.call.op # "rename"
    BY <1>6 DEF ExpandDirectory, KeepRoot, DeleteDirectory, At, ClientInv, StageInv, Marking,
                Renaming, Copying, Finding
  <2>2. Pop(s).call = s.call /\ DOMAIN Pop(s) = Fields
    BY <1>1 DEF Pop, Fields
  <2>3. \A n : Push(Pop(s), n).call = s.call /\ DOMAIN Push(Pop(s), n) = Fields
    BY <2>2 DEF Push, Fields
  <2>4. /\ \A n, m : [Push(Pop(s), n) EXCEPT !.pc = "find", !.node = m].call = s.call
        /\ \A p : [Pop(s) EXCEPT !.pc = "delete_as_file", !.entry = p].call = s.call
    BY <2>2, <2>3 DEF Fields
  <2>5. \/ \E r : Return(c, r)
        \/ Continue(c, Pop(s))
        \/ \E p : Continue(c, [Pop(s) EXCEPT !.pc = "delete_as_file", !.entry = p])
        \/ \E n, m : Continue(c, [Push(Pop(s), n) EXCEPT !.pc = "find", !.node = m])
    BY <1>6, Zenon DEF ExpandDirectory, KeepRoot, DeleteDirectory
  <2> QED
    BY <2>1, <2>2, <2>4, <2>5, ReturnCall, ContinueCall
<1> QED
  BY <1>2, <1>3, <1>4, <1>5, <1>6

\* In a rename.
Renames(c) == st[c].call.op = "rename" /\ ~At(c, "idle") /\ original[c].kind = "file"
SourceOf(c) == Normalized(st[c].call.path)
TargetOf(c) == Normalized(st[c].call.target)

LEMMA RenameFiles ==
  ASSUME RenamesApart, TypeInv, NEW c \in Clients, ClientInv(c), CopyInv(c), Renames(c)
  PROVE  /\ SourceOf(c) \in Paths /\ TargetOf(c) \in Paths /\ SourceOf(c) # TargetOf(c)
         /\ ~IsMarker(SourceOf(c)) /\ ~IsMarker(TargetOf(c))
         /\ OpenedPath(st[c]) = TargetOf(c)
         /\ fs[SourceOf(c)] = original[c] /\ original[c] = File(original[c].data)
         /\ original[c].data \in Seq(Blocks)
<1>1. st[c].call \in Calls[c]
  BY DEF ClientInv, StageInv, Renames
<1>2. /\ SourceOf(c) \in Paths /\ TargetOf(c) \in Paths /\ SourceOf(c) # TargetOf(c)
      /\ ~IsMarker(SourceOf(c)) /\ ~IsMarker(TargetOf(c))
  BY <1>1, CallsAssumption DEF RenamesApart, Renames, SourceOf, TargetOf
<1>3. fs[SourceOf(c)] = original[c]
  BY DEF CopyInv, Renames, SourceOf
<1>4. original[c] \in Entries /\ original[c].kind = "file"
  BY <1>2, <1>3 DEF TypeInv, Renames
<1>5. original[c] = File(original[c].data) /\ original[c].data \in Seq(Blocks)
  BY <1>4 DEF File, Entries
<1> QED
  BY <1>2, <1>3, <1>5 DEF OpenedPath, Renames, TargetOf

\* The source stays until it is deleted, the target but when it is opened or written.
LEMMA FilesStay ==
  ASSUME RenamesApart, TypeInv, NEW c \in Clients, ClientInv(c), CopyInv(c), Renames(c), FsPrint(c),
         st[c].pc # "delete_src"
  PROVE  /\ fs'[SourceOf(c)] = original[c] /\ KeepsContent(c)
         /\ st[c].pc \notin {"open", "write"} /\ fs[TargetOf(c)].kind = "file"
               => fs'[TargetOf(c)] = fs[TargetOf(c)]
<1> DEFINE s == st[c]
<1>1. /\ SourceOf(c) \in Paths /\ TargetOf(c) \in Paths /\ SourceOf(c) # TargetOf(c)
      /\ ~IsMarker(SourceOf(c)) /\ ~IsMarker(TargetOf(c))
      /\ OpenedPath(s) = TargetOf(c) /\ fs[SourceOf(c)] = original[c]
  BY RenameFiles
<1>2. Deletes(s) = {}
  BY DEF Deletes, ClientInv, StageInv, Renames, Marking, Renaming, Copying, Finding
<1>3. \A p \in {SourceOf(c), TargetOf(c)} : ~(s.pc \in Marking /\ p = Marker(Head(s.dirs)))
  <2>1. ASSUME s.pc \in Marking
        PROVE  Head(s.dirs) \in Paths
    BY <2>1, MarkingStage
  <2> QED
    BY <1>1, <2>1, MarkersAreMarkers
<1>4. SourceOf(c) \notin Writes(s) /\ (s.pc \notin {"open", "write"} => TargetOf(c) \notin Writes(s))
  BY <1>1 DEF Writes
<1>5. fs'[SourceOf(c)] = original[c]
  BY <1>1, <1>2, <1>3, <1>4 DEF FsPrint, Renames
<1>6. s.pc \notin {"open", "write"} /\ fs[TargetOf(c)].kind = "file"
         => fs'[TargetOf(c)] = fs[TargetOf(c)]
  BY <1>1, <1>2, <1>3, <1>4 DEF FsPrint
<1> QED
  BY <1>5, <1>6 DEF KeepsContent, SourceOf

\* Before the copy, and whenever the rename fails, the source is all that matters.
LEMMA StillBefore ==
  ASSUME RenamesApart, TypeInv, NEW c \in Clients, ClientInv(c), CopyInv(c), FsPrint(c),
         st[c].pc \in Marking \cup {"open"},
         st[c].call.op = "rename" => open'[st[c].src] = open[st[c].src],
         \/ \E t : /\ Continue(c, t) /\ t.call = st[c].call /\ t.src = st[c].src
                   /\ t.pc \in Marking \cup {"open"}
         \/ \E r : Fails(c, r)
         \/ \E r : Return(c, r)
  PROVE  CopyInv(c)' /\ KeepsContent(c)
<1> DEFINE s == st[c]
<1>1. st'[c].call = s.call /\ original' = original
  BY ContinueCall, FailsCall, ReturnCall
<1>2. CASE s.call.op # "rename"
  BY <1>1, <1>2, NoRename
<1>3. CASE s.call.op = "rename" /\ original[c].kind # "file"
  BY <1>1, <1>3 DEF CopyInv, KeepsContent
<1>4. CASE s.call.op = "rename" /\ original[c].kind = "file"
  <2>1. Renames(c)
    BY <1>4 DEF Renames, At, Marking
  <2>2. fs'[SourceOf(c)] = original[c] /\ KeepsContent(c)
    BY <2>1, FilesStay DEF Marking
  <2>3. \/ st'[c].pc \in {"idle", "drop_src"}
        \/ st'[c].src = s.src /\ st'[c].pc \in Marking \cup {"open"}
    <3>1. \A r : [s EXCEPT !.pc = "drop_src", !.status = r].pc = "drop_src"
      BY DEF TypeInv, Fields
    <3>2. ASSUME NEW r, Fails(c, r)
          PROVE  st'[c].pc = "drop_src"
      <4>1. st'[c] = [s EXCEPT !.pc = "drop_src", !.status = r]
        BY <1>4, <3>2 DEF Fails, Continue, TypeInv
      <4> QED
        BY <3>1, <4>1
    <3> QED
      BY <3>2, ReturnCall DEF Continue, TypeInv
  <2>4. open[s.src].pos = 0
    BY <2>1 DEF CopyInv, Renames
  <2> QED
    BY <1>1, <1>4, <2>2, <2>3, <2>4 DEF CopyInv, SourceOf, At, Marking
<1> QED
  BY <1>2, <1>3, <1>4

LEMMA MarkersKeepCopy ==
  ASSUME RenamesApart, TypeInv, NEW c \in Clients, ClientInv(c), CopyInv(c), FsPrint(c),
         CreateMarker(c) \/ AppendMarker(c) \/ CloseMarker(c) \/ DeleteMarker(c)
  PROVE  CopyInv(c)' /\ KeepsContent(c)
<1> DEFINE s == st[c]
<1>1. s.pc \in Marking /\ DOMAIN s = Fields
  BY DEF CreateMarker, AppendMarker, CloseMarker, DeleteMarker, At, Marking, TypeInv
<1>2. /\ s.call.op = "rename" => Holds(c, s.src, "read")
      /\ Marker(Head(s.dirs)) \in Paths
  BY <1>1, MarkingStage
<1>3. CASE CreateMarker(c) \/ AppendMarker(c)
  <2> DEFINE Answered(a) == /\ Serve(c, a)
                            /\ \/ Continue(c, [s EXCEPT !.pc = "close_marker", !.marker = a.val])
                               \/ Continue(c, [s EXCEPT !.pc = "append_marker"])
                               \/ Fails(c, a.ret)
  <2>1. PICK append \in BOOLEAN :
           \E a \in Replies(OpenToWrite(c, calls[c], Marker(Head(s.dirs)), append)) : Answered(a)
    BY <1>3 DEF CreateMarker, AppendMarker, OpenMarker
  <2>2. PICK a \in Replies(OpenToWrite(c, calls[c], Marker(Head(s.dirs)), append)) : Answered(a)
    BY <2>1
  <2>3. open' = open \/ \E h \in Handles : Granted(h, Stream("write", c, Marker(Head(s.dirs))))
    BY <1>2, <2>2, OpenToWriteEffect DEF Granted
  <2>4. s.call.op = "rename" => open'[s.src] = open[s.src]
    BY <1>2, <2>3 DEF Granted, Holds, IsOf, TypeInv
  <2>5. \/ \E t : /\ Continue(c, t) /\ t.call = s.call /\ t.src = s.src
                  /\ t.pc \in Marking \cup {"open"}
        \/ \E r : Fails(c, r)
    <3>1. PICK t : t = [s EXCEPT !.pc = "close_marker", !.marker = a.val]
      OBVIOUS
    <3>2. PICK u : u = [s EXCEPT !.pc = "append_marker"]
      OBVIOUS
    <3>3. t.call = s.call /\ t.src = s.src /\ t.pc = "close_marker"
      BY <1>1, <3>1 DEF Fields
    <3>4. u.call = s.call /\ u.src = s.src /\ u.pc = "append_marker"
      BY <1>1, <3>2 DEF Fields
    <3> QED
      BY <2>2, <3>1, <3>2, <3>3, <3>4 DEF Marking
  <2> QED
    BY <1>1, <2>4, <2>5, StillBefore
<1>4. CASE CloseMarker(c)
  <2>1. PICK a \in Replies(Close(s.marker)) :
           /\ Serve(c, a)
           /\ \/ Continue(c, [s EXCEPT !.pc = "delete_marker", !.marker = 0])
              \/ Fails(c, a.ret)
    BY <1>4 DEF CloseMarker
  <2>2. Holds(c, s.marker, "write")
    BY <1>4 DEF CloseMarker, At, ClientInv, UseInv, HoldsMarker
  <2>3. open' = open \/ open' = [open EXCEPT ![s.marker] = Closed]
    BY <2>1, CloseEffect DEF TypeInv
  <2>4. s.call.op = "rename" => open'[s.src] = open[s.src]
    BY <1>2, <2>2, <2>3 DEF Holds, IsOf, TypeInv
  <2>5. \/ \E t : /\ Continue(c, t) /\ t.call = s.call /\ t.src = s.src
                  /\ t.pc \in Marking \cup {"open"}
        \/ \E r : Fails(c, r)
    <3>1. PICK t : t = [s EXCEPT !.pc = "delete_marker", !.marker = 0]
      OBVIOUS
    <3>2. t.call = s.call /\ t.src = s.src /\ t.pc = "delete_marker"
      BY <1>1, <3>1 DEF Fields
    <3> QED
      BY <2>1, <3>1, <3>2 DEF Marking
  <2> QED
    BY <1>1, <2>4, <2>5, StillBefore
<1>5. CASE DeleteMarker(c)
  <2>1. PICK a \in Replies(DeleteFile(Marker(Head(s.dirs)))) :
           Serve(c, a) /\ (DirCreated(c) \/ Fails(c, a.ret))
    BY <1>5 DEF DeleteMarker
  <2>2. open' = open
    BY <1>2, <2>1, DeleteEffect
  <2>3. \/ \E t : /\ Continue(c, t) /\ t.call = s.call /\ t.src = s.src
                  /\ t.pc \in Marking \cup {"open"}
        \/ \E r : Fails(c, r)
        \/ \E r : Return(c, r)
    <3>1. PICK t : t = [s EXCEPT !.dirs = Tail(@)]
      OBVIOUS
    <3>2. DOMAIN t = Fields /\ t.call = s.call /\ t.src = s.src
      BY <1>1, <3>1 DEF Fields
    <3>3. PICK u : u = [t EXCEPT !.pc = "mark"]
      OBVIOUS
    <3>4. PICK v : v = [t EXCEPT !.pc = "open"]
      OBVIOUS
    <3>5. /\ u.call = s.call /\ u.src = s.src /\ u.pc = "mark"
          /\ v.call = s.call /\ v.src = s.src /\ v.pc = "open"
      BY <3>2, <3>3, <3>4 DEF Fields
    <3>6. DirCreated(c) => Continue(c, u) \/ Continue(c, v) \/ Return(c, "OK")
      BY <3>1, <3>3, <3>4 DEF DirCreated
    <3> QED
      BY <2>1, <3>5, <3>6 DEF Marking
  <2> QED
    BY <1>1, <2>2, <2>3, StillBefore
<1> QED
  BY <1>3, <1>4, <1>5

LEMMA CallBegins ==
  ASSUME TypeInv, NEW c \in Clients, ClientInv(c), CopyInv(c), FsPrint(c),
         (\E k \in Calls[c] : StartCall(c, k)) \/ ReadPlatformId(c) \/ \E h \in held[c] : FileClose(c, h)
  PROVE  CopyInv(c)' /\ KeepsContent(c)
<1>1. ASSUME NEW k, k.op = "rename"
      PROVE  Started(k).pc = "open_src" /\ Started(k).call = k
  BY <1>1 DEF Started, Fresh, FirstStep
<1>2. \A k : /\ Fresh(k).pc = "idle" /\ Fresh(k).call = k
             /\ [Fresh(k) EXCEPT !.pc = "platform"].pc = "platform"
             /\ [Fresh(k) EXCEPT !.pc = "platform"].call = k
             /\ Started(k).call = k
  BY DEF Fresh, Started
<1>3. ASSUME NEW k \in Calls[c], StartCall(c, k)
      PROVE  CopyInv(c)' /\ KeepsContent(c)
  <2>1. /\ st[c].pc = "idle" /\ fs' = fs /\ original'[c] = fs[Normalized(k.path)]
        /\ \/ st'[c] = Fresh(k) \/ st'[c] = Started(k)
           \/ st'[c] = [Fresh(k) EXCEPT !.pc = "platform"]
    <3>1. st[c].pc = "idle" /\ fs' = fs /\ original'[c] = fs[Normalized(k.path)]
      BY <1>3 DEF StartCall, At, NoRequest, TypeInv
    <3>2. \/ st'[c] = Fresh(k) \/ st'[c] = Started(k)
          \/ st'[c] = [Fresh(k) EXCEPT !.pc = "platform"]
      BY <1>3 DEF StartCall, TypeInv
    <3> QED
      BY <3>1, <3>2
  <2>2. st'[c].call = k /\ (k.op = "rename" => st'[c].pc \in {"idle", "platform", "open_src"})
    <3>1. /\ Fresh(k).pc = "idle" /\ Fresh(k).call = k /\ Started(k).call = k
          /\ [Fresh(k) EXCEPT !.pc = "platform"].pc = "platform"
          /\ [Fresh(k) EXCEPT !.pc = "platform"].call = k
          /\ k.op = "rename" => Started(k).pc = "open_src"
      BY <1>1, <1>2
    <3>2. PICK f, g, h : f = Fresh(k) /\ g = Started(k) /\ h = [Fresh(k) EXCEPT !.pc = "platform"]
      OBVIOUS
    <3> QED
      BY <2>1, <3>1, <3>2
  <2> QED
    BY <2>1, <2>2 DEF CopyInv, KeepsContent, At, Marking
<1>4. CASE ReadPlatformId(c)
  <2>1. st[c].pc = "platform"
    BY <1>4 DEF ReadPlatformId, At
  <2>2. Normalized(st[c].call.path) \in Paths
    BY <2>1, CallsAssumption DEF ClientInv, StageInv, At
  <2>3. \A p \in Paths : fs[p].kind = "file" => fs'[p] = fs[p]
    BY <2>1 DEF FsPrint, Deletes, Writes, Marking
  <2>4. \/ st'[c] = Started(st[c].call) /\ original' = original
        \/ \E r : Return(c, r)
    BY <1>4 DEF ReadPlatformId, TypeInv
  <2>5. /\ st'[c].call = st[c].call /\ original' = original
        /\ st[c].call.op = "rename" => st'[c].pc \in {"idle", "open_src"}
    BY <1>1, <1>2, <2>4, ReturnCall
  <2> QED
    BY <2>1, <2>2, <2>3, <2>5 DEF CopyInv, KeepsContent, At, Marking
<1>5. ASSUME NEW h \in held[c], FileClose(c, h)
      PROVE  CopyInv(c)' /\ KeepsContent(c)
  BY <1>5 DEF FileClose, At, CopyInv, KeepsContent
<1> QED
  BY <1>3, <1>4, <1>5

LEMMA FileOpenCopies ==
  ASSUME RenamesApart, TypeInv, NEW c \in Clients, ClientInv(c), CopyInv(c), FsPrint(c), FileOpen(c)
  PROVE  CopyInv(c)' /\ KeepsContent(c)
<1> DEFINE s == st[c]
<1>1. s.pc = "open" /\ s.call \in Calls[c] /\ s.call.op \in {"open", "rename"} /\ DOMAIN s = Fields
  BY DEF FileOpen, At, ClientInv, StageInv, Marking, Renaming, Copying, Finding, TypeInv
<1>2. s.call.op = "rename" => Holds(c, s.src, "read")
  BY <1>1 DEF ClientInv, UseInv, HoldsSource
<1> DEFINE p == OpenedPath(s)
<1>3. PICK a \in Replies(OpenToWrite(c, calls[c], p, FALSE)) :
         /\ Serve(c, a)
         /\ \/ /\ a.ret = "OK" /\ s.call.op = "rename"
               /\ Continue(c, [s EXCEPT !.pc = "read", !.dst = a.val])
            \/ /\ s.call.op = "open" /\ st' = [st EXCEPT ![c] = Fresh(@.call)]
            \/ Continue(c, [s EXCEPT !.pc = "mark", !.parents = TRUE, !.dirs = WithAncestors(Parent(p))])
            \/ Fails(c, a.ret)
  BY DEF FileOpen
<1>4. /\ open' = open \/ \E h \in Handles : Granted(h, Stream("write", c, p))
      /\ a.ret = "OK" => fs'[p] = File(<<>>)
  <2>1. p \in Paths
    BY <1>1, OpenedPathKnown
  <2> QED
    BY <1>3, <2>1, OpenToWriteEffect DEF Granted
<1>5. s.call.op = "rename" => open'[s.src] = open[s.src]
  BY <1>2, <1>4 DEF Granted, Holds, IsOf, TypeInv
<1>6. CASE a.ret = "OK" /\ s.call.op = "rename" /\ Continue(c, [s EXCEPT !.pc = "read", !.dst = a.val])
  <2>1. PICK t : t = [s EXCEPT !.pc = "read", !.dst = a.val]
    OBVIOUS
  <2>2. t.pc = "read" /\ t.call = s.call /\ t.src = s.src
    BY <1>1, <2>1 DEF Fields
  <2>3. st'[c] = t /\ original' = original
    BY <1>6, <2>1 DEF Continue, TypeInv
  <2>4. CASE ~Renames(c)
    BY <1>1, <1>6, <2>2, <2>3, <2>4 DEF CopyInv, KeepsContent, Renames, At
  <2>5. CASE Renames(c)
    <3>1. p = TargetOf(c) /\ original[c].data \in Seq(Blocks)
      BY <2>5, RenameFiles
    <3>2. fs'[SourceOf(c)] = original[c] /\ KeepsContent(c)
      BY <1>1, <2>5, FilesStay
    <3>3. open'[s.src].pos = 0
      BY <1>1, <1>5, <1>6, <2>5 DEF CopyInv, Renames
    <3>4. 0 \in 0 .. Len(original[c].data) /\ SubSeq(original[c].data, 1, 0) = <<>>
      BY <3>1
    <3> QED
      BY <1>4, <1>6, <2>2, <2>3, <3>1, <3>2, <3>3, <3>4
         DEF CopyInv, SourceOf, TargetOf, Marking
  <2> QED
    BY <2>4, <2>5
<1>7. CASE s.call.op = "open" /\ st' = [st EXCEPT ![c] = Fresh(@.call)]
  <2>1. st'[c].call = s.call
    BY <1>7 DEF Fresh, TypeInv
  <2> QED
    BY <1>7, <2>1, NoRename
<1>8. CASE Continue(c, [s EXCEPT !.pc = "mark", !.parents = TRUE, !.dirs = WithAncestors(Parent(p))])
  <2>1. PICK t : t = [s EXCEPT !.pc = "mark", !.parents = TRUE, !.dirs = WithAncestors(Parent(p))]
    OBVIOUS
  <2>2. t.pc = "mark" /\ t.call = s.call /\ t.src = s.src
    BY <1>1, <2>1 DEF Fields
  <2>3. Continue(c, t) /\ t.pc \in Marking
    BY <1>8, <2>1, <2>2 DEF Marking
  <2> QED
    BY <1>1, <1>5, <2>2, <2>3, StillBefore
<1>9. CASE Fails(c, a.ret)
  BY <1>1, <1>5, <1>9, StillBefore
<1> QED
  BY <1>3, <1>6, <1>7, <1>8, <1>9

\* The steps of a rename that leave the files alone.
LEMMA CloseCopies ==
  ASSUME RenamesApart, TypeInv, NEW c \in Clients, ClientInv(c), CopyInv(c), FsPrint(c),
         OpenSource(c) \/ DropSource(c) \/ CloseTarget(c) \/ CloseSource(c)
  PROVE  CopyInv(c)' /\ KeepsContent(c)
<1> DEFINE s == st[c]
<1>1. /\ s.pc \in {"open_src", "drop_src", "close_dst", "close_src"}
      /\ s.call.op = "rename" /\ DOMAIN s = Fields /\ ~At(c, "idle")
  BY DEF OpenSource, DropSource, CloseTarget, CloseSource, At, ClientInv, StageInv, Marking,
         Finding, TypeInv
<1>2. /\ st'[c].call = s.call /\ original' = original
      /\ \/ st'[c].pc = "idle"
         \/ /\ st'[c].pc = "open" /\ OpenSource(c)
            /\ \E h : st'[c].src = h /\ Granted(h, Stream("read", c, Normalized(s.call.path)))
         \/ st'[c].pc = "close_src" /\ (st'[c].status = "OK" => s.status = "OK") /\ s.pc = "close_dst"
         \/ st'[c].pc = "delete_src" /\ s.status = "OK" /\ s.pc = "close_src"
  <2>1. CASE OpenSource(c)
    <3>1. PICK a \in Replies(OpenToRead(c, calls[c], Normalized(s.call.path))) :
             /\ Serve(c, a)
             /\ \/ a.ret = "OK" /\ Continue(c, [s EXCEPT !.pc = "open", !.src = a.val])
                \/ Return(c, a.ret)
      BY <2>1 DEF OpenSource
    <3>2. Normalized(s.call.path) \in Paths
      BY <1>1, CallsAssumption DEF ClientInv, StageInv
    <3>3. a.ret = "OK" => Granted(a.val, Stream("read", c, Normalized(s.call.path)))
      BY <3>1, <3>2, OpenToReadEffect
    <3>4. CASE a.ret = "OK" /\ Continue(c, [s EXCEPT !.pc = "open", !.src = a.val])
      <4>1. PICK t : t = [s EXCEPT !.pc = "open", !.src = a.val]
        OBVIOUS
      <4>2. t.pc = "open" /\ t.src = a.val /\ t.call = s.call
        BY <1>1, <4>1 DEF Fields
      <4>3. st'[c] = t /\ original' = original
        BY <3>4, <4>1 DEF Continue, TypeInv
      <4> QED
        BY <2>1, <3>3, <3>4, <4>2, <4>3
    <3>5. CASE Return(c, a.ret)
      BY <3>5, ReturnCall
    <3> QED
      BY <3>1, <3>4, <3>5
  <2>2. CASE DropSource(c)
    BY <2>2, ReturnCall DEF DropSource
  <2>3. CASE CloseTarget(c)
    <3>1. PICK r : Continue(c, [s EXCEPT !.pc = "close_src", !.status = FirstError(@, r)])
      BY <2>3 DEF CloseTarget
    <3>2. PICK t : t = [s EXCEPT !.pc = "close_src", !.status = FirstError(@, r)]
      OBVIOUS
    <3>3. t.pc = "close_src" /\ t.call = s.call /\ (t.status = "OK" => s.status = "OK")
      BY <1>1, <3>2 DEF Fields, FirstError
    <3>4. st'[c] = t /\ original' = original
      BY <3>1, <3>2 DEF Continue, TypeInv
    <3> QED
      BY <2>3, <3>3, <3>4 DEF CloseTarget, At
  <2>4. CASE CloseSource(c)
    <3>1. s.pc = "close_src" /\ \E r : \/ /\ FirstError(s.status, r) = "OK"
                                          /\ Continue(c, [s EXCEPT !.pc = "delete_src"])
                                       \/ Return(c, r)
      BY <2>4 DEF CloseSource, At
    <3>2. CASE s.status = "OK" /\ Continue(c, [s EXCEPT !.pc = "delete_src"])
      <4>1. PICK t : t = [s EXCEPT !.pc = "delete_src"]
        OBVIOUS
      <4>2. t.pc = "delete_src" /\ t.call = s.call
        BY <1>1, <4>1 DEF Fields
      <4>3. st'[c] = t /\ original' = original
        BY <3>2, <4>1 DEF Continue, TypeInv
      <4> QED
        BY <3>1, <3>2, <4>2, <4>3
    <3> QED
      BY <3>1, <3>2, ReturnCall DEF FirstError
  <2> QED
    BY <2>1, <2>2, <2>3, <2>4
<1>3. CASE ~Renames(c)
  BY <1>1, <1>2, <1>3 DEF CopyInv, KeepsContent, Renames
<1>4. CASE Renames(c)
  <2>1. fs'[SourceOf(c)] = original[c] /\ KeepsContent(c)
    BY <1>1, <1>4, FilesStay
  <2>2. s.pc \in {"close_dst", "close_src"} /\ s.status = "OK"
           => fs[TargetOf(c)] = original[c] /\ fs'[TargetOf(c)] = original[c]
    <3>1. s.pc \in {"close_dst", "close_src"} /\ s.status = "OK" => fs[TargetOf(c)] = original[c]
      BY <1>4 DEF CopyInv, Renames, TargetOf
    <3> QED
      BY <1>4, <3>1, FilesStay DEF Renames
  <2>3. CASE st'[c].pc = "idle"
    BY <2>1, <2>3 DEF CopyInv, At
  <2>4. CASE \E h : st'[c].src = h /\ Granted(h, Stream("read", c, Normalized(s.call.path)))
             /\ st'[c].pc = "open"
    <3>1. open'[st'[c].src].pos = 0
      BY <2>4 DEF Granted, Stream, TypeInv
    <3> QED
      BY <1>2, <2>1, <2>4, <3>1 DEF CopyInv, SourceOf, Marking
  <2>5. CASE st'[c].pc = "close_src" /\ (st'[c].status = "OK" => s.status = "OK") /\ s.pc = "close_dst"
    BY <1>2, <2>1, <2>2, <2>5 DEF CopyInv, SourceOf, TargetOf, Marking
  <2>6. CASE st'[c].pc = "delete_src" /\ s.status = "OK" /\ s.pc = "close_src"
    BY <1>2, <2>1, <2>2, <2>6 DEF CopyInv, SourceOf, TargetOf, Marking
  <2> QED
    BY <1>2, <2>3, <2>4, <2>5, <2>6
<1> QED
  BY <1>3, <1>4

LEMMA DeleteSourceCopies ==
  ASSUME RenamesApart, TypeInv, NEW c \in Clients, ClientInv(c), CopyInv(c), DeleteSource(c)
  PROVE  CopyInv(c)' /\ KeepsContent(c)
<1>1. st'[c].pc = "idle" /\ st[c].pc = "delete_src" /\ st[c].call.op = "rename"
  BY ReturnCall DEF DeleteSource, At, ClientInv, StageInv, Marking, Finding
<1>2. CopyInv(c)'
  BY <1>1 DEF CopyInv, At
<1>3. ASSUME Renames(c)
      PROVE  fs'[TargetOf(c)] = original[c]
  <2>1. /\ SourceOf(c) \in Paths /\ TargetOf(c) \in Paths /\ SourceOf(c) # TargetOf(c)
        /\ fs[TargetOf(c)] = original[c]
    BY <1>1, <1>3, RenameFiles DEF CopyInv, Renames, TargetOf
  <2>2. \E a \in Replies(DeleteFile(SourceOf(c))) : Serve(c, a)
    BY DEF DeleteSource, SourceOf
  <2>3. fs' = fs \/ fs' = [fs EXCEPT ![SourceOf(c)] = Absent]
    BY <2>1, <2>2, DeleteEffect
  <2> QED
    BY <2>1, <2>3 DEF TypeInv
<1> QED
  BY <1>2, <1>3 DEF KeepsContent, Renames, TargetOf

\* The copy.
LEMMA Blockwise ==
  ASSUME NEW S, NEW b \in Seq(S), NEW n \in 1 .. Len(b)
  PROVE  Append(SubSeq(b, 1, n - 1), b[n]) = SubSeq(b, 1, n)
  OBVIOUS

LEMMA WholeCopy ==
  ASSUME NEW S, NEW b \in Seq(S)
  PROVE  SubSeq(b, 1, Len(b)) = b
  OBVIOUS

LEMMA ReadCopies ==
  ASSUME RenamesApart, TypeInv, NEW c \in Clients, ClientInv(c), CopyInv(c), FsPrint(c), CopyRead(c)
  PROVE  CopyInv(c)' /\ KeepsContent(c)
<1> DEFINE s == st[c]
           blocks == original[c].data
           pos == open[s.src].pos
<1>1. s.pc = "read" /\ s.call.op = "rename" /\ DOMAIN s = Fields
  BY DEF CopyRead, At, ClientInv, StageInv, Marking, Finding, TypeInv
<1>2. Holds(c, s.src, "read") /\ open[s.src].path = SourceOf(c)
  BY <1>1 DEF ClientInv, UseInv, HoldsSource, Copying, SourceOf
<1>3. s.src \in Handles /\ open[s.src].mode = "read" /\ open[s.src] \in Streams
  BY <1>2 DEF Holds, IsOf, TypeInv, Streams, Finds, Closed
<1>4. PICK a \in Replies(Read(s.src)) :
         /\ Serve(c, a)
         /\ \/ a.ret = "OK" /\ a.val # 0 /\ Continue(c, [s EXCEPT !.pc = "write", !.block = a.val])
            \/ ~(a.ret = "OK" /\ a.val # 0)
               /\ Continue(c, [s EXCEPT !.pc = "close_dst", !.status = a.ret])
  BY DEF CopyRead
<1>5. /\ fs' = fs
      /\ \/ /\ a.ret = "OK" /\ pos < Len(fs[open[s.src].path].data)
            /\ a.val = fs[open[s.src].path].data[pos + 1]
            /\ open' = [open EXCEPT ![s.src].pos = pos + 1]
         \/ a.ret = "OK" /\ pos >= Len(fs[open[s.src].path].data) /\ a.val = 0
         \/ a.ret = "FAIL"
  BY <1>3, <1>4, ReadEffect
<1>6. \/ /\ a.ret = "OK" /\ a.val # 0
         /\ st'[c].pc = "write" /\ st'[c].block = a.val
      \/ /\ ~(a.ret = "OK" /\ a.val # 0)
         /\ st'[c].pc = "close_dst" /\ st'[c].status = a.ret
  <2>1. PICK t : t = [s EXCEPT !.pc = "write", !.block = a.val]
    OBVIOUS
  <2>2. PICK u : u = [s EXCEPT !.pc = "close_dst", !.status = a.ret]
    OBVIOUS
  <2>3. t.pc = "write" /\ t.block = a.val /\ u.pc = "close_dst" /\ u.status = a.ret
    BY <1>1, <2>1, <2>2 DEF Fields
  <2> QED
    BY <1>4, <2>1, <2>2, <2>3 DEF Continue, TypeInv
<1>7. st'[c].call = s.call /\ original' = original /\ st'[c].src = s.src
  <2>1. PICK t : t = [s EXCEPT !.pc = "write", !.block = a.val]
    OBVIOUS
  <2>2. PICK u : u = [s EXCEPT !.pc = "close_dst", !.status = a.ret]
    OBVIOUS
  <2>3. t.call = s.call /\ t.src = s.src /\ u.call = s.call /\ u.src = s.src
    BY <1>1, <2>1, <2>2 DEF Fields
  <2> QED
    BY <1>4, <2>1, <2>2, <2>3 DEF Continue, TypeInv
<1>8. CASE ~Renames(c)
  BY <1>1, <1>7, <1>8 DEF CopyInv, KeepsContent, Renames, At
<1>9. CASE Renames(c)
  <2>1. /\ blocks \in Seq(Blocks) /\ original[c] = File(blocks)
        /\ fs[SourceOf(c)] = original[c] /\ fs[SourceOf(c)].data = blocks
    BY <1>9, RenameFiles DEF File
  <2>2. KeepsContent(c) /\ fs'[SourceOf(c)] = original[c]
    BY <1>1, <1>9, FilesStay
  <2>3. pos \in 0 .. Len(blocks) /\ fs[TargetOf(c)] = File(SubSeq(blocks, 1, pos))
    BY <1>1, <1>9 DEF CopyInv, Renames, TargetOf
  <2>4. Len(blocks) \in Nat
    BY <2>1
  <2>5. CASE st'[c].pc = "write"
    <3>1. /\ pos < Len(blocks) /\ st'[c].block = blocks[pos + 1]
          /\ open' = [open EXCEPT ![s.src].pos = pos + 1]
      BY <1>2, <1>5, <1>6, <2>1, <2>5
    <3>2. open'[s.src].pos = pos + 1
      BY <1>3, <3>1 DEF TypeInv, Streams
    <3>3. pos + 1 \in 1 .. Len(blocks) /\ (pos + 1) - 1 = pos
      BY <2>3, <2>4, <3>1
    <3> QED
      BY <1>5, <1>7, <2>2, <2>3, <2>5, <3>1, <3>2, <3>3 DEF CopyInv, SourceOf, TargetOf, Marking
  <2>6. CASE st'[c].pc = "close_dst" /\ st'[c].status # "OK"
    BY <1>7, <2>2, <2>6 DEF CopyInv, SourceOf, Marking
  <2>7. CASE st'[c].pc = "close_dst" /\ a.ret = "OK"
    <3>1. \A n \in 1 .. Len(blocks) : blocks[n] # 0
      BY <2>1 DEF Blocks
    <3>2. pos >= Len(blocks)
      BY SMTT(20), <1>2, <1>5, <1>6, <2>1, <2>3, <2>4, <2>7, <3>1
    <3>3. pos = Len(blocks)
      BY <2>3, <2>4, <3>2
    <3>4. fs'[TargetOf(c)] = original[c]
      BY <1>5, <2>1, <2>3, <3>3, WholeCopy
    <3> QED
      BY <1>7, <2>2, <2>7, <3>4 DEF CopyInv, SourceOf, TargetOf, Marking
  <2> QED
    BY <1>6, <2>5, <2>6, <2>7
<1> QED
  BY <1>8, <1>9

LEMMA WriteCopies ==
  ASSUME RenamesApart, TypeInv, NEW c \in Clients, ClientInv(c), CopyInv(c), FsPrint(c), CopyWrite(c)
  PROVE  CopyInv(c)' /\ KeepsContent(c)
<1> DEFINE s == st[c]
           blocks == original[c].data
           pos == open[s.src].pos
<1>1. s.pc = "write" /\ s.call.op = "rename" /\ DOMAIN s = Fields
  BY DEF CopyWrite, At, ClientInv, StageInv, Marking, Finding, TypeInv
<1>2. s.dst \in Handles /\ open[s.dst].path = TargetOf(c)
  BY <1>1 DEF ClientInv, UseInv, HoldsTarget, Copying, TargetOf, Holds, IsOf
<1>3. PICK a \in Replies(Write(s.dst, s.block)) :
         /\ Serve(c, a)
         /\ Continue(c, [s EXCEPT !.pc = IF a.ret = "OK" THEN "read" ELSE "close_dst",
                                  !.status = a.ret, !.block = 0])
  BY DEF CopyWrite
<1>4. PICK t : t = [s EXCEPT !.pc = IF a.ret = "OK" THEN "read" ELSE "close_dst",
                             !.status = a.ret, !.block = 0]
  OBVIOUS
<1>5. /\ t.call = s.call /\ t.src = s.src /\ t.status = a.ret
      /\ t.pc = IF a.ret = "OK" THEN "read" ELSE "close_dst"
  BY <1>1, <1>4 DEF Fields
<1>6. st'[c] = t /\ original' = original
  BY <1>3, <1>4 DEF Continue, TypeInv
<1>7. /\ open' = open
      /\ a.ret = "OK" => fs' = [fs EXCEPT ![open[s.dst].path].data = Append(@, s.block)]
  <2>1. PICK h \in Handles, b \in {s.block} : h = s.dst
    BY <1>2
  <2>2. a \in Replies(Write(h, b))
    BY <1>3, <2>1
  <2>3. open' = open /\ (a.ret = "OK" => fs' = [fs EXCEPT ![open[h].path].data = Append(@, b)])
    <3>1. \/ /\ open' = open
             /\ fs' = [fs EXCEPT ![open[h].path].data = Append(@, b)]
          \/ open' = open /\ a.ret = "FAIL"
      BY ZenonT(30), <1>3, <2>2, WriteEffect
    <3> QED
      BY <3>1
  <2> QED
    BY <2>1, <2>3
<1>8. CASE ~Renames(c)
  BY <1>1, <1>5, <1>6, <1>8 DEF CopyInv, KeepsContent, Renames, At
<1>9. CASE Renames(c)
  <2>1. blocks \in Seq(Blocks) /\ TargetOf(c) \in Paths
    BY <1>9, RenameFiles
  <2>2. KeepsContent(c) /\ fs'[SourceOf(c)] = original[c]
    BY <1>1, <1>9, FilesStay
  <2>3. /\ pos \in 1 .. Len(blocks) /\ s.block = blocks[pos]
        /\ fs[TargetOf(c)] = File(SubSeq(blocks, 1, pos - 1))
    BY <1>1, <1>9 DEF CopyInv, Renames, TargetOf
  <2>4. CASE a.ret = "OK"
    <3>1. fs'[TargetOf(c)] = [fs[TargetOf(c)] EXCEPT !.data = Append(@, s.block)]
      BY <1>2, <1>7, <2>1, <2>4 DEF TypeInv
    <3>2. fs'[TargetOf(c)] = File(Append(SubSeq(blocks, 1, pos - 1), blocks[pos]))
      <4>1. PICK written : written = SubSeq(blocks, 1, pos - 1)
        OBVIOUS
      <4>2. [File(written) EXCEPT !.data = Append(@, s.block)] = File(Append(written, s.block))
        BY SMTT(20) DEF File
      <4> QED
        BY <2>3, <3>1, <4>1, <4>2
    <3>3. fs'[TargetOf(c)] = File(SubSeq(blocks, 1, pos))
      BY <2>1, <2>3, <3>2, Blockwise
    <3>4. pos \in 0 .. Len(blocks)
      BY <2>1, <2>3
    <3> QED
      BY <1>5, <1>6, <1>7, <2>2, <2>4, <3>3, <3>4 DEF CopyInv, SourceOf, TargetOf, Marking
  <2>5. CASE a.ret # "OK"
    BY <1>5, <1>6, <2>2, <2>5 DEF CopyInv, SourceOf, Marking
  <2> QED
    BY <2>4, <2>5
<1> QED
  BY <1>8, <1>9

LEMMA OwnCopies ==
  ASSUME RenamesApart, TypeInv, NEW c \in Clients, ClientInv(c), CopyInv(c), FsPrint(c), StepOf(c)
  PROVE  CopyInv(c)' /\ KeepsContent(c)
<1>1. CASE \/ FileDelete(c) \/ FindFirstEntry(c) \/ FindNextEntry(c) \/ CloseFind(c) \/ AbortFind(c)
           \/ DeleteEntry(c) \/ TreeDeleted(c) \/ ExpandDirectory(c) \/ KeepRoot(c)
           \/ DeleteDirectory(c) \/ DeleteAsFile(c)
  BY <1>1, OtherCallStays, NoRename
<1>2. CASE ClientStep(c)
  BY <1>1, <1>2, CallBegins, MarkersKeepCopy, FileOpenCopies, CloseCopies, ReadCopies, WriteCopies,
     DeleteSourceCopies DEF ClientStep
<1> QED
  BY <1>2, CallBegins DEF StepOf

LEMMA CopyStep ==
  ASSUME FlagsAreNoHandle, RenamesApart, FileInv, \A x \in Clients : CopyInv(x),
         NEW c \in Clients, StepOf(c), NEW x \in Clients
  PROVE  CopyInv(x)' /\ KeepsContent(x)
<1>1. FsPrint(c) /\ Frame(c)
  BY Footprint, StepKeepsInv DEF FileInv, StepInv, Common
<1>2. CASE x = c
  BY <1>1, <1>2, OwnCopies DEF FileInv
<1>3. CASE x # c
  BY <1>1, <1>3, OthersKeepCopy DEF FileInv
<1> QED
  BY <1>2, <1>3

\* Whichever of its requests fails, a rename leaves its file whole at the old
\* or at the new path after each of its steps.
THEOREM FilesAreKept ==
  ASSUME FlagsAreNoHandle, RenamesApart
  PROVE  FileSpec => RenameKeepsContent
<1> DEFINE Copies == \A x \in Clients : CopyInv(x)
           Keeps ==
             \A c \in Clients :
                st[c].call.op = "rename" /\ ~At(c, "idle") /\ original[c].kind = "file" =>
                    \E p \in {Normalized(st[c].call.path), Normalized(st[c].call.target)} :
                        fs'[p] = original[c]
<1>1. FileInit => Copies
  BY DEF FileInit, Fresh, CopyInv, At
<1>2. FileInv /\ Copies /\ [FileNext]_fileVars => Copies'
  <2>1. FileInv /\ Copies /\ FileNext => Copies'
    BY CopyStep DEF FileNext, StepOf
  <2>2. Copies /\ UNCHANGED fileVars => Copies'
    BY DEF fileVars, CopyInv, At
  <2> QED
    BY <2>1, <2>2
<1>3. FileInv /\ Copies /\ [FileNext]_fileVars => [Keeps]_fileVars
  BY CopyStep DEF FileNext, StepOf, KeepsContent
<1> QED
  BY <1>1, <1>2, <1>3, FileInvariant, PTL DEF FileSpec, RenameKeepsContent

-----------------------------------------------------------------------------
(* No marker file stays. *)

\* The drive has no markers at the start, and no caller opens or renames one.
MarkersApart ==
    /\ \A p \in DOMAIN Payload : ~IsMarker(p)
    /\ \A c \in Clients : \A k \in Calls[c] :
          /\ k.op \in {"open", "rename"} => ~IsMarker(Normalized(k.path))
          /\ k.op = "rename" => ~IsMarker(Normalized(k.target))

\* An open marker is held by a client that will close it, and a marker file is
\* one that some client will delete.
OpenMarkers ==
    \A h \in Handles : open[h].mode \in {"read", "write"} /\ IsMarker(open[h].path) =>
        At(open[h].client, "close_marker") /\ h = st[open[h].client].marker

Deleter(c, p) == st[c].pc \in {"close_marker", "delete_marker"} /\ Marker(Head(st[c].dirs)) = p

MarkerFiles ==
    \A p \in Paths : IsMarker(p) /\ Is(p, "file") => \E c \in Clients : Deleter(c, p)

MarkInv == faults = 0 => OpenMarkers /\ MarkerFiles

LEMMA FaultsStay ==
  ASSUME TypeInv, NEW c \in Clients, NEW A, \A b \in A : IsAnswer(b),
         NEW a \in Replies(A), Serve(c, a), faults' = 0
  PROVE  faults = 0
<1>1. a.lost \in {0, 1}
  <2>1. CASE a \in A
    BY <2>1 DEF IsAnswer, Answer
  <2>2. ASSUME NEW b \in A, a = [b EXCEPT !.ret = "FAIL", !.lost = 1]
        PROVE  a.lost = 1
    BY <2>2 DEF IsAnswer, Answer
  <2>3. ASSUME NEW b \in A, a = [b EXCEPT !.ret = "FAIL", !.lost = 1, !.fs = fs, !.open = open]
        PROVE  a.lost = 1
    BY <2>3 DEF IsAnswer, Answer
  <2> QED
    BY <2>1, <2>2, <2>3 DEF Replies
<1> QED
  BY <1>1 DEF Serve, TypeInv

LEMMA EveryAnswer ==
  /\ \A h : \A b \in Close(h) : IsAnswer(b)
  /\ \A h : \A b \in Read(h) : IsAnswer(b)
  /\ \A h, d : \A b \in Write(h, d) : IsAnswer(b)
  /\ \A p : \A b \in DeleteFile(p) : IsAnswer(b)
  /\ \A p : \A b \in DeleteDir(p) : IsAnswer(b)
  /\ \A h : \A b \in FindNext(h) : IsAnswer(b)
  /\ \A c, n, p : \A b \in OpenToRead(c, n, p) : IsAnswer(b)
  /\ \A c, n, p, append : \A b \in OpenToWrite(c, n, p, append) : IsAnswer(b)
  /\ \A c, n, p : \A b \in FindFirst(c, n, p) : IsAnswer(b)
  /\ \A b \in {Refuse("OK")} : IsAnswer(b)
<1>1. \A f, r : \A b \in Grant(f, r) : IsAnswer(b)
  BY DEF Grant, Answer, IsAnswer, Refuse
<1>2. \A r : IsAnswer(Refuse(r))
  BY DEF Refuse, Answer, IsAnswer
<1>3. \A h : \A b \in Close(h) : IsAnswer(b)
  BY <1>2 DEF Close, Answer, IsAnswer
<1>4. \A h : \A b \in Read(h) : IsAnswer(b)
  BY <1>2 DEF Read, Answer, IsAnswer
<1>5. \A h, d : \A b \in Write(h, d) : IsAnswer(b)
  BY <1>2 DEF Write, Answer, IsAnswer
<1>6. \A p : \A b \in DeleteFile(p) : IsAnswer(b)
  BY <1>2 DEF DeleteFile, Answer, IsAnswer
<1>7. \A p : \A b \in DeleteDir(p) : IsAnswer(b)
  BY <1>2 DEF DeleteDir, Answer, IsAnswer
<1>8. \A h : \A b \in FindNext(h) : IsAnswer(b)
  BY <1>2 DEF FindNext, Answer, IsAnswer
<1>9. \A c, n, p : \A b \in OpenToRead(c, n, p) : IsAnswer(b)
  BY <1>1, <1>2 DEF OpenToRead
<1>10. \A c, n, p, append : \A b \in OpenToWrite(c, n, p, append) : IsAnswer(b)
  BY <1>1, <1>2 DEF OpenToWrite
<1>11. \A c, n, p : \A b \in FindFirst(c, n, p) : IsAnswer(b)
  BY <1>1, <1>2 DEF FindFirst
<1> QED
  BY <1>2, <1>3, <1>4, <1>5, <1>6, <1>7, <1>8, <1>9, <1>10, <1>11

\* The answers to a request of c.
IsRequest(c, A) ==
    \/ A = {Refuse("OK")}
    \/ \E h : A \in {Close(h), Read(h), FindNext(h)}
    \/ \E h, block : A = Write(h, block)
    \/ \E p : A \in {DeleteFile(p), DeleteDir(p)}
    \/ \E p : A \in {OpenToRead(c, calls[c], p), FindFirst(c, calls[c], p)}
    \/ \E p, append : A = OpenToWrite(c, calls[c], p, append)

\* A step of c is one request, or it begins a call, or is one of c alone.
LEMMA EveryRequest ==
  ASSUME NEW c \in Clients, StepOf(c)
  PROVE  \/ \E A : IsRequest(c, A) /\ \E a \in Replies(A) : Serve(c, a)
         \/ NoRequest
         \/ \E k \in Calls[c] : StartCall(c, k)
<1>1. ReadPlatformId(c) \/ TreeDeleted(c) \/ ExpandDirectory(c) \/ KeepRoot(c) =>
         NoRequest \/ \E a \in Replies({Refuse("OK")}) : Serve(c, a)
  BY DEF ReadPlatformId, TreeDeleted, ExpandDirectory, KeepRoot
<1>2. ASSUME \/ \E h \in held[c] : FileClose(c, h)
             \/ CloseMarker(c) \/ DropSource(c) \/ CloseTarget(c) \/ CloseSource(c)
             \/ CloseFind(c) \/ AbortFind(c)
      PROVE  \E h : \E a \in Replies(Close(h)) : Serve(c, a)
  BY <1>2 DEF FileClose, CloseMarker, DropSource, CloseTarget, CloseSource, CloseFind, AbortFind
<1>3. ASSUME \/ FileDelete(c) \/ DeleteMarker(c) \/ DeleteSource(c) \/ DeleteEntry(c)
             \/ DeleteAsFile(c)
      PROVE  \E p : \E a \in Replies(DeleteFile(p)) : Serve(c, a)
  BY <1>3 DEF FileDelete, DeleteMarker, DeleteSource, DeleteEntry, DeleteAsFile
<1>4. DeleteDirectory(c) => \E p : \E a \in Replies(DeleteDir(p)) : Serve(c, a)
  BY DEF DeleteDirectory
<1>5. FileOpen(c) \/ CreateMarker(c) \/ AppendMarker(c) =>
         \E p, append : \E a \in Replies(OpenToWrite(c, calls[c], p, append)) : Serve(c, a)
  BY DEF FileOpen, CreateMarker, AppendMarker, OpenMarker
<1>6. /\ OpenSource(c) => \E p : \E a \in Replies(OpenToRead(c, calls[c], p)) : Serve(c, a)
      /\ CopyRead(c) => \E h : \E a \in Replies(Read(h)) : Serve(c, a)
      /\ CopyWrite(c) => \E h, block : \E a \in Replies(Write(h, block)) : Serve(c, a)
      /\ FindFirstEntry(c) => \E p : \E a \in Replies(FindFirst(c, calls[c], p)) : Serve(c, a)
      /\ FindNextEntry(c) => \E h : \E a \in Replies(FindNext(h)) : Serve(c, a)
  BY DEF OpenSource, CopyRead, CopyWrite, FindFirstEntry, FindNextEntry
<1>7. /\ IsRequest(c, {Refuse("OK")})
      /\ \A h : IsRequest(c, Close(h)) /\ IsRequest(c, Read(h)) /\ IsRequest(c, FindNext(h))
      /\ \A h, block : IsRequest(c, Write(h, block))
      /\ \A p : IsRequest(c, DeleteFile(p)) /\ IsRequest(c, DeleteDir(p))
      /\ \A p : IsRequest(c, OpenToRead(c, calls[c], p)) /\ IsRequest(c, FindFirst(c, calls[c], p))
      /\ \A p, append : IsRequest(c, OpenToWrite(c, calls[c], p, append))
  BY DEF IsRequest
<1> QED
  BY <1>1, <1>2, <1>3, <1>4, <1>5, <1>6, <1>7 DEF StepOf, ClientStep

LEMMA NoFaultBefore ==
  ASSUME TypeInv, NEW c \in Clients, StepOf(c), faults' = 0
  PROVE  faults = 0
<1>1. \A A : IsRequest(c, A) => \A b \in A : IsAnswer(b)
  BY EveryAnswer, Zenon DEF IsRequest
<1>2. NoRequest \/ (\E k \in Calls[c] : StartCall(c, k)) => faults' = faults
  BY DEF NoRequest, StartCall
<1> QED
  BY <1>1, <1>2, EveryRequest, FaultsStay

\* The calls that are not in DirCreate make no marker file and open none.
LEMMA NoMarkerMade ==
  ASSUME MarkersApart, TypeInv, NEW c \in Clients, ClientInv(c), FsPrint(c), OpenPrint(c),
         st[c].pc \notin Marking
  PROVE  /\ \A p \in Paths : IsMarker(p) /\ fs'[p].kind = "file" => fs[p].kind = "file"
         /\ \A h \in Handles : open'[h].mode \in {"read", "write"} /\ IsMarker(open'[h].path)
                                  => open'[h] = open[h]
<1> DEFINE s == st[c]
<1>1. \A p \in Writes(s) : ~IsMarker(p)
  <2>1. s.pc \in {"open", "write"} => s.call \in Calls[c] /\ s.call.op \in {"open", "rename"}
    BY DEF ClientInv, StageInv, At, Marking, Renaming, Copying, Finding
  <2> QED
    BY <2>1 DEF Writes, OpenedPath, MarkersApart
<1>2. ASSUME NEW p \in Paths, IsMarker(p), fs'[p].kind = "file"
      PROVE  fs[p].kind = "file"
  BY <1>1, <1>2 DEF FsPrint, Directory, Absent
<1>3. s.pc \in {"open", "open_src", "read"} =>
         ~IsMarker(Normalized(s.call.path)) /\ ~IsMarker(OpenedPath(s))
  <2>1. s.pc \in {"open", "open_src", "read"} =>
           s.call \in Calls[c] /\ s.call.op \in {"open", "rename"}
    BY DEF ClientInv, StageInv, At, Marking, Renaming, Copying, Finding
  <2> QED
    BY <2>1 DEF OpenedPath, MarkersApart
<1>4. ASSUME NEW h \in Handles, open'[h].mode \in {"read", "write"}, IsMarker(open'[h].path)
      PROVE  open'[h] = open[h]
  BY <1>3, <1>4 DEF OpenPrint, Closed
<1> QED
  BY <1>2, <1>4

\* In DirCreate, c holds no other marker than the one it has to close.
LEMMA OthersHoldMarkers ==
  ASSUME FileInv, OpenMarkers, NEW c \in Clients, NEW h \in Handles,
         open[h].mode \in {"read", "write"}, IsMarker(open[h].path),
         st[c].pc # "close_marker" \/ h # st[c].marker
  PROVE  /\ open[h].client \in Clients \ {c}
         /\ Deleter(open[h].client, open[h].path) /\ At(open[h].client, "close_marker")
<1>1. open[h] \in Streams
  BY DEF FileInv, TypeInv, Streams, Finds, Closed
<1>2. open[h].client \in Clients
  BY <1>1 DEF Streams
<1>3. At(open[h].client, "close_marker") /\ h = st[open[h].client].marker
  BY DEF OpenMarkers
<1>4. open[h].path = Marker(Head(st[open[h].client].dirs))
  BY <1>2, <1>3 DEF FileInv, ClientInv, UseInv, HoldsMarker, At
<1> QED
  BY <1>2, <1>3, <1>4 DEF Deleter, At

\* The markers of the others stay with them.
LEMMA OthersKeepMarkers ==
  ASSUME NEW c \in Clients, Frame(c), NEW x \in Clients \ {c}
  PROVE  /\ \A p : Deleter(x, p) => Deleter(x, p)'
         /\ st'[x] = st[x]
  BY DEF Frame, Deleter

\* It is enough to look at what a step of c opens, and at the marker files that are left.
LEMMA MarkersMove ==
  ASSUME FileInv, NEW c \in Clients, Frame(c), OpenMarkers,
         \A h \in Handles : open'[h].mode \in {"read", "write"} /\ IsMarker(open'[h].path) =>
            \/ open'[h] = open[h] /\ (st[c].pc # "close_marker" \/ h # st[c].marker)
            \/ open'[h].client = c /\ st'[c].pc = "close_marker" /\ h = st'[c].marker,
         \A p \in Paths : IsMarker(p) /\ fs'[p].kind = "file" =>
            Deleter(c, p)' \/ \E x \in Clients \ {c} : Deleter(x, p)
  PROVE  OpenMarkers' /\ MarkerFiles'
<1>1. ASSUME NEW h \in Handles, open'[h].mode \in {"read", "write"}, IsMarker(open'[h].path)
      PROVE  st'[open'[h].client].pc = "close_marker" /\ h = st'[open'[h].client].marker
  <2>1. CASE open'[h] = open[h] /\ (st[c].pc # "close_marker" \/ h # st[c].marker)
    <3>1. open[h].client \in Clients \ {c}
      BY <1>1, <2>1, OthersHoldMarkers
    <3>2. st'[open[h].client] = st[open[h].client]
      BY <3>1 DEF Frame
    <3> QED
      BY <1>1, <2>1, <3>2 DEF OpenMarkers, At
  <2> QED
    BY <1>1, <2>1
<1>2. ASSUME NEW p \in Paths, IsMarker(p), fs'[p].kind = "file"
      PROVE  \E x \in Clients : Deleter(x, p)'
  BY <1>2, OthersKeepMarkers
<1> QED
  BY <1>1, <1>2 DEF OpenMarkers, MarkerFiles, At, Is, IsMarker

LEMMA QuietStep ==
  ASSUME MarkersApart, FileInv, NEW c \in Clients, Frame(c), FsPrint(c), OpenPrint(c),
         st[c].pc \notin Marking, OpenMarkers, MarkerFiles
  PROVE  OpenMarkers' /\ MarkerFiles'
<1>1. /\ \A p \in Paths : IsMarker(p) /\ fs'[p].kind = "file" => fs[p].kind = "file"
      /\ \A h \in Handles : open'[h].mode \in {"read", "write"} /\ IsMarker(open'[h].path)
                               => open'[h] = open[h]
  BY NoMarkerMade DEF FileInv
<1>2. \A p : ~Deleter(c, p)
  BY DEF Deleter, Marking
<1>3. \A p \in Paths : IsMarker(p) /\ fs'[p].kind = "file" => \E x \in Clients \ {c} : Deleter(x, p)
  BY <1>1, <1>2 DEF MarkerFiles, Is
<1> QED
  BY <1>1, <1>3, MarkersMove DEF Marking

LEMMA OpenMarkerMarks ==
  ASSUME FileInv, NEW c \in Clients, Frame(c), OpenMarkers, MarkerFiles, faults' = 0,
         CreateMarker(c) \/ AppendMarker(c)
  PROVE  OpenMarkers' /\ MarkerFiles'
<1> DEFINE s == st[c]
           p == Marker(Head(s.dirs))
<1>1. s.pc \in {"mark", "append_marker"} /\ DOMAIN s = Fields
  BY DEF CreateMarker, AppendMarker, At, FileInv, TypeInv
<1>2. p \in Paths
  BY <1>1, MarkingStage DEF Marking, FileInv
<1>3. \A q : ~Deleter(c, q)
  BY <1>1 DEF Deleter
<1> DEFINE Answered(a) == Serve(c, a) /\ (a.ret = "OK" => Continue(c, [s EXCEPT !.pc = "close_marker", !.marker = a.val]))
<1>4. PICK append \in BOOLEAN : \E a \in Replies(OpenToWrite(c, calls[c], p, append)) : Answered(a)
  BY DEF CreateMarker, AppendMarker, OpenMarker
<1>5. PICK a \in Replies(OpenToWrite(c, calls[c], p, append)) : Answered(a)
  BY <1>4
<1>6. \/ a.ret = "OK" /\ Granted(a.val, Stream("write", c, p)) /\ Made(p)
      \/ open' = open /\ fs' = fs
  BY <1>2, <1>5, OpenToWriteEffect DEF FileInv
<1>7. CASE a.ret = "OK" /\ Granted(a.val, Stream("write", c, p)) /\ Made(p)
  <2>1. PICK t : t = [s EXCEPT !.pc = "close_marker", !.marker = a.val]
    OBVIOUS
  <2>2. t.pc = "close_marker" /\ t.marker = a.val /\ t.dirs = s.dirs
    BY <1>1, <2>1 DEF Fields
  <2>3. st'[c] = t
    BY <1>5, <1>7, <2>1 DEF Continue, FileInv, TypeInv
  <2>4. \A q : q = p => Deleter(c, q)'
    BY <2>2, <2>3 DEF Deleter
  <2>5. \A q \in Paths : IsMarker(q) /\ fs'[q].kind = "file" =>
           Deleter(c, q)' \/ \E x \in Clients \ {c} : Deleter(x, q)
    <3>1. \A q \in Paths : fs'[q].kind = "file" => q = p \/ fs[q].kind = "file"
      BY <1>7 DEF Made, Directory
    <3> QED
      BY <1>3, <2>4, <3>1 DEF MarkerFiles, Is
  <2>6. /\ a.val \in Handles /\ open'[a.val].client = c
        /\ \A h \in Handles : open'[h] = open[h] \/ h = a.val
    BY <1>7 DEF Granted, Stream, FileInv, TypeInv
  <2>7. \A h \in Handles : \/ open'[h] = open[h] /\ s.pc # "close_marker"
                           \/ open'[h].client = c /\ st'[c].pc = "close_marker" /\ h = st'[c].marker
    BY <1>1, <2>2, <2>3, <2>6
  <2> QED
    BY <2>5, <2>7, MarkersMove
<1>8. CASE open' = open /\ fs' = fs
  <2>1. \A q \in Paths : IsMarker(q) /\ fs'[q].kind = "file" => \E x \in Clients \ {c} : Deleter(x, q)
    BY <1>3, <1>8 DEF MarkerFiles, Is
  <2> QED
    BY <1>1, <1>8, <2>1, MarkersMove
<1> QED
  BY <1>6, <1>7, <1>8

LEMMA CloseMarkerMarks ==
  ASSUME FileInv, NEW c \in Clients, Frame(c), OpenMarkers, MarkerFiles, faults' = 0, CloseMarker(c)
  PROVE  OpenMarkers' /\ MarkerFiles'
<1> DEFINE s == st[c]
<1>1. s.pc = "close_marker" /\ DOMAIN s = Fields
  BY DEF CloseMarker, At, FileInv, TypeInv
<1>2. s.marker \in Handles /\ open[s.marker] # Closed
  BY <1>1 DEF FileInv, ClientInv, UseInv, HoldsMarker, Holds, IsOf
<1>3. PICK a \in Replies(Close(s.marker)) :
         /\ Serve(c, a)
         /\ a.ret = "OK" => Continue(c, [s EXCEPT !.pc = "delete_marker", !.marker = 0])
  BY DEF CloseMarker
<1>4. fs' = fs /\ a.ret = "OK" /\ open' = [open EXCEPT ![s.marker] = Closed]
  BY <1>2, <1>3, CloseEffect DEF FileInv, TypeInv
<1>5. PICK t : t = [s EXCEPT !.pc = "delete_marker", !.marker = 0]
  OBVIOUS
<1>6. t.pc = "delete_marker" /\ t.dirs = s.dirs
  BY <1>1, <1>5 DEF Fields
<1>7. st'[c] = t
  BY <1>3, <1>4, <1>5 DEF Continue, FileInv, TypeInv
<1>8. \A q : Deleter(c, q) => Deleter(c, q)'
  BY <1>6, <1>7 DEF Deleter
<1>9. \A q \in Paths : IsMarker(q) /\ fs'[q].kind = "file" =>
         Deleter(c, q)' \/ \E x \in Clients \ {c} : Deleter(x, q)
  BY <1>4, <1>8 DEF MarkerFiles, Is
<1>10. \A h \in Handles : open'[h].mode \in {"read", "write"} => open'[h] = open[h] /\ h # s.marker
  BY <1>2, <1>4 DEF Closed, FileInv, TypeInv
<1> QED
  BY <1>9, <1>10, MarkersMove

\* The service may refuse to delete a marker that is open: another client has it
\* open then, and will delete it.
LEMMA DeleteMarkerMarks ==
  ASSUME FileInv, NEW c \in Clients, Frame(c), OpenMarkers, MarkerFiles, faults' = 0, DeleteMarker(c)
  PROVE  OpenMarkers' /\ MarkerFiles'
<1> DEFINE s == st[c]
           p == Marker(Head(s.dirs))
<1>1. s.pc = "delete_marker"
  BY DEF DeleteMarker, At
<1>2. p \in Paths /\ IsMarker(p)
  <2>1. s.pc \in Marking
    BY <1>1 DEF Marking
  <2>2. p \in Paths /\ Head(s.dirs) \in Paths
    BY <2>1, MarkingStage DEF FileInv
  <2> QED
    BY <2>2, MarkersAreMarkers
<1>3. PICK a \in Replies(DeleteFile(p)) : Serve(c, a)
  BY DEF DeleteMarker
<1>4. /\ open' = open
      /\ \/ fs' = [fs EXCEPT ![p] = Absent]
         \/ fs' = fs /\ fs[p].kind # "file"
         \/ fs' = fs /\ Busy(p)
  BY <1>2, <1>3, DeleteEffect DEF FileInv
<1>5. \A q : Deleter(c, q) => q = p
  BY DEF Deleter
<1>6. Busy(p) => \E x \in Clients \ {c} : Deleter(x, p)
  <2>1. ASSUME NEW h \in Handles, open[h].mode \in {"read", "write"}, open[h].path = p
        PROVE  \E x \in Clients \ {c} : Deleter(x, p)
    BY <1>1, <1>2, <2>1, OthersHoldMarkers
  <2> QED
    BY <2>1 DEF Busy
<1>7. \A q \in Paths : IsMarker(q) /\ fs'[q].kind = "file" => \E x \in Clients \ {c} : Deleter(x, q)
  BY <1>2, <1>4, <1>5, <1>6 DEF MarkerFiles, Is, Absent, FileInv, TypeInv
<1> QED
  BY <1>1, <1>4, <1>7, MarkersMove

LEMMA MarkStep ==
  ASSUME FlagsAreNoHandle, MarkersApart, FileInv, MarkInv, NEW c \in Clients, StepOf(c)
  PROVE  MarkInv'
<1> SUFFICES ASSUME faults' = 0
             PROVE  OpenMarkers' /\ MarkerFiles'
  BY DEF MarkInv
<1>1. OpenMarkers /\ MarkerFiles
  BY NoFaultBefore DEF MarkInv, FileInv
<1>2. FsPrint(c) /\ OpenPrint(c) /\ Frame(c)
  BY Footprint, StepKeepsInv DEF FileInv, StepInv, Common
<1>3. CASE st[c].pc \notin Marking
  BY <1>1, <1>2, <1>3, QuietStep
<1>4. CASE st[c].pc \in Marking
  <2>1. CreateMarker(c) \/ AppendMarker(c) \/ CloseMarker(c) \/ DeleteMarker(c)
    BY <1>4 DEF Marking, StepOf, ClientStep, At, StartCall, FileClose, ReadPlatformId, FileDelete,
                FileOpen, OpenSource, DropSource, CopyRead, CopyWrite, CloseTarget, CloseSource,
                DeleteSource, FindFirstEntry, FindNextEntry, CloseFind, AbortFind, DeleteEntry,
                TreeDeleted, ExpandDirectory, KeepRoot, DeleteDirectory, DeleteAsFile
  <2> QED
    BY <1>1, <1>2, <2>1, OpenMarkerMarks, CloseMarkerMarks, DeleteMarkerMarks
<1> QED
  BY <1>3, <1>4

\* Unless a request has failed, every marker file is one that a client is about
\* to delete, also when several clients create the same directory.
THEOREM MarkersAreDeleted ==
  ASSUME FlagsAreNoHandle, MarkersApart
  PROVE  FileSpec => []NoStrayMarker
<1>1. FileInit => MarkInv
  <2> SUFFICES ASSUME FileInit
               PROVE  OpenMarkers /\ MarkerFiles
    BY DEF MarkInv
  <2>1. OpenMarkers
    BY DEF OpenMarkers, FileInit, ServerInit, Closed
  <2>2. \A p \in Paths : fs[p].kind = "file" => p \in DOMAIN Payload
    BY DEF FileInit, ServerInit, Directory, Absent
  <2>3. MarkerFiles
    BY <2>2 DEF MarkerFiles, MarkersApart, Is
  <2> QED
    BY <2>1, <2>3
<1>2. FileInv /\ MarkInv /\ [FileNext]_fileVars => MarkInv'
  <2>1. FileInv /\ MarkInv /\ FileNext => MarkInv'
    BY MarkStep DEF FileNext, StepOf
  <2>2. MarkInv /\ UNCHANGED fileVars => MarkInv'
    BY DEF fileVars, MarkInv, OpenMarkers, MarkerFiles, Deleter, At, Is
  <2> QED
    BY <2>1, <2>2
<1>3. FileInv /\ MarkInv => NoStrayMarker
  <2> SUFFICES ASSUME FileInv, MarkInv, faults = 0,
                      NEW d \in Paths, Marker(d) \in Paths, Is(Marker(d), "file")
               PROVE  \E c \in Clients : /\ st[c].pc \in {"close_marker", "delete_marker"}
                                         /\ Head(st[c].dirs) = d
    BY DEF NoStrayMarker
  <2>1. PICK c \in Clients : Deleter(c, Marker(d))
    BY MarkersAreMarkers DEF MarkInv, MarkerFiles
  <2>2. st[c].pc \in Marking
    BY <2>1 DEF Deleter, Marking
  <2>3. Head(st[c].dirs) \in Paths
    <3>1. st[c].dirs \in Seq(Paths) /\ st[c].dirs # <<>>
      BY <2>2, MarkingStage DEF FileInv
    <3> QED
      BY <3>1
  <2>4. \A u, v \in Seq(STRING) : Append(u, MarkerName) = Append(v, MarkerName) => u = v
    OBVIOUS
  <2>5. Head(st[c].dirs) = d
    BY <2>1, <2>3, <2>4, ServerAssumption DEF Deleter, Marker
  <2> QED
    BY <2>1, <2>5 DEF Deleter
<1> QED
  BY <1>1, <1>2, <1>3, FileInvariant, PTL DEF FileSpec

-----------------------------------------------------------------------------
(* The drive is a tree. *)

\* What is below something is below a directory; only a file has content.
Tree(f) ==
    /\ \A p \in Paths : f[p].kind # "file" => f[p].data = <<>>
    /\ \A d, p \in Paths : p \in Under(d) /\ p # d /\ f[p].kind # "none" => f[d].kind = "dir"

LEMMA PathFacts ==
  /\ \A p \in Paths : p \in Seq(STRING) /\ Len(p) \in Nat
  /\ \A p \in Paths : p \in Under(p)
  /\ \A p, q, r \in Paths : p \in Under(q) /\ q \in Under(r) => p \in Under(r)
  /\ \A p, q \in Paths : p \in Under(q) /\ q \in Under(p) => p = q
  /\ \A p \in Paths : \A q \in Under(p) : q # p => Len(q) > Len(p)
<1>1. \A p \in Paths : p \in Seq(STRING) /\ Len(p) \in Nat
  BY ServerAssumption
<1>2. \A p, q \in Seq(STRING) : Len(q) >= Len(p) /\ SubSeq(q, 1, Len(p)) = p
         => \A i \in 1 .. Len(p) : q[i] = p[i]
  OBVIOUS
<1>3. \A p, q \in Seq(STRING) : Len(q) >= Len(p) /\ (\A i \in 1 .. Len(p) : q[i] = p[i])
         => SubSeq(q, 1, Len(p)) = p
  OBVIOUS
<1>4. \A p, q \in Seq(STRING) : Len(q) = Len(p) /\ (\A i \in 1 .. Len(p) : q[i] = p[i]) => q = p
  OBVIOUS
<1>5. \A p, q \in Paths : q \in Under(p) <=> Len(q) >= Len(p) /\ \A i \in 1 .. Len(p) : q[i] = p[i]
  BY <1>1, <1>2, <1>3 DEF Under
<1>6. \A p \in Paths : p \in Under(p)
  BY <1>1, <1>5
<1>7. \A p, q, r \in Paths : p \in Under(q) /\ q \in Under(r) => p \in Under(r)
  BY <1>1, <1>5
<1>8. \A p, q \in Paths : p \in Under(q) /\ q \in Under(p) => p = q
  BY <1>1, <1>4, <1>5
<1>9. \A p \in Paths : \A q \in Under(p) : q # p => Len(q) > Len(p)
  <2> SUFFICES ASSUME NEW p \in Paths, NEW q \in Under(p), q # p
               PROVE  Len(q) > Len(p)
    OBVIOUS
  <2>1. q \in Paths
    BY DEF Under
  <2> QED
    BY <1>1, <1>4, <1>5, <2>1
<1> QED
  BY <1>1, <1>6, <1>7, <1>8, <1>9

\* What is below a directory is, or is below, something in it.
LEMMA ChildAbove ==
  ASSUME NEW d \in Paths, NEW p \in Under(d), p # d
  PROVE  \E e \in Children(d) : p \in Under(e)
<1>1. p \in Paths /\ p \in Seq(STRING) /\ d \in Seq(STRING) /\ Len(d) \in Nat /\ Len(p) > Len(d)
  BY PathFacts DEF Under
<1>2. PICK e : e = SubSeq(p, 1, Len(d) + 1)
  OBVIOUS
<1>3. e \in Paths
  BY <1>1, <1>2, ServerAssumption
<1>4. Len(e) = Len(d) + 1 /\ \A i \in 1 .. Len(d) + 1 : e[i] = p[i]
  BY <1>1, <1>2
<1>5. SubSeq(e, 1, Len(d)) = SubSeq(p, 1, Len(d))
  BY <1>1, <1>3, <1>4, PathFacts
<1>6. e \in Children(d)
  BY <1>1, <1>3, <1>4, <1>5 DEF Children, Under
<1>7. p \in Under(e)
  BY <1>1, <1>2, <1>4 DEF Under
<1> QED
  BY <1>6, <1>7

LEMMA ChildFacts ==
  ASSUME NEW d \in Paths, NEW e \in Children(d)
  PROVE  e \in Paths /\ e \in Under(d) /\ e # d /\ e # <<>>
<1>1. e \in Paths /\ e \in Under(d) /\ Len(e) = Len(d) + 1
  BY DEF Children, Under
<1> QED
  BY <1>1, PathFacts

\* Removing a file, or a directory that is empty.
LEMMA TreeWithout ==
  ASSUME TypeInv, Tree(fs), NEW p,
         fs[p].kind = "file" \/ \A q \in Children(p) : fs[q].kind = "none"
  PROVE  Tree([fs EXCEPT ![p] = Absent])
<1> PICK f : f = [fs EXCEPT ![p] = Absent]
  OBVIOUS
<1>1. \A q \in Paths : f[q] = IF q = p THEN Absent ELSE fs[q]
  BY DEF TypeInv
<1>2. ASSUME NEW d \in Paths, NEW q \in Under(d), q # d, f[q].kind # "none"
      PROVE  f[d].kind = "dir"
  <2>1. q \in Paths
    BY DEF Under
  <2>2. fs[q].kind # "none" /\ fs[d].kind = "dir"
    BY <1>1, <1>2, <2>1 DEF Absent, Tree
  <2>3. d # p
    <3>1. SUFFICES ASSUME d = p
                   PROVE  FALSE
      OBVIOUS
    <3>2. PICK e \in Children(d) : q \in Under(e)
      BY <1>2, ChildAbove
    <3>3. fs[e].kind = "none" /\ e \in Paths
      BY <2>2, <3>1, <3>2, ChildFacts
    <3> QED
      BY <2>1, <2>2, <3>2, <3>3 DEF Tree
  <2> QED
    BY <1>1, <2>2, <2>3
<1>3. \A q \in Paths : f[q].kind # "file" => f[q].data = <<>>
  BY <1>1 DEF Tree, Absent
<1> QED
  BY <1>2, <1>3 DEF Tree

\* Writing to a file.
LEMMA TreeWritten ==
  ASSUME TypeInv, Tree(fs), NEW p, fs[p].kind = "file", NEW data
  PROVE  Tree([fs EXCEPT ![p].data = data])
<1> PICK f : f = [fs EXCEPT ![p].data = data]
  OBVIOUS
<1>1. \A q \in Paths : f[q].kind = fs[q].kind /\ (q # p => f[q] = fs[q])
  BY DEF TypeInv, Entries
<1> QED
  BY <1>1 DEF Tree

\* Opening a file to write, with the directories above it.
LEMMA TreeGrown ==
  ASSUME TypeInv, Tree(fs), NEW p, NEW f, NEW append,
         ~Is(p, "dir"), ~\E q \in Paths : p \in Under(q) /\ q # p /\ Is(q, "file"),
         f = [q \in Paths |->
                IF q \in {r \in Paths : p \in Under(r) /\ r # p /\ Is(r, "none")} THEN Directory
                ELSE IF q = p THEN (IF append /\ Is(p, "file") THEN fs[p] ELSE File(<<>>)) ELSE fs[q]]
  PROVE  Tree(f)
<1> DEFINE above(q) == p \in Under(q) /\ q # p
<1>1. \A q \in Paths : above(q) => f[q] = IF fs[q].kind = "none" THEN Directory ELSE fs[q]
  BY DEF Is
<1>2. \A q \in Paths : ~above(q) /\ q # p => f[q] = fs[q]
  OBVIOUS
<1>3. p \in Paths => f[p].kind = "file"
  BY DEF Is, File
<1>4. \A q \in Paths : above(q) => f[q].kind = "dir"
  BY <1>1 DEF Is, Directory, TypeInv, Entries, Kinds
<1>5. ASSUME NEW d \in Paths, NEW q \in Paths, q \in Under(d), q # d, f[q].kind # "none"
      PROVE  f[d].kind = "dir"
  <2>1. CASE q = p
    BY <1>4, <1>5, <2>1
  <2>2. CASE above(q)
    <3>1. p \in Paths /\ p \in Under(d) /\ d # p
      BY <1>5, <2>2, PathFacts DEF Under
    <3> QED
      BY <1>4, <3>1
  <2>3. CASE q # p /\ ~above(q)
    <3>1. fs[d].kind = "dir"
      BY <1>2, <1>5, <2>3 DEF Tree
    <3> QED
      BY <1>1, <1>2, <3>1 DEF Is
  <2> QED
    BY <2>1, <2>2, <2>3
<1>6. \A q \in Paths : f[q].kind # "file" => f[q].data = <<>>
  BY <1>1, <1>2, <1>3 DEF Tree, Directory
<1> QED
  BY <1>5, <1>6 DEF Tree

LEMMA AnswersAreTrees ==
  ASSUME TypeInv, Tree(fs), NEW c \in Clients, NEW A, IsRequest(c, A), NEW b \in A
  PROVE  Tree(b.fs)
<1>1. \A newFs, r, x : x \in Grant(newFs, r) => x.fs = fs \/ x.fs = newFs
  BY DEF Grant, Refuse, Answer
<1>2. \A r : Refuse(r).fs = fs
  BY DEF Refuse, Answer
<1>3. \A f, o, r, v : Answer(f, o, r, v).fs = f
  BY DEF Answer
<1>4. ASSUME \/ \E h : A \in {Close(h), Read(h), FindNext(h)}
             \/ A = {Refuse("OK")}
             \/ \E p : A \in {OpenToRead(c, calls[c], p), FindFirst(c, calls[c], p)}
      PROVE  b.fs = fs
  <2>1. \A h, x : x \in Close(h) => x.fs = fs
    BY <1>2, <1>3 DEF Close
  <2>2. \A h, x : x \in Read(h) => x.fs = fs
    BY <1>2, <1>3 DEF Read
  <2>3. \A h, x : x \in FindNext(h) => x.fs = fs
    BY DEF FindNext, Refuse, Answer
  <2>4. \A p, x : x \in OpenToRead(c, calls[c], p) \/ x \in FindFirst(c, calls[c], p) => x.fs = fs
    BY <1>1, <1>2 DEF OpenToRead, FindFirst
  <2> QED
    BY <1>2, <1>4, <2>1, <2>2, <2>3, <2>4
<1>5. ASSUME NEW h, NEW block, A = Write(h, block)
      PROVE  Tree(b.fs)
  <2>1. \/ b.fs = fs
        \/ /\ fs[open[h].path].kind = "file"
           /\ b.fs = [fs EXCEPT ![open[h].path].data = Append(@, block)]
    BY <1>2, <1>3, <1>5 DEF Write, Is
  <2>2. PICK p, data : p = open[h].path /\ data = Append(fs[p].data, block)
    OBVIOUS
  <2>3. b.fs = fs \/ (fs[p].kind = "file" /\ b.fs = [fs EXCEPT ![p].data = data])
    BY <2>1, <2>2 DEF TypeInv
  <2> QED
    BY <2>3, TreeWritten
<1>6. ASSUME NEW p, A \in {DeleteFile(p), DeleteDir(p)}
      PROVE  Tree(b.fs)
  <2>1. \/ b.fs = fs
        \/ /\ b.fs = [fs EXCEPT ![p] = Absent]
           /\ fs[p].kind = "file" \/ \A q \in Children(p) : fs[q].kind = "none"
    <3>1. CASE A = DeleteFile(p)
      BY <1>2, <1>3, <3>1 DEF DeleteFile, Is
    <3>2. CASE A = DeleteDir(p)
      BY <1>2, <1>3, <3>2 DEF DeleteDir, Is
    <3> QED
      BY <1>6, <3>1, <3>2
  <2> QED
    BY <2>1, TreeWithout
<1>7. ASSUME NEW p, NEW append, A = OpenToWrite(c, calls[c], p, append)
      PROVE  Tree(b.fs)
  <2>1. PICK f : f = [q \in Paths |->
                IF q \in {r \in Paths : p \in Under(r) /\ r # p /\ Is(r, "none")} THEN Directory
                ELSE IF q = p THEN (IF append /\ Is(p, "file") THEN fs[p] ELSE File(<<>>)) ELSE fs[q]]
    OBVIOUS
  <2>2. PICK w : w = [mode |-> "write", client |-> c, call |-> calls[c], path |-> p, pos |-> 0]
    OBVIOUS
  <2>3. \/ \E r : b = Refuse(r)
        \/ /\ ~Is(p, "dir")
           /\ ~\E q \in Paths : p \in Under(q) /\ q # p /\ Is(q, "file")
           /\ b \in Grant(f, w)
    BY <1>7, <2>1, <2>2 DEF OpenToWrite
  <2>4. CASE \E r : b = Refuse(r)
    BY <1>2, <2>4
  <2>5. CASE /\ ~Is(p, "dir")
             /\ ~\E q \in Paths : p \in Under(q) /\ q # p /\ Is(q, "file")
             /\ b \in Grant(f, w)
    <3>1. Tree(f)
      BY <2>1, <2>5, TreeGrown
    <3> QED
      BY <1>1, <2>5, <3>1
  <2> QED
    BY <2>3, <2>4, <2>5
<1> QED
  BY <1>4, <1>5, <1>6, <1>7 DEF IsRequest

\* Each step leaves a tree.
LEMMA StepKeepsTree ==
  ASSUME TypeInv, Tree(fs), NEW c \in Clients, StepOf(c)
  PROVE  Tree(fs)'
<1>1. \A A : IsRequest(c, A) => \A b \in A : IsAnswer(b)
  BY EveryAnswer, Zenon DEF IsRequest
<1>2. ASSUME NEW A, IsRequest(c, A), NEW a \in Replies(A), Serve(c, a)
      PROVE  Tree(fs)'
  <2>1. \E b \in A : fs' = b.fs \/ fs' = fs
    BY <1>1, <1>2, ReplyOf
  <2>2. \A b \in A : Tree(b.fs)
    BY <1>2, AnswersAreTrees
  <2>3. PICK f : f = fs' /\ Tree(f)
    BY <2>1, <2>2
  <2> QED
    BY <2>3 DEF Tree
<1>3. NoRequest \/ (\E k \in Calls[c] : StartCall(c, k)) => fs' = fs
  BY DEF NoRequest, StartCall
<1>4. fs' = fs => Tree(fs)'
  BY DEF Tree
<1> QED
  BY <1>2, <1>3, <1>4, EveryRequest

-----------------------------------------------------------------------------
(* The calls while others are at work. *)

DriveInv == Tree(fs) /\ DOMAIN touched = Clients

\* What is at p is known to c, unless another has changed it during its call.
Known(c, p, kind) == fs[p].kind = kind \/ p \in touched[c]
NoDir(c, p) == fs[p].kind # "dir" \/ p \in touched[c]

LEMMA TouchedSteps ==
  ASSUME NEW c \in Clients, DOMAIN touched = Clients, StepOf(c)
  PROVE  /\ DOMAIN touched' = Clients
         /\ ~At(c, "idle") => touched'[c] = touched[c]
         /\ \A x \in Clients \ {c} : ~At(x, "idle") =>
               /\ touched[x] \subseteq touched'[x]
               /\ \A p \in Paths : fs'[p].kind = fs[p].kind \/ p \in touched'[x]
<1>1. ASSUME NEW A, NEW a \in Replies(A), Serve(c, a)
      PROVE  /\ DOMAIN touched' = Clients
             /\ ~At(c, "idle") => touched'[c] = touched[c]
             /\ \A x \in Clients \ {c} : ~At(x, "idle") =>
                   /\ touched[x] \subseteq touched'[x]
                   /\ \A p \in Paths : fs'[p].kind = fs[p].kind \/ p \in touched'[x]
  BY <1>1 DEF Serve
<1>2. CASE NoRequest
  BY <1>2 DEF NoRequest
<1>3. CASE \E k \in Calls[c] : StartCall(c, k)
  BY <1>3 DEF StartCall
<1> QED
  BY <1>1, <1>2, <1>3, EveryRequest

LEMMA DriveStep ==
  ASSUME FileInv, DriveInv, NEW c \in Clients, StepOf(c)
  PROVE  DriveInv'
<1>1. Tree(fs)'
  BY StepKeepsTree DEF FileInv, DriveInv
<1> QED
  BY <1>1, TouchedSteps DEF DriveInv

LEMMA DriveStart ==
  ASSUME FileInit
  PROVE  DriveInv
<1>1. \A p \in Paths : /\ p \in DirsAtStart => fs[p] = Directory
                       /\ p \in DOMAIN Payload => fs[p] = File(Payload[p])
                       /\ p \notin DirsAtStart \cup DOMAIN Payload => fs[p] = Absent
  BY ServerAssumption DEF FileInit, ServerInit
<1>2. \A p \in Paths : fs[p].kind # "file" => fs[p].data = <<>>
  <2>1. Directory.data = <<>> /\ Absent.data = <<>> /\ \A d : File(d).kind = "file"
    BY DEF Directory, Absent, File
  <2> QED
    BY <1>1, <2>1
<1>3. ASSUME NEW d \in Paths, NEW p \in Paths, p \in Under(d), p # d, fs[p].kind # "none"
      PROVE  fs[d].kind = "dir"
  <2>1. p \in DirsAtStart \cup DOMAIN Payload
    BY <1>1, <1>3 DEF Absent
  <2>2. Len(d) \in 0 .. Len(p) - 1 /\ d = SubSeq(p, 1, Len(d))
    BY <1>3, PathFacts DEF Under
  <2>3. d \in DirsAtStart
    BY <2>1, <2>2, ServerAssumption
  <2> QED
    BY <1>1, <2>3 DEF Directory
<1> QED
  BY <1>2, <1>3 DEF DriveInv, Tree, FileInit

\* What c knows is not changed by the others.
LEMMA OthersLeaveKnown ==
  ASSUME FileInv, DriveInv, NEW c \in Clients, StepOf(c), NEW x \in Clients \ {c}, ~At(x, "idle")
  PROVE  /\ \A p \in Paths : \A kind : Known(x, p, kind) => Known(x, p, kind)'
         /\ \A p \in Paths : NoDir(x, p) => NoDir(x, p)'
<1>1. /\ touched[x] \subseteq touched'[x]
      /\ \A p \in Paths : fs'[p].kind = fs[p].kind \/ p \in touched'[x]
  BY TouchedSteps DEF DriveInv
<1> QED
  BY <1>1 DEF Known, NoDir

\* The actions at each stage of the calls below.
LEMMA StageActions ==
  ASSUME NEW c \in Clients, StepOf(c)
  PROVE  /\ At(c, "idle") => \/ \E k \in Calls[c] : StartCall(c, k)
                             \/ \E h \in held[c] : FileClose(c, h)
         /\ At(c, "platform") => ReadPlatformId(c)
         /\ st[c].pc \in {"mark", "append_marker"} => CreateMarker(c) \/ AppendMarker(c)
         /\ At(c, "close_marker") => CloseMarker(c)
         /\ At(c, "delete_marker") => DeleteMarker(c)
         /\ At(c, "find") => FindFirstEntry(c)
         /\ At(c, "find_next") => FindNextEntry(c)
         /\ At(c, "close_find") => CloseFind(c)
         /\ At(c, "abort_find") => AbortFind(c)
         /\ At(c, "delete_entry") => DeleteEntry(c)
         /\ At(c, "visit") => \/ TreeDeleted(c) \/ ExpandDirectory(c) \/ KeepRoot(c)
                              \/ DeleteDirectory(c)
         /\ At(c, "delete_as_file") => DeleteAsFile(c)
  BY DEF StepOf, ClientStep, At, StartCall, FileClose, ReadPlatformId, FileDelete,
         FileOpen, CreateMarker, AppendMarker, CloseMarker, DeleteMarker, OpenSource, DropSource,
         CopyRead, CopyWrite, CloseTarget, CloseSource, DeleteSource, FindFirstEntry, FindNextEntry,
         CloseFind, AbortFind, DeleteEntry, TreeDeleted, ExpandDirectory, KeepRoot, DeleteDirectory,
         DeleteAsFile

\* A call that has begun stays the same call.
LEMMA CallStays ==
  ASSUME TypeInv, NEW c \in Clients, ClientInv(c), StepOf(c), ~At(c, "idle")
  PROVE  st'[c].call = st[c].call
<1> DEFINE s == st[c]
<1>1. DOMAIN s = Fields
  BY DEF TypeInv
<1>2. \A k : Started(k).call = k /\ Fresh(k).call = k
  BY DEF Started, Fresh
<1>3. ~(\E k \in Calls[c] : StartCall(c, k)) /\ ~(\E h \in held[c] : FileClose(c, h))
  BY DEF StartCall, FileClose
<1>4. CASE \/ FileDelete(c) \/ FindFirstEntry(c) \/ FindNextEntry(c) \/ CloseFind(c) \/ AbortFind(c)
           \/ DeleteEntry(c) \/ TreeDeleted(c) \/ ExpandDirectory(c) \/ KeepRoot(c)
           \/ DeleteDirectory(c) \/ DeleteAsFile(c)
  BY <1>4, OtherCallStays
<1>5. CASE ReadPlatformId(c)
  <2>1. st'[c] = Started(s.call) \/ \E r : Return(c, r)
    BY <1>5 DEF ReadPlatformId, TypeInv
  <2> QED
    BY <1>2, <2>1, ReturnCall
<1>6. CASE FileOpen(c)
  <2>1. \/ \E v : Continue(c, [s EXCEPT !.pc = "read", !.dst = v])
        \/ st' = [st EXCEPT ![c] = Fresh(@.call)]
        \/ \E d : Continue(c, [s EXCEPT !.pc = "mark", !.parents = TRUE, !.dirs = d])
        \/ \E r : Fails(c, r)
    BY <1>6 DEF FileOpen
  <2>2. /\ \A v : [s EXCEPT !.pc = "read", !.dst = v].call = s.call
        /\ \A d : [s EXCEPT !.pc = "mark", !.parents = TRUE, !.dirs = d].call = s.call
    BY <1>1 DEF Fields
  <2>3. st' = [st EXCEPT ![c] = Fresh(@.call)] => st'[c] = Fresh(s.call)
    BY DEF TypeInv
  <2>4. \/ \E t : Continue(c, t) /\ t.call = s.call
        \/ st'[c] = Fresh(s.call)
        \/ \E r : Fails(c, r)
    BY <2>1, <2>2, <2>3, Zenon
  <2> QED
    BY <1>2, <2>4, ContinueCall, FailsCall
<1>7. CASE CreateMarker(c) \/ AppendMarker(c) \/ CloseMarker(c)
  <2>1. \/ \E v : Continue(c, [s EXCEPT !.pc = "close_marker", !.marker = v])
        \/ Continue(c, [s EXCEPT !.pc = "append_marker"])
        \/ Continue(c, [s EXCEPT !.pc = "delete_marker", !.marker = 0])
        \/ \E r : Fails(c, r)
    BY <1>7 DEF CreateMarker, AppendMarker, OpenMarker, CloseMarker
  <2>2. /\ \A pc, v : [s EXCEPT !.pc = pc, !.marker = v].call = s.call
        /\ [s EXCEPT !.pc = "append_marker"].call = s.call
    BY <1>1 DEF Fields
  <2>3. (\E t : Continue(c, t) /\ t.call = s.call) \/ \E r : Fails(c, r)
    BY <2>1, <2>2, Zenon
  <2> QED
    BY <2>3, ContinueCall, FailsCall
<1>8. CASE DeleteMarker(c)
  <2>1. PICK t : t = [s EXCEPT !.dirs = Tail(@)]
    OBVIOUS
  <2>2. t.call = s.call /\ DOMAIN t = Fields
    BY <1>1, <2>1 DEF Fields
  <2>3. \/ \E pc : Continue(c, [t EXCEPT !.pc = pc])
        \/ Return(c, "OK")
        \/ \E r : Fails(c, r)
    BY <1>8, <2>1 DEF DeleteMarker, DirCreated
  <2>4. \A pc : [t EXCEPT !.pc = pc].call = s.call
    BY <2>2 DEF Fields
  <2> QED
    BY <2>3, <2>4, ContinueCall, FailsCall, ReturnCall
<1>9. CASE \/ OpenSource(c) \/ DropSource(c) \/ CopyRead(c) \/ CopyWrite(c)
           \/ CloseTarget(c) \/ CloseSource(c) \/ DeleteSource(c)
  <2>1. \/ \E r : Return(c, r)
        \/ \E v : Continue(c, [s EXCEPT !.pc = "open", !.src = v])
        \/ \E v : Continue(c, [s EXCEPT !.pc = "write", !.block = v])
        \/ \E r : Continue(c, [s EXCEPT !.pc = "close_dst", !.status = r])
        \/ \E pc, r : Continue(c, [s EXCEPT !.pc = pc, !.status = r, !.block = 0])
        \/ \E r : Continue(c, [s EXCEPT !.pc = "close_src", !.status = r])
        \/ Continue(c, [s EXCEPT !.pc = "delete_src"])
    BY <1>9, Zenon DEF OpenSource, DropSource, CopyRead, CopyWrite, CloseTarget, CloseSource, DeleteSource
  <2>2. /\ \A pc, v : [s EXCEPT !.pc = pc, !.src = v].call = s.call
        /\ \A pc, v : [s EXCEPT !.pc = pc, !.block = v].call = s.call
        /\ \A pc, r : [s EXCEPT !.pc = pc, !.status = r].call = s.call
        /\ \A pc, r : [s EXCEPT !.pc = pc, !.status = r, !.block = 0].call = s.call
        /\ [s EXCEPT !.pc = "delete_src"].call = s.call
    BY <1>1 DEF Fields
  <2> DEFINE GoesOnAs(t) == Continue(c, t) /\ t.call = s.call
  <2>3. /\ \A v : Continue(c, [s EXCEPT !.pc = "open", !.src = v]) =>
                 GoesOnAs([s EXCEPT !.pc = "open", !.src = v])
        /\ \A v : Continue(c, [s EXCEPT !.pc = "write", !.block = v]) =>
                 GoesOnAs([s EXCEPT !.pc = "write", !.block = v])
        /\ \A r : Continue(c, [s EXCEPT !.pc = "close_dst", !.status = r]) =>
                 GoesOnAs([s EXCEPT !.pc = "close_dst", !.status = r])
        /\ \A pc, r : Continue(c, [s EXCEPT !.pc = pc, !.status = r, !.block = 0]) =>
                 GoesOnAs([s EXCEPT !.pc = pc, !.status = r, !.block = 0])
        /\ \A r : Continue(c, [s EXCEPT !.pc = "close_src", !.status = r]) =>
                 GoesOnAs([s EXCEPT !.pc = "close_src", !.status = r])
        /\ Continue(c, [s EXCEPT !.pc = "delete_src"]) => GoesOnAs([s EXCEPT !.pc = "delete_src"])
    BY <2>2, Zenon
  <2>4. (\E r : Return(c, r)) \/ \E t : GoesOnAs(t)
    <3> HIDE DEF GoesOnAs
    <3> QED
      BY <2>1, <2>3, Zenon
  <2> QED
    BY <2>4, ContinueCall, ReturnCall
<1> QED
  BY <1>3, <1>4, <1>5, <1>6, <1>7, <1>8, <1>9 DEF StepOf, ClientStep

\* The steps between two calls, and the first of a call.
LEMMA CallStarts ==
  ASSUME FileInv, NEW c \in Clients, StepOf(c), At(c, "idle") \/ At(c, "platform")
  PROVE  /\ ~Returns(c, "OK")
         /\ \/ st'[c].pc \in {"idle", "platform"}
            \/ \E k \in Calls[c] : st'[c] = Started(k)
<1>1. CASE \E k \in Calls[c] : StartCall(c, k)
  <2>1. PICK k \in Calls[c] : StartCall(c, k)
    BY <1>1
  <2>2. At(c, "idle")
    BY <2>1 DEF StartCall
  <2>3. \/ st'[c] = Fresh(k) \/ st'[c] = Started(k)
        \/ st'[c] = [Fresh(k) EXCEPT !.pc = "platform"]
    BY <2>1 DEF StartCall, FileInv, TypeInv
  <2>4. Fresh(k).pc = "idle" /\ [Fresh(k) EXCEPT !.pc = "platform"].pc = "platform"
    BY DEF Fresh
  <2>5. st'[c].pc \in {"idle", "platform"} \/ st'[c] = Started(k)
    BY <2>3, <2>4
  <2> QED
    BY <2>2, <2>5 DEF Returns
<1>2. CASE \E h \in held[c] : FileClose(c, h)
  BY <1>2 DEF FileClose, Returns, At
<1>3. CASE ReadPlatformId(c)
  <2>1. st[c].pc = "platform" /\ st[c].call \in Calls[c]
    BY <1>3 DEF ReadPlatformId, At, FileInv, ClientInv, StageInv
  <2>2. \/ st'[c] = Started(st[c].call)
        \/ \E a \in Replies({Refuse("OK")}) : a.lost = 1 /\ Return(c, a.ret)
    BY <1>3 DEF ReadPlatformId, FileInv, TypeInv
  <2>3. ASSUME NEW a \in Replies({Refuse("OK")}), a.lost = 1
        PROVE  a.ret = "FAIL"
    <3>1. PICK b : b = Refuse("OK")
      OBVIOUS
    <3>2. b = [fs |-> fs, open |-> open, ret |-> "OK", val |-> 0, lost |-> 0]
      BY <3>1 DEF Refuse, Answer
    <3>3. \/ a = b
          \/ a = [b EXCEPT !.ret = "FAIL", !.lost = 1]
          \/ a = [b EXCEPT !.ret = "FAIL", !.lost = 1, !.fs = fs, !.open = open]
      BY <2>3, <3>1 DEF Replies
    <3>4. CASE a = b
      BY <2>3, <3>2, <3>4
    <3>5. CASE a = [b EXCEPT !.ret = "FAIL", !.lost = 1]
      BY <3>2, <3>5
    <3>6. CASE a = [b EXCEPT !.ret = "FAIL", !.lost = 1, !.fs = fs, !.open = open]
      BY <3>2, <3>6
    <3> QED
      BY <3>3, <3>4, <3>5, <3>6
  <2>4. st'[c] = Started(st[c].call) \/ Return(c, "FAIL")
    BY <2>2, <2>3
  <2>5. CASE st'[c] = Started(st[c].call)
    <3>1. st[c].call.op \in Operations
      BY <2>1, CallsAssumption
    <3>2. Started(st[c].call).pc # "idle"
      BY <3>1 DEF Started, FirstStep, Fresh, Operations
    <3> QED
      BY <2>1, <2>5, <3>2 DEF Returns
  <2>6. CASE Return(c, "FAIL")
    <3>1. st'[c].pc = "idle"
      BY <2>6, ReturnCall DEF FileInv
    <3>2. ret'[c] = "FAIL"
      BY <2>6 DEF Return, FileInv, TypeInv
    <3> QED
      BY <3>1, <3>2 DEF Returns
  <2> QED
    BY <2>4, <2>5, <2>6
<1> QED
  BY <1>1, <1>2, <1>3, StageActions

-----------------------------------------------------------------------------
(* DirCreate makes the directory, and those above it. *)

\* The directories whose marker has still to be opened.
Pending(s) ==
    {s.dirs[i] : i \in (IF s.pc \in {"close_marker", "delete_marker"} THEN 2 ELSE 1) .. Len(s.dirs)}

\* Each directory of the path is there, or its turn comes.
MakeInv(c) ==
    st[c].call.op = "mkdir" /\ st[c].pc \in Marking =>
        \A d \in Paths : Normalized(st[c].call.path) \in Under(d) =>
            Known(c, d, "dir") \/ d \in Pending(st[c])

\* The part of the action property that is about the steps of c.
MakesDirs(c) ==
    st[c].call.op = "mkdir" /\ Returns(c, "OK") =>
        \A d \in Paths : Normalized(st[c].call.path) \in Under(d) =>
            fs'[d] = Directory \/ d \in touched'[c]

LEMMA OthersKeepMake ==
  ASSUME FileInv, DriveInv, NEW c \in Clients, StepOf(c), Frame(c),
         NEW x \in Clients \ {c}, MakeInv(x)
  PROVE  MakeInv(x)' /\ MakesDirs(x)
<1>1. st'[x] = st[x]
  BY DEF Frame
<1>2. MakesDirs(x)
  BY <1>1 DEF MakesDirs, Returns, At
<1>3. ASSUME st[x].pc \in Marking
      PROVE  \A d \in Paths : Known(x, d, "dir") => Known(x, d, "dir")'
  BY <1>3, OthersLeaveKnown DEF At, Marking
<1>4. Pending(st[x])' = Pending(st[x])
  BY <1>1 DEF Pending
<1> QED
  BY <1>1, <1>2, <1>3, <1>4 DEF MakeInv

LEMMA MakeStarts ==
  ASSUME NEW c \in Clients, NEW k \in Calls[c], st'[c] = Started(k)
  PROVE  MakeInv(c)'
<1>1. PICK t : t = Started(k)
  OBVIOUS
<1>2. /\ t.call = k /\ t.pc = FirstStep(k)
      /\ k.op = "mkdir" => t.dirs = WithAncestors(Normalized(k.path))
  BY <1>1 DEF Started, Fresh
<1>3. ASSUME k.op = "mkdir", NEW d \in Paths, Normalized(k.path) \in Under(d)
      PROVE  d \in Pending(t)
  <2> DEFINE p == Normalized(k.path)
  <2>1. t.pc = "mark"
    BY <1>2, <1>3 DEF FirstStep
  <2>2. p \in Paths /\ p \in Seq(STRING) /\ Len(p) \in Nat /\ Len(d) \in Nat
    BY PathFacts, CallsAssumption
  <2>3. Len(d) <= Len(p) /\ d = SubSeq(p, 1, Len(d))
    BY <1>3 DEF Under
  <2>4. /\ Len(t.dirs) = Len(p) + 1
        /\ \A i \in 1 .. Len(p) + 1 : t.dirs[i] = SubSeq(p, 1, i - 1)
    BY <1>2, <1>3, <2>2 DEF WithAncestors
  <2>5. PICK i : i = Len(d) + 1
    OBVIOUS
  <2>6. i \in 1 .. Len(p) + 1 /\ i - 1 = Len(d)
    BY <2>2, <2>3, <2>5
  <2>7. i \in 1 .. Len(t.dirs) /\ t.dirs[i] = d
    BY <2>3, <2>4, <2>6
  <2> QED
    BY <2>1, <2>7 DEF Pending
<1>4. Pending(st[c])' = Pending(t)
  BY <1>1 DEF Pending
<1> QED
  BY <1>1, <1>2, <1>3, <1>4 DEF MakeInv

LEMMA CallReturns ==
  ASSUME FileInv, NEW c \in Clients, NEW r, Return(c, r), r # "OK"
  PROVE  st'[c].pc = "idle" /\ ~Returns(c, "OK")
<1>1. st'[c].pc = "idle"
  BY ReturnCall DEF FileInv
<1>2. ret'[c] = r
  BY DEF Return, FileInv, TypeInv
<1> QED
  BY <1>1, <1>2 DEF Returns

LEMMA MarkerBelow ==
  ASSUME NEW d \in Paths, Marker(d) \in Paths
  PROVE  Marker(d) \in Under(d) /\ Marker(d) # d
<1>1. d \in Seq(STRING) /\ Len(d) \in Nat
  BY PathFacts
<1>2. Marker(d) \in Seq(STRING)
  BY PathFacts
<1>3. PICK m \in Paths : m = Marker(d)
  OBVIOUS
<1>4. Len(m) = Len(d) + 1 /\ \A i \in 1 .. Len(d) : m[i] = d[i]
  BY <1>1, <1>3 DEF Marker
<1>5. SubSeq(m, 1, Len(d)) = d
  BY <1>1, <1>2, <1>3, <1>4
<1> QED
  BY <1>1, <1>3, <1>4, <1>5 DEF Under

\* The service creates the directory for the marker, with those above it.
LEMMA MakeOpens ==
  ASSUME FileInv, DriveInv, DriveInv', NEW c \in Clients, StepOf(c), MakeInv(c),
         CreateMarker(c) \/ AppendMarker(c), st[c].call.op = "mkdir"
  PROVE  MakeInv(c)' /\ MakesDirs(c)
<1> DEFINE s == st[c]
           root == Normalized(s.call.path)
           p == Marker(Head(s.dirs))
<1>1. s.pc \in {"mark", "append_marker"} /\ s.pc \in Marking /\ ~At(c, "idle") /\ DOMAIN s = Fields
  BY DEF CreateMarker, AppendMarker, At, Marking, FileInv, TypeInv
<1>2. s.dirs \in Seq(Paths) /\ s.dirs # <<>> /\ p \in Paths
  BY <1>1, MarkingStage DEF FileInv
<1>3. touched'[c] = touched[c]
  BY <1>1, TouchedSteps DEF DriveInv
<1>4. PICK append \in BOOLEAN :
         \E a \in Replies(OpenToWrite(c, calls[c], p, append)) :
           /\ Serve(c, a)
           /\ \/ /\ a.ret = "OK"
                 /\ Continue(c, [s EXCEPT !.pc = "close_marker", !.marker = a.val])
              \/ /\ a.ret = "NOTFOUND"
                 /\ Continue(c, [s EXCEPT !.pc = "append_marker"])
              \/ a.ret # "OK" /\ Return(c, a.ret)
  BY DEF CreateMarker, AppendMarker, OpenMarker, Fails
<1>5. PICK a \in Replies(OpenToWrite(c, calls[c], p, append)) :
         /\ Serve(c, a)
         /\ \/ /\ a.ret = "OK"
               /\ Continue(c, [s EXCEPT !.pc = "close_marker", !.marker = a.val])
            \/ /\ a.ret = "NOTFOUND"
               /\ Continue(c, [s EXCEPT !.pc = "append_marker"])
            \/ a.ret # "OK" /\ Return(c, a.ret)
  BY <1>4
<1>6. /\ a.ret = "OK" => Made(p)
      /\ a.ret = "NOTFOUND" => fs' = fs
  BY <1>2, <1>5, OpenToWriteEffect DEF FileInv
<1>7. CASE a.ret = "OK" /\ Continue(c, [s EXCEPT !.pc = "close_marker", !.marker = a.val])
  <2>1. PICK t : t = [s EXCEPT !.pc = "close_marker", !.marker = a.val]
    OBVIOUS
  <2>2. t.pc = "close_marker" /\ t.dirs = s.dirs /\ t.call = s.call /\ st'[c] = t
    BY <1>1, <1>7, <2>1 DEF Fields, Continue, FileInv, TypeInv
  <2>3. ASSUME NEW d \in Paths, root \in Under(d)
        PROVE  Known(c, d, "dir")' \/ d \in Pending(t)
    <3>1. CASE Known(c, d, "dir")
      BY <1>3, <1>6, <1>7, <3>1 DEF Known, Made
    <3>2. CASE d \in Pending(s)
      <4>1. PICK i \in 1 .. Len(s.dirs) : s.dirs[i] = d
        BY <1>1, <3>2 DEF Pending
      <4>2. CASE i = 1
        <5>1. p = Marker(d)
          BY <1>2, <4>1, <4>2
        <5>2. p \in Under(d) /\ p # d
          BY <1>2, <5>1, MarkerBelow
        <5>3. fs'[p].kind = "file"
          BY <1>6, <1>7 DEF Made, File
        <5>4. fs'[d].kind = "dir"
          BY <1>2, <5>2, <5>3 DEF DriveInv, Tree
        <5> QED
          BY <5>4 DEF Known
      <4>3. CASE i # 1
        <5>1. i \in 2 .. Len(t.dirs) /\ t.dirs[i] = d
          BY <1>2, <2>2, <4>1, <4>3
        <5> QED
          BY <2>2, <5>1 DEF Pending
      <4> QED
        BY <4>2, <4>3
    <3> QED
      BY <1>1, <2>3, <3>1, <3>2 DEF MakeInv
  <2>4. Pending(st[c])' = Pending(t)
    BY <2>2 DEF Pending
  <2> QED
    BY <2>2, <2>3, <2>4 DEF MakeInv, MakesDirs, Returns
<1>8. CASE a.ret = "NOTFOUND" /\ Continue(c, [s EXCEPT !.pc = "append_marker"])
  <2>1. PICK t : t = [s EXCEPT !.pc = "append_marker"]
    OBVIOUS
  <2>2. t.pc = "append_marker" /\ t.dirs = s.dirs /\ t.call = s.call /\ st'[c] = t
    BY <1>1, <1>8, <2>1 DEF Fields, Continue, FileInv, TypeInv
  <2>3. Pending(st[c])' = Pending(s)
    BY <1>1, <2>2 DEF Pending
  <2>4. \A d : Known(c, d, "dir") => Known(c, d, "dir")'
    BY <1>3, <1>6, <1>8 DEF Known
  <2> QED
    BY <1>1, <2>2, <2>3, <2>4 DEF MakeInv, MakesDirs, Returns
<1>9. CASE a.ret # "OK" /\ Return(c, a.ret)
  <2>1. st'[c].pc = "idle" /\ ~Returns(c, "OK")
    BY <1>9, CallReturns
  <2> QED
    BY <2>1 DEF MakeInv, MakesDirs, Marking
<1> QED
  BY <1>5, <1>7, <1>8, <1>9

LEMMA MakeCloses ==
  ASSUME FileInv, DriveInv, NEW c \in Clients, StepOf(c), MakeInv(c),
         CloseMarker(c), st[c].call.op = "mkdir"
  PROVE  MakeInv(c)' /\ MakesDirs(c)
<1> DEFINE s == st[c]
<1>1. s.pc = "close_marker" /\ s.pc \in Marking /\ ~At(c, "idle") /\ DOMAIN s = Fields
  BY DEF CloseMarker, At, Marking, FileInv, TypeInv
<1>2. touched'[c] = touched[c]
  BY <1>1, TouchedSteps DEF DriveInv
<1>3. PICK a \in Replies(Close(s.marker)) :
         /\ Serve(c, a)
         /\ \/ Continue(c, [s EXCEPT !.pc = "delete_marker", !.marker = 0])
            \/ a.ret # "OK" /\ Return(c, a.ret)
  BY DEF CloseMarker, Fails
<1>4. fs' = fs
  BY <1>3, CloseEffect DEF FileInv, TypeInv
<1>5. CASE Continue(c, [s EXCEPT !.pc = "delete_marker", !.marker = 0])
  <2>1. PICK t : t = [s EXCEPT !.pc = "delete_marker", !.marker = 0]
    OBVIOUS
  <2>2. t.pc = "delete_marker" /\ t.dirs = s.dirs /\ t.call = s.call /\ st'[c] = t
    BY <1>1, <1>5, <2>1 DEF Fields, Continue, FileInv, TypeInv
  <2>3. Pending(st[c])' = Pending(s)
    BY <1>1, <2>2 DEF Pending
  <2>4. \A d : Known(c, d, "dir") => Known(c, d, "dir")'
    BY <1>2, <1>4 DEF Known
  <2> QED
    BY <1>1, <2>2, <2>3, <2>4 DEF MakeInv, MakesDirs, Returns
<1>6. CASE a.ret # "OK" /\ Return(c, a.ret)
  <2>1. st'[c].pc = "idle" /\ ~Returns(c, "OK")
    BY <1>6, CallReturns
  <2> QED
    BY <2>1 DEF MakeInv, MakesDirs, Marking
<1> QED
  BY <1>3, <1>5, <1>6

\* The last directory's marker is gone when all of them are there.
LEMMA MakeDeletes ==
  ASSUME FileInv, FileInv', DriveInv, DriveInv', NEW c \in Clients, StepOf(c), MakeInv(c),
         DeleteMarker(c), st[c].call.op = "mkdir"
  PROVE  MakeInv(c)' /\ MakesDirs(c)
<1> DEFINE s == st[c]
           root == Normalized(s.call.path)
           p == Marker(Head(s.dirs))
<1>1. s.pc = "delete_marker" /\ s.pc \in Marking /\ ~At(c, "idle") /\ DOMAIN s = Fields
  BY DEF DeleteMarker, At, Marking, FileInv, TypeInv
<1>2. s.dirs \in Seq(Paths) /\ s.dirs # <<>> /\ p \in Paths /\ ~s.parents
  BY <1>1, MarkingStage DEF FileInv
<1>3. touched'[c] = touched[c]
  BY <1>1, TouchedSteps DEF DriveInv
<1>4. PICK t : t = [s EXCEPT !.dirs = Tail(@)]
  OBVIOUS
<1>5. t.dirs = Tail(s.dirs) /\ t.call = s.call /\ ~t.parents /\ DOMAIN t = Fields
  BY <1>1, <1>2, <1>4 DEF Fields
<1>6. PICK a \in Replies(DeleteFile(p)) :
         /\ Serve(c, a)
         /\ \/ t.dirs # <<>> /\ Continue(c, [t EXCEPT !.pc = "mark"])
            \/ t.dirs = <<>> /\ Return(c, "OK")
            \/ a.ret # "OK" /\ Return(c, a.ret)
  BY <1>4, <1>5 DEF DeleteMarker, DirCreated, Fails, Gone
<1>7. fs' = fs \/ (fs[p].kind = "file" /\ fs' = [fs EXCEPT ![p] = Absent])
  BY <1>2, <1>6, DeleteEffect DEF FileInv
<1>8. \A d \in Paths : Known(c, d, "dir") => Known(c, d, "dir")'
  BY <1>3, <1>7 DEF Known, FileInv, TypeInv
<1>9. \A d \in Paths : root \in Under(d) =>
         Known(c, d, "dir")' \/ \E i \in 2 .. Len(s.dirs) : s.dirs[i] = d
  BY <1>1, <1>8 DEF MakeInv, Pending
<1>10. CASE t.dirs # <<>> /\ Continue(c, [t EXCEPT !.pc = "mark"])
  <2>1. PICK u : u = [t EXCEPT !.pc = "mark"]
    OBVIOUS
  <2>2. u.pc = "mark" /\ u.dirs = Tail(s.dirs) /\ u.call = s.call /\ st'[c] = u
    BY <1>5, <1>10, <2>1 DEF Fields, Continue, FileInv, TypeInv
  <2>3. ASSUME NEW i \in 2 .. Len(s.dirs)
        PROVE  s.dirs[i] \in Pending(u)
    <3>1. i - 1 \in 1 .. Len(u.dirs) /\ u.dirs[i - 1] = s.dirs[i]
      BY <1>2, <2>2
    <3> QED
      BY <2>2, <3>1 DEF Pending
  <2>4. Pending(st[c])' = Pending(u)
    BY <2>2 DEF Pending
  <2> QED
    BY <1>9, <2>2, <2>3, <2>4 DEF MakeInv, MakesDirs, Returns
<1>11. CASE t.dirs = <<>> /\ Return(c, "OK")
  <2>1. \A i \in 2 .. Len(s.dirs) : FALSE
    <3>1. PICK dirs \in Seq(Paths) : dirs = s.dirs /\ dirs # <<>> /\ Tail(dirs) = <<>>
      BY <1>2, <1>5, <1>11
    <3>2. Len(Tail(dirs)) = Len(dirs) - 1 /\ Len(dirs) \in Nat
      BY <3>1, HeadTailProperties
    <3>3. Len(<<>>) = 0
      OBVIOUS
    <3>4. Len(Tail(dirs)) = 0
      BY <3>1, <3>3, Zenon
    <3>5. Len(dirs) = 1
      BY <3>2, <3>4
    <3> QED
      BY <3>1, <3>5
  <2>2. ASSUME NEW d \in Paths, root \in Under(d)
        PROVE  fs'[d] = Directory \/ d \in touched'[c]
    <3>1. fs'[d].kind = "dir" \/ d \in touched'[c]
      BY <1>9, <2>1, <2>2 DEF Known
    <3>2. fs'[d].kind = "dir" => fs'[d].data = <<>>
      BY DEF DriveInv, Tree
    <3>3. fs'[d] \in Entries
      BY DEF FileInv, TypeInv
    <3> QED
      BY <3>1, <3>2, <3>3 DEF Entries, Directory
  <2>3. st'[c].pc = "idle"
    BY <1>11, ReturnCall DEF FileInv
  <2> QED
    BY <2>2, <2>3 DEF MakeInv, MakesDirs, Marking
<1>12. CASE a.ret # "OK" /\ Return(c, a.ret)
  <2>1. st'[c].pc = "idle" /\ ~Returns(c, "OK")
    BY <1>12, CallReturns
  <2> QED
    BY <2>1 DEF MakeInv, MakesDirs, Marking
<1> QED
  BY <1>6, <1>10, <1>11, <1>12

LEMMA MakeStep ==
  ASSUME FlagsAreNoHandle, FileInv, DriveInv, NEW c \in Clients, StepOf(c), MakeInv(c)
  PROVE  MakeInv(c)' /\ MakesDirs(c)
<1>1. FileInv' /\ DriveInv'
  BY StepKeepsInv, DriveStep
<1>2. CASE At(c, "idle") \/ At(c, "platform")
  <2>1. ~Returns(c, "OK") /\ \/ st'[c].pc \in {"idle", "platform"}
                             \/ \E k \in Calls[c] : st'[c] = Started(k)
    BY <1>2, CallStarts
  <2> QED
    BY <2>1, MakeStarts DEF MakeInv, MakesDirs, Marking
<1>3. CASE ~At(c, "idle") /\ ~At(c, "platform")
  <2>1. st'[c].call = st[c].call
    BY <1>3, CallStays DEF FileInv
  <2>2. CASE st[c].call.op # "mkdir"
    BY <2>1, <2>2 DEF MakeInv, MakesDirs
  <2>3. CASE st[c].call.op = "mkdir"
    <3>1. st[c].pc \in Marking
      BY <1>3, <2>3 DEF FileInv, ClientInv, StageInv, At
    <3>2. CreateMarker(c) \/ AppendMarker(c) \/ CloseMarker(c) \/ DeleteMarker(c)
      BY <3>1, StageActions DEF Marking, At
    <3> QED
      BY <1>1, <2>3, <3>2, MakeOpens, MakeCloses, MakeDeletes
  <2> QED
    BY <2>2, <2>3
<1> QED
  BY <1>2, <1>3

\* The drive stays a tree: whatever is there lies in a directory that is there.
THEOREM DriveStaysTree ==
  ASSUME FlagsAreNoHandle
  PROVE  FileSpec => []DriveInv
<1>1. FileInv /\ DriveInv /\ [FileNext]_fileVars => DriveInv'
  <2>1. FileInv /\ DriveInv /\ FileNext => DriveInv'
    BY DriveStep DEF FileNext, StepOf
  <2>2. DriveInv /\ UNCHANGED fileVars => DriveInv'
    BY DEF DriveInv, Tree, fileVars
  <2> QED
    BY <2>1, <2>2
<1> QED
  BY <1>1, DriveStart, FileInvariant, PTL DEF FileSpec

\* A DirCreate that succeeds has made the directory and all above it, unless
\* another client has deleted one of them.
THEOREM DirsAreMade ==
  ASSUME FlagsAreNoHandle
  PROVE  FileSpec => DirCreateMakes
<1> DEFINE Makes ==
        \A c \in Clients : st[c].call.op = "mkdir" /\ Returns(c, "OK") =>
          \A d \in Paths : Normalized(st[c].call.path) \in Under(d) =>
              fs'[d] = Directory \/ d \in touched'[c]
           AllMake == \A c \in Clients : MakeInv(c)
<1>1. FileInit => AllMake
  BY DEF FileInit, Fresh, NoCall, CallOf, Marking, MakeInv
<1>2. ASSUME FileInv, DriveInv, AllMake, NEW c \in Clients, StepOf(c), NEW x \in Clients
      PROVE  MakeInv(x)' /\ MakesDirs(x)
  <2>1. MakeInv(c)' /\ MakesDirs(c)
    BY <1>2, MakeStep
  <2>2. Frame(c)
    BY <1>2, StepKeepsInv DEF StepInv, Common
  <2> QED
    BY <1>2, <2>1, <2>2, OthersKeepMake
<1>3. FileInv /\ DriveInv /\ AllMake /\ [FileNext]_fileVars => AllMake' /\ [Makes]_fileVars
  <2>1. FileInv /\ DriveInv /\ AllMake /\ FileNext => AllMake' /\ Makes
    BY <1>2 DEF FileNext, StepOf, MakesDirs
  <2>2. AllMake /\ UNCHANGED fileVars => AllMake'
    BY DEF fileVars, MakeInv, Known, Pending
  <2> QED
    BY <2>1, <2>2
<1> QED
  BY <1>1, <1>3, FileInvariant, DriveStaysTree, PTL DEF FileSpec, DirCreateMakes

-----------------------------------------------------------------------------
(* What an enumeration sees. *)

LEMMA FirstEntry ==
  ASSUME FileInv, NEW c \in Clients, FindFirstEntry(c)
  PROVE  /\ fs' = fs
         /\ \/ \E h : /\ st'[c] = [st[c] EXCEPT !.pc = "find_next", !.found = h]
                      /\ open'[h].left = Snapshot(EnumeratedPath(st[c]))
            \/ st'[c] = [st[c] EXCEPT !.pc = "close_find", !.found = FindFlags]
            \/ st'[c].pc = "idle" /\ ~Returns(c, "OK")
<1> DEFINE s == st[c]
<1>1. PICK p : p = EnumeratedPath(s)
  OBVIOUS
<1>2. PICK a \in Replies(FindFirst(c, calls[c], p)) :
         /\ Serve(c, a)
         /\ \/ a.ret = "OK" /\ Continue(c, [s EXCEPT !.pc = "find_next", !.found = a.val])
            \/ a.ret = "NOTFOUND" /\ Continue(c, [s EXCEPT !.pc = "close_find", !.found = FindFlags])
            \/ a.ret # "OK" /\ Return(c, a.ret)
  BY <1>1 DEF FindFirstEntry
<1>3. PICK f \in Searches(c, p) :
         /\ fs' = fs /\ f.left = Snapshot(p)
         /\ a.ret = "OK" => Granted(a.val, f)
  BY <1>2, FindFirstEffect DEF FileInv
<1>4. \A t : Continue(c, t) => st'[c] = t
  BY DEF Continue, FileInv, TypeInv
<1>5. CASE a.ret = "OK" /\ Continue(c, [s EXCEPT !.pc = "find_next", !.found = a.val])
  <2>1. open'[a.val].left = Snapshot(p)
    BY <1>3, <1>5 DEF Granted, FileInv, TypeInv
  <2> QED
    BY <1>1, <1>3, <1>4, <1>5, <2>1
<1>6. CASE Continue(c, [s EXCEPT !.pc = "close_find", !.found = FindFlags])
  BY <1>3, <1>4, <1>6
<1>7. CASE a.ret # "OK" /\ Return(c, a.ret)
  BY <1>3, <1>7, CallReturns
<1> QED
  BY <1>2, <1>5, <1>6, <1>7

LEMMA EachEntry ==
  ASSUME FileInv, NEW c \in Clients, FindNextEntry(c)
  PROVE  /\ fs' = fs
         /\ \/ \E e \in open[st[c].found].left :
                 /\ st'[c] = Enumerated(st[c], e[1], e[2])
                 /\ open'[st[c].found].left = open[st[c].found].left \ {e}
            \/ open[st[c].found].left = {} /\ st'[c] = [st[c] EXCEPT !.pc = "close_find"]
            \/ \E r : st'[c] = [st[c] EXCEPT !.pc = "abort_find", !.status = r]
<1> DEFINE s == st[c]
<1>1. s.pc = "find_next"
  BY DEF FindNextEntry, At
<1>2. Holds(c, s.found, "find")
  BY <1>1 DEF FileInv, ClientInv, UseInv, HoldsFind
<1>3. PICK h \in Handles : h = s.found /\ open[h].mode = "find" /\ open[h] \in Finds
  BY <1>2 DEF Holds, IsOf, FileInv, TypeInv, Streams, Finds, Closed
<1>4. PICK a \in Replies(FindNext(h)) :
         /\ Serve(c, a)
         /\ \/ a.ret = "OK" /\ Continue(c, Enumerated(s, a.val[1], a.val[2]))
            \/ a.ret = "NOTFOUND" /\ Continue(c, [s EXCEPT !.pc = "close_find"])
            \/ Continue(c, [s EXCEPT !.pc = "abort_find", !.status = a.ret])
  BY <1>3 DEF FindNextEntry
<1>5. /\ fs' = fs
      /\ a.ret = "OK" => a.val \in open[h].left /\ open' = [open EXCEPT ![h].left = @ \ {a.val}]
      /\ a.ret = "NOTFOUND" => open[h].left = {}
  BY <1>3, <1>4, FindNextEffect DEF FileInv
<1>6. \A t : Continue(c, t) => st'[c] = t
  BY DEF Continue, FileInv, TypeInv
<1>7. CASE a.ret = "OK" /\ Continue(c, Enumerated(s, a.val[1], a.val[2]))
  <2>1. PICK e : e = a.val
    OBVIOUS
  <2>2. e \in open[h].left /\ open' = [open EXCEPT ![h].left = @ \ {e}]
    BY <1>5, <1>7, <2>1
  <2>3. open'[h].left = open[h].left \ {e}
    BY <1>3, <2>2 DEF FileInv, TypeInv, Finds
  <2>4. st'[c] = Enumerated(s, e[1], e[2])
    BY <1>6, <1>7, <2>1
  <2> QED
    BY <1>3, <1>5, <2>2, <2>3, <2>4
<1>8. CASE a.ret = "NOTFOUND" /\ Continue(c, [s EXCEPT !.pc = "close_find"])
  BY <1>3, <1>5, <1>6, <1>8
<1>9. CASE Continue(c, [s EXCEPT !.pc = "abort_find", !.status = a.ret])
  BY <1>5, <1>6, <1>9
<1> QED
  BY <1>4, <1>7, <1>8, <1>9

\* What was no handle of the service cannot be closed.
LEMMA LastEntry ==
  ASSUME FlagsAreNoHandle, FileInv, NEW c \in Clients, CloseFind(c)
  PROVE  /\ fs' = fs
         /\ \/ st'[c].pc = "idle" /\ ~Returns(c, "OK")
            \/ /\ st[c].call.op = "list" /\ HoldsFind(st[c])
               /\ st'[c].pc = "idle" /\ ret'[c] = ListResult(st[c])
            \/ /\ st[c].call.op # "list" /\ HoldsFind(st[c])
               /\ st'[c] = [st[c] EXCEPT !.pc = "visit", !.found = 0]
<1> DEFINE s == st[c]
<1>1. s.pc = "close_find"
  BY DEF CloseFind, At
<1>2. PICK a \in Replies(Close(s.found)) :
         /\ Serve(c, a)
         /\ \/ /\ a.ret # "OK"
               /\ Return(c, IF s.call.op = "rmdir" THEN DirDeleteResult(a.ret) ELSE a.ret)
            \/ a.ret = "OK" /\ s.call.op = "list" /\ Return(c, ListResult(s))
            \/ /\ a.ret = "OK" /\ s.call.op # "list"
               /\ Continue(c, [s EXCEPT !.pc = "visit", !.found = 0])
  BY DEF CloseFind
<1>3. /\ fs' = fs /\ a.ret \in {"OK", "INVALIDOFFSET", "FAIL"}
      /\ a.ret = "OK" => s.found \in Handles
  BY <1>2, CloseEffect DEF FileInv, TypeInv
<1>4. a.ret = "OK" => HoldsFind(s)
  BY <1>1, <1>3 DEF FlagsAreNoHandle, HoldsFind
<1>5. CASE /\ a.ret # "OK"
           /\ Return(c, IF s.call.op = "rmdir" THEN DirDeleteResult(a.ret) ELSE a.ret)
  <2>1. PICK r : r = IF s.call.op = "rmdir" THEN DirDeleteResult(a.ret) ELSE a.ret
    OBVIOUS
  <2>2. r # "OK"
    BY <1>3, <1>5, <2>1 DEF DirDeleteResult, Gone
  <2> QED
    BY <1>3, <1>5, <2>1, <2>2, CallReturns
<1>6. CASE a.ret = "OK" /\ s.call.op = "list" /\ Return(c, ListResult(s))
  <2>1. st'[c].pc = "idle" /\ ret'[c] = ListResult(s)
    BY <1>6, ReturnCall DEF Return, FileInv, TypeInv
  <2> QED
    BY <1>3, <1>4, <1>6, <2>1
<1>7. CASE /\ a.ret = "OK" /\ s.call.op # "list"
           /\ Continue(c, [s EXCEPT !.pc = "visit", !.found = 0])
  BY <1>3, <1>4, <1>7 DEF Continue, FileInv, TypeInv
<1> QED
  BY <1>2, <1>5, <1>6, <1>7

\* What is not in the snapshot of a directory is not there.
LEMMA SnapshotIsAll ==
  ASSUME FileInv, NEW p \in Paths, NEW q \in Children(p), fs[q].kind # "none"
  PROVE  \E e \in Snapshot(p) : e[1] = q /\ e[2] = fs[q].kind
<1>1. <<q, fs[q].kind>> \in Snapshot(p)
  BY DEF Snapshot, Is
<1> QED
  BY <1>1

-----------------------------------------------------------------------------
(* FileList names all there is. *)

Listing == {"find", "find_next", "close_find"}
Named(s, p) == \E i \in 1 .. Len(s.names) : s.names[i] = p[Len(p)]

\* While what it has counted fits the buffer, FileList has copied every name, and
\* each entry is named or comes later.
NameInv(c) ==
    LET s == st[c]
    IN s.call.op = "list" /\ s.pc \in Listing =>
        /\ s.names \in Seq(STRING) /\ s.offset \in Nat /\ s.required \in Nat
        /\ s.offset < s.required
        /\ s.pc = "find" => s.required = 1
        /\ s.required <= s.call.length /\ HoldsFind(s) =>
              /\ s.required = s.offset + 1
              /\ \A p \in Children(Normalized(s.call.path)) :
                    \/ Known(c, p, "none") \/ Named(s, p)
                    \/ s.pc = "find_next" /\ \E e \in open[s.found].left : e[1] = p

\* The part of the action property that is about the steps of c.
NamesAll(c) ==
    st[c].call.op = "list" /\ st[c].call.length > 0 /\ Returns(c, "OK") =>
        \A p \in Children(Normalized(st[c].call.path)) :
            fs[p] # Absent /\ p \notin touched[c] => Named(st[c], p)

LEMMA OthersKeepNames ==
  ASSUME FileInv, DriveInv, NEW c \in Clients, StepOf(c), Frame(c),
         NEW x \in Clients \ {c}, NameInv(x)
  PROVE  NameInv(x)' /\ NamesAll(x)
<1> DEFINE s == st[x]
<1>1. st'[x] = st[x]
  BY DEF Frame
<1>2. NamesAll(x)
  BY <1>1 DEF NamesAll, Returns, At
<1> SUFFICES ASSUME s.call.op = "list", s.pc \in Listing
             PROVE  NameInv(x)'
  BY <1>1, <1>2 DEF NameInv
<1>3. ~At(x, "idle")
  BY DEF At, Listing
<1>4. \A p \in Paths : Known(x, p, "none") => Known(x, p, "none")'
  BY <1>3, OthersLeaveKnown
<1>5. HoldsFind(s) => open'[s.found] = open[s.found]
  BY DEF FileInv, ClientInv, UseInv, Holds, IsOf, Frame
<1>6. HoldsFind(st[x])' <=> HoldsFind(s)
  BY <1>1 DEF HoldsFind
<1>7. \A p : Named(st[x], p)' <=> Named(s, p)
  BY <1>1 DEF Named
<1>8. Children(Normalized(s.call.path)) \subseteq Paths
  BY DEF Children, Under
<1> QED
  BY <1>1, <1>4, <1>5, <1>6, <1>7, <1>8 DEF NameInv

LEMMA NameStarts ==
  ASSUME NEW c \in Clients, NEW k \in Calls[c], st'[c] = Started(k)
  PROVE  NameInv(c)'
<1>1. PICK t : t = Started(k)
  OBVIOUS
<1>2. /\ t.call = k /\ t.pc = FirstStep(k)
      /\ t.required = 1 /\ t.offset = 0 /\ t.names = <<>>
  BY <1>1 DEF Started, Fresh
<1>3. k.op = "list" => t.pc = "find"
  BY <1>2 DEF FirstStep
<1>4. t.pc = "find" => ~HoldsFind(t)
  BY DEF HoldsFind
<1>5. t.names \in Seq(STRING)
  BY <1>2
<1>6. HoldsFind(st[c])' <=> HoldsFind(t)
  BY <1>1 DEF HoldsFind
<1> QED
  BY <1>1, <1>2, <1>3, <1>4, <1>5, <1>6 DEF NameInv

LEMMA NameFinds ==
  ASSUME FileInv, DriveInv, NEW c \in Clients, StepOf(c), NameInv(c), FindFirstEntry(c),
         st[c].call.op = "list"
  PROVE  NameInv(c)' /\ NamesAll(c)
<1> DEFINE s == st[c]
           path == Normalized(s.call.path)
<1>1. s.pc = "find" /\ ~At(c, "idle") /\ DOMAIN s = Fields /\ s.call \in Calls[c]
  BY DEF FindFirstEntry, At, FileInv, TypeInv, ClientInv, StageInv
<1>2. path \in Paths /\ EnumeratedPath(s) = path
  BY <1>1, CallsAssumption DEF EnumeratedPath
<1>3. touched'[c] = touched[c] /\ fs' = fs
  BY <1>1, TouchedSteps, FirstEntry DEF DriveInv
<1>4. /\ s.names \in Seq(STRING) /\ s.offset \in Nat /\ s.required = 1 /\ s.offset = 0
  BY <1>1 DEF NameInv, Listing
<1>5. ASSUME NEW h, st'[c] = [s EXCEPT !.pc = "find_next", !.found = h],
             open'[h].left = Snapshot(path)
      PROVE  NameInv(c)' /\ NamesAll(c)
  <2>1. PICK t : t = st'[c]
    OBVIOUS
  <2>2. /\ t.pc = "find_next" /\ t.found = h /\ t.call = s.call
        /\ t.names = s.names /\ t.offset = s.offset /\ t.required = s.required
    BY <1>1, <1>5, <2>1 DEF Fields
  <2>3. ASSUME NEW p \in Children(path)
        PROVE  Known(c, p, "none")' \/ \E e \in open'[h].left : e[1] = p
    BY <1>2, <1>3, <1>5, SnapshotIsAll DEF Known
  <2> QED
    BY <1>4, <2>1, <2>2, <2>3 DEF NameInv, NamesAll, Returns
<1>6. CASE st'[c] = [s EXCEPT !.pc = "close_find", !.found = FindFlags]
  <2>1. PICK t : t = st'[c]
    OBVIOUS
  <2>2. /\ t.pc = "close_find" /\ t.found = FindFlags /\ t.call = s.call
        /\ t.names = s.names /\ t.offset = s.offset /\ t.required = s.required
    BY <1>1, <1>6, <2>1 DEF Fields
  <2> QED
    BY <1>4, <2>1, <2>2 DEF NameInv, NamesAll, Returns, HoldsFind
<1>7. CASE st'[c].pc = "idle" /\ ~Returns(c, "OK")
  BY <1>7 DEF NameInv, NamesAll, Listing
<1> QED
  BY <1>2, <1>5, <1>6, <1>7, FirstEntry

\* One more entry: it is copied exactly when the buffer still holds all of them.
LEMMA NameTakes ==
  ASSUME FileInv, DriveInv, NEW c \in Clients, StepOf(c), NameInv(c), FindNextEntry(c),
         st[c].call.op = "list"
  PROVE  NameInv(c)' /\ NamesAll(c)
<1> DEFINE s == st[c]
           path == Normalized(s.call.path)
<1>1. s.pc = "find_next" /\ ~At(c, "idle") /\ DOMAIN s = Fields /\ s.call \in Calls[c]
  BY DEF FindNextEntry, At, FileInv, TypeInv, ClientInv, StageInv
<1>2. path \in Paths /\ EnumeratedPath(s) = path /\ s.call.length \in Nat
  BY <1>1, CallsAssumption DEF EnumeratedPath
<1>3. touched'[c] = touched[c] /\ fs' = fs
  BY <1>1, TouchedSteps, EachEntry DEF DriveInv
<1>4. HoldsFind(s) /\ \A e \in open[s.found].left : e[1] \in Children(path)
  BY <1>1, <1>2 DEF HoldsFind, FileInv, ClientInv, UseInv
<1>5. /\ s.names \in Seq(STRING) /\ s.offset \in Nat /\ s.required \in Nat
      /\ s.offset < s.required
      /\ s.required <= s.call.length =>
            /\ s.required = s.offset + 1
            /\ \A p \in Children(path) :
                  \/ Known(c, p, "none") \/ Named(s, p)
                  \/ \E e \in open[s.found].left : e[1] = p
  BY <1>1, <1>4 DEF NameInv, Listing
<1>6. ASSUME NEW e \in open[s.found].left, st'[c] = Enumerated(s, e[1], e[2]),
             open'[s.found].left = open[s.found].left \ {e}
      PROVE  NameInv(c)' /\ NamesAll(c)
  <2>1. PICK t : t = st'[c]
    OBVIOUS
  <2>2. PICK q, name : q = e[1] /\ name = q[Len(q)]
    OBVIOUS
  <2>3. q \in Children(path) /\ name \in STRING /\ NameLength[name] \in Nat
    <3>1. q \in Children(path) /\ q \in Paths /\ q # <<>>
      BY <1>2, <1>4, <2>2, ChildFacts
    <3>2. q \in Seq(STRING) /\ Len(q) \in 1 .. Len(q)
      BY <3>1, PathFacts, EmptySeq
    <3>3. name \in STRING
      BY <2>2, <3>2
    <3> QED
      BY <2>2, <3>1, <3>3, CallsAssumption
  <2>4. PICK n \in Nat : n = NameLength[name]
    BY <2>3
  <2>5. t = Listed(s, name)
    BY <1>6, <2>1, <2>2 DEF Enumerated
  <2>6. /\ t.pc = "find_next" /\ t.found = s.found /\ t.call = s.call
        /\ t.required = s.required + n + 1
        /\ s.offset + n + 1 < s.call.length =>
              t.offset = s.offset + n + 1 /\ t.names = Append(s.names, name)
        /\ ~(s.offset + n + 1 < s.call.length) => t.offset = s.offset /\ t.names = s.names
    <3>1. PICK u : u = [s EXCEPT !.pc = "find_next", !.required = @ + n + 1]
      OBVIOUS
    <3>2. /\ DOMAIN u = Fields /\ u.pc = "find_next" /\ u.found = s.found /\ u.call = s.call
          /\ u.required = s.required + n + 1 /\ u.offset = s.offset /\ u.names = s.names
      BY <1>1, <3>1 DEF Fields
    <3>3. t = IF s.offset + n + 1 < s.call.length
              THEN [u EXCEPT !.offset = @ + n + 1, !.names = Append(@, name)] ELSE u
      BY <2>4, <2>5, <3>1 DEF Listed, FitsBuffer
    <3> QED
      BY <3>2, <3>3 DEF Fields
  <2>7. t.names \in Seq(STRING) /\ t.offset \in Nat /\ t.required \in Nat /\ t.offset < t.required
    <3>1. Append(s.names, name) \in Seq(STRING)
      BY <1>5, <2>3
    <3>2. t.required \in Nat
      BY <1>5, <2>6
    <3>3. CASE s.offset + n + 1 < s.call.length
      <4>1. t.offset = s.offset + n + 1 /\ t.names = Append(s.names, name)
        BY <2>6, <3>3
      <4> QED
        BY SMTT(20), <1>5, <2>6, <3>1, <3>2, <4>1
    <3>4. CASE ~(s.offset + n + 1 < s.call.length)
      <4>1. t.offset = s.offset /\ t.names = s.names
        BY <2>6, <3>4
      <4> QED
        BY <1>5, <2>6, <3>2, <4>1
    <3> QED
      BY <3>3, <3>4
  <2>8. ASSUME t.required <= t.call.length
        PROVE  /\ t.required = t.offset + 1
               /\ \A p \in Children(path) :
                    \/ Known(c, p, "none")' \/ Named(t, p)
                    \/ \E f \in open'[t.found].left : f[1] = p
    <3>1. s.required <= s.call.length /\ s.required = s.offset + 1
      BY <1>2, <1>5, <2>6, <2>8
    <3>2. s.offset + n + 1 < s.call.length
      BY <1>2, <1>5, <2>6, <2>8, <3>1
    <3>3. t.required = t.offset + 1 /\ t.names = Append(s.names, name)
      BY <1>5, <2>6, <3>1, <3>2
    <3>4. \A p : Named(s, p) => Named(t, p)
      BY <1>5, <3>3 DEF Named
    <3>5. Named(t, q)
      <4>1. Len(s.names) + 1 \in 1 .. Len(t.names) /\ t.names[Len(s.names) + 1] = name
        BY <1>5, <3>3
      <4> QED
        BY <2>2, <4>1 DEF Named
    <3>6. ASSUME NEW p \in Children(path)
          PROVE  Known(c, p, "none")' \/ Named(t, p) \/ \E f \in open'[t.found].left : f[1] = p
      <4>1. Known(c, p, "none") => Known(c, p, "none")'
        BY <1>3 DEF Known
      <4>2. ASSUME NEW f \in open[s.found].left, f[1] = p
            PROVE  Named(t, p) \/ \E g \in open'[t.found].left : g[1] = p
        BY <1>6, <2>2, <2>6, <3>5, <4>2
      <4> QED
        BY <1>5, <3>1, <3>4, <4>1, <4>2
    <3> QED
      BY <3>3, <3>6
  <2>9. \A p : Named(st[c], p)' <=> Named(t, p)
    BY <2>1 DEF Named
  <2> QED
    BY <2>1, <2>6, <2>7, <2>8, <2>9 DEF NameInv, NamesAll, Returns
<1>7. CASE open[s.found].left = {} /\ st'[c] = [s EXCEPT !.pc = "close_find"]
  <2>1. PICK t : t = st'[c]
    OBVIOUS
  <2>2. /\ t.pc = "close_find" /\ t.found = s.found /\ t.call = s.call
        /\ t.names = s.names /\ t.offset = s.offset /\ t.required = s.required
    BY <1>1, <1>7, <2>1 DEF Fields
  <2>3. \A p : Named(st[c], p)' <=> Named(s, p)
    BY <2>1, <2>2 DEF Named
  <2>4. \A p : Known(c, p, "none") => Known(c, p, "none")'
    BY <1>3 DEF Known
  <2> QED
    BY <1>5, <1>7, <2>1, <2>2, <2>3, <2>4 DEF NameInv, NamesAll, Returns
<1>8. ASSUME NEW r, st'[c] = [s EXCEPT !.pc = "abort_find", !.status = r]
      PROVE  NameInv(c)' /\ NamesAll(c)
  <2>1. st'[c].pc = "abort_find"
    BY <1>1, <1>8 DEF Fields
  <2> QED
    BY <2>1 DEF NameInv, NamesAll, Returns, Listing
<1> QED
  BY <1>6, <1>7, <1>8, EachEntry

LEMMA NameEnds ==
  ASSUME FlagsAreNoHandle, FileInv, DriveInv, NEW c \in Clients, StepOf(c), NameInv(c),
         CloseFind(c) \/ AbortFind(c), st[c].call.op = "list"
  PROVE  NameInv(c)' /\ NamesAll(c)
<1> DEFINE s == st[c]
<1>1. s.call \in Calls[c] /\ s.call.length \in Nat
  BY CallsAssumption DEF CloseFind, AbortFind, At, FileInv, ClientInv, StageInv
<1>2. CASE CloseFind(c)
  <2>1. s.pc = "close_find" /\ s.pc \in Listing
    BY <1>2 DEF CloseFind, At, Listing
  <2>2. CASE st'[c].pc = "idle" /\ ~Returns(c, "OK")
    BY <2>2 DEF NameInv, NamesAll, Listing
  <2>3. CASE HoldsFind(s) /\ st'[c].pc = "idle" /\ ret'[c] = ListResult(s)
    <3>1. ASSUME s.call.length > 0, ret'[c] = "OK",
                 NEW p \in Children(Normalized(s.call.path)), fs[p] # Absent, p \notin touched[c]
          PROVE  Named(s, p)
      <4>1. s.required \in Nat
        BY <2>1 DEF NameInv
      <4>2. s.required <= s.call.length
        BY <1>1, <2>3, <3>1, <4>1 DEF ListResult
      <4>3. Known(c, p, "none") \/ Named(s, p)
        BY <2>1, <2>3, <4>2 DEF NameInv
      <4>4. fs[p].kind # "none"
        <5>1. p \in Paths
          BY DEF Children, Under
        <5>2. fs[p].kind = "none" => fs[p].data = <<>>
          BY <5>1 DEF DriveInv, Tree
        <5>3. fs[p] \in Entries
          BY <5>1 DEF FileInv, TypeInv
        <5> QED
          BY <3>1, <5>2, <5>3 DEF Entries, Absent
      <4> QED
        BY <3>1, <4>3, <4>4 DEF Known
    <3> QED
      BY <2>3, <3>1 DEF NameInv, NamesAll, Returns, Listing
  <2> QED
    BY <1>2, <2>2, <2>3, LastEntry
<1>3. CASE AbortFind(c)
  <2>1. s.pc = "abort_find" /\ \E r : r = s.status /\ Return(c, r)
    BY <1>3 DEF AbortFind, At
  <2>2. s.status # "OK"
    BY <2>1 DEF FileInv, ClientInv, StageInv
  <2> QED
    BY <2>1, <2>2, CallReturns DEF NameInv, NamesAll, Listing
<1> QED
  BY <1>2, <1>3

LEMMA NameStep ==
  ASSUME FlagsAreNoHandle, FileInv, DriveInv, NEW c \in Clients, StepOf(c), NameInv(c)
  PROVE  NameInv(c)' /\ NamesAll(c)
<1>1. CASE At(c, "idle") \/ At(c, "platform")
  <2>1. ~Returns(c, "OK") /\ \/ st'[c].pc \in {"idle", "platform"}
                             \/ \E k \in Calls[c] : st'[c] = Started(k)
    BY <1>1, CallStarts
  <2> QED
    BY <2>1, NameStarts DEF NameInv, NamesAll, Listing
<1>2. CASE ~At(c, "idle") /\ ~At(c, "platform")
  <2>1. st'[c].call = st[c].call
    BY <1>2, CallStays DEF FileInv
  <2>2. CASE st[c].call.op # "list"
    BY <2>1, <2>2 DEF NameInv, NamesAll
  <2>3. CASE st[c].call.op = "list"
    <3>1. st[c].pc \in Finding
      BY <1>2, <2>3 DEF FileInv, ClientInv, StageInv, At
    <3>2. FindFirstEntry(c) \/ FindNextEntry(c) \/ CloseFind(c) \/ AbortFind(c)
      BY <3>1, StageActions DEF Finding, At
    <3> QED
      BY <2>3, <3>2, NameFinds, NameTakes, NameEnds
  <2> QED
    BY <2>2, <2>3
<1> QED
  BY <1>1, <1>2

\* A FileList that succeeds names every entry that was there all the time: no
\* name is cut off without an error.
THEOREM ListsAreComplete ==
  ASSUME FlagsAreNoHandle
  PROVE  FileSpec => ListComplete
<1> DEFINE Complete ==
        \A c \in Clients :
          st[c].call.op = "list" /\ st[c].call.length > 0 /\ Returns(c, "OK") =>
          \A p \in Children(Normalized(st[c].call.path)) :
              fs[p] # Absent /\ p \notin touched[c] =>
              \E i \in 1 .. Len(st[c].names) : st[c].names[i] = p[Len(p)]
           AllNames == \A c \in Clients : NameInv(c)
<1>1. FileInit => AllNames
  BY DEF FileInit, Fresh, NoCall, CallOf, Listing, NameInv
<1>2. ASSUME FileInv, DriveInv, AllNames, NEW c \in Clients, StepOf(c), NEW x \in Clients
      PROVE  NameInv(x)' /\ NamesAll(x)
  <2>1. NameInv(c)' /\ NamesAll(c)
    BY <1>2, NameStep
  <2>2. Frame(c)
    BY <1>2, StepKeepsInv DEF StepInv, Common
  <2> QED
    BY <1>2, <2>1, <2>2, OthersKeepNames
<1>3. FileInv /\ DriveInv /\ AllNames /\ [FileNext]_fileVars => AllNames' /\ [Complete]_fileVars
  <2>1. FileInv /\ DriveInv /\ AllNames /\ FileNext => AllNames' /\ Complete
    BY <1>2 DEF FileNext, StepOf, NamesAll, Named
  <2>2. AllNames /\ UNCHANGED fileVars => AllNames'
    BY DEF fileVars, NameInv, Known, Named, HoldsFind
  <2> QED
    BY <2>1, <2>2
<1> QED
  BY <1>1, <1>3, FileInvariant, DriveStaysTree, PTL DEF FileSpec, ListComplete

-----------------------------------------------------------------------------
(* DirDelete deletes all there is. *)

Clearing == {"visit", "find", "find_next", "close_find", "delete_entry", "delete_as_file"}

\* What DeleteTree still has to delete: for a node on the stack, an entry of
\* which left remain, or the entry it is at.
Awaits(n, p) == IF n.expanded THEN p = n.path ELSE p \in Under(n.path)
OnStack(stack, p) == \E i \in 1 .. Len(stack) : Awaits(stack[i], p)
Behind(e) == IF e[2] = "dir" THEN Under(e[1]) ELSE {e[1]}
Awaited(s, left, p) ==
    \/ OnStack(s.stack, p)
    \/ s.pc = "find" /\ p \in Under(s.node.path) /\ p # s.node.path
    \/ s.pc \in {"find_next", "delete_entry"} /\ \E e \in left : p \in Behind(e)
    \/ s.pc \in {"delete_entry", "delete_as_file"} /\ p = s.entry

\* What the call was asked to delete.
Asked(s) ==
    LET root == Normalized(s.call.path)
    IN {p \in Under(root) : p # root \/ s.call.self}

Waits(c, s, left) == \A p \in Asked(s) : Known(c, p, "none") \/ Awaited(s, left, p)

\* Everything in the directory is gone or its turn comes, unless there was
\* nothing to enumerate; what is taken for a file is no directory.
ClearInv(c) ==
    LET s == st[c]
        left == open[s.found].left
    IN s.call.op = "rmdir" /\ s.pc \in Clearing =>
        /\ s.pc # "close_find" \/ HoldsFind(s) => Waits(c, s, left)
        /\ s.pc \in {"find_next", "delete_entry"} => \A e \in left : e[2] # "dir" => NoDir(c, e[1])
        /\ s.pc \in {"delete_entry", "delete_as_file"} => NoDir(c, s.entry)

\* The part of the action property that is about the steps of c.
ClearsAll(c) ==
    st[c].call.op = "rmdir" /\ Returns(c, "OK") =>
        \A p \in Asked(st[c]) : fs'[p] = Absent \/ p \in touched'[c]

LEMMA ClearGoesOn ==
  ASSUME NEW c \in Clients, NEW t, st'[c] = t, t.pc # "idle",
         NEW left, t.pc \in {"find_next", "delete_entry"} => open'[t.found].left = left,
         \A p \in Asked(t) : Known(c, p, "none")' \/ Awaited(t, left, p),
         t.pc \in {"find_next", "delete_entry"} =>
             \A e \in left : e[2] # "dir" => NoDir(c, e[1])',
         t.pc \in {"delete_entry", "delete_as_file"} => NoDir(c, t.entry)'
  PROVE  ClearInv(c)' /\ ClearsAll(c)
<1>1. PICK l : l = open'[t.found].left
  OBVIOUS
<1>2. \A p : Awaited(t, left, p) => Awaited(t, l, p)
  BY <1>1 DEF Awaited
<1>3. Waits(c, st[c], open[st[c].found].left)'
  BY <1>1, <1>2 DEF Waits
<1>4. ClearsAll(c)
  BY DEF ClearsAll, Returns
<1> QED
  BY <1>1, <1>3, <1>4 DEF ClearInv

LEMMA OthersKeepClear ==
  ASSUME FileInv, DriveInv, NEW c \in Clients, StepOf(c), Frame(c),
         NEW x \in Clients \ {c}, ClearInv(x)
  PROVE  ClearInv(x)' /\ ClearsAll(x)
<1> DEFINE s == st[x]
<1>1. st'[x] = st[x]
  BY DEF Frame
<1>2. ClearsAll(x)
  BY <1>1 DEF ClearsAll, Returns, At
<1> SUFFICES ASSUME s.call.op = "rmdir", s.pc \in Clearing
             PROVE  ClearInv(x)'
  BY <1>1, <1>2 DEF ClearInv
<1>3. ~At(x, "idle")
  BY DEF At, Clearing
<1>4. /\ \A p \in Paths : Known(x, p, "none") => Known(x, p, "none")'
      /\ \A p \in Paths : NoDir(x, p) => NoDir(x, p)'
  BY <1>3, OthersLeaveKnown
<1>5. HoldsFind(s) => open'[s.found] = open[s.found] /\ \A e \in open[s.found].left : e[1] \in Paths
  BY DEF FileInv, ClientInv, UseInv, Holds, IsOf, Frame, Children, Under
<1>6. HoldsFind(st[x])' <=> HoldsFind(s)
  BY <1>1 DEF HoldsFind
<1>7. PICK l, m : l = open[s.found].left /\ m = open'[s.found].left
  OBVIOUS
<1>8. \A p : Awaited(s, l, p) => Awaited(s, m, p)
  BY <1>5, <1>7 DEF Awaited, HoldsFind
<1>9. Asked(s) \subseteq Paths
  BY DEF Asked, Under
<1>10. Waits(x, s, l) => Waits(x, st[x], open[st[x].found].left)'
  BY <1>1, <1>4, <1>7, <1>8, <1>9 DEF Waits
<1>11. s.pc \in {"delete_entry", "delete_as_file"} => s.entry \in Paths
  BY <1>3 DEF FileInv, ClientInv, WalkInv, At, Under
<1> QED
  BY <1>1, <1>4, <1>5, <1>6, <1>7, <1>10, <1>11 DEF ClearInv, HoldsFind

LEMMA ClearStarts ==
  ASSUME NEW c \in Clients, NEW k \in Calls[c], st'[c] = Started(k)
  PROVE  ClearInv(c)' /\ ClearsAll(c)
<1>1. PICK t : t = Started(k)
  OBVIOUS
<1>2. /\ t.call = k /\ t.pc = FirstStep(k) /\ k.op \in Operations
      /\ k.op = "rmdir" => t.stack = <<Node(Normalized(k.path), 0, FALSE)>>
  BY <1>1, CallsAssumption DEF Started, Fresh
<1>3. CASE k.op # "rmdir"
  <2>1. t.pc # "idle"
    BY <1>2 DEF FirstStep, Operations
  <2> QED
    BY <1>1, <1>2, <1>3, <2>1 DEF ClearInv, ClearsAll, Returns
<1>4. CASE k.op = "rmdir"
  <2>1. t.pc = "visit"
    BY <1>2, <1>4 DEF FirstStep
  <2>2. ASSUME NEW p \in Asked(t)
        PROVE  Awaited(t, {}, p)
    <3>1. p \in Under(Normalized(k.path))
      BY <1>2 DEF Asked
    <3>2. PICK n : n = Node(Normalized(k.path), 0, FALSE) /\ t.stack = <<n>>
      BY <1>2, <1>4
    <3>3. Awaits(n, p)
      BY <3>1, <3>2 DEF Awaits, Node
    <3>4. Len(<<n>>) = 1 /\ <<n>>[1] = n
      OBVIOUS
    <3>5. OnStack(<<n>>, p)
      BY <3>3, <3>4 DEF OnStack
    <3> QED
      BY <3>2, <3>5 DEF Awaited
  <2> QED
    BY <1>1, <2>1, <2>2, ClearGoesOn
<1> QED
  BY <1>3, <1>4

\* The top of the stack comes off, or something is put on it.
LEMMA StackAwaits ==
  ASSUME NEW N, NEW stack \in Seq(N)
  PROVE  /\ \A n \in N : \A p : OnStack(stack, p) \/ Awaits(n, p) => OnStack(Append(stack, n), p)
         /\ stack # <<>> => \A p : OnStack(stack, p) =>
               \/ Awaits(stack[Len(stack)], p)
               \/ OnStack(SubSeq(stack, 1, Len(stack) - 1), p)
<1>1. ASSUME NEW n \in N, NEW p, OnStack(stack, p) \/ Awaits(n, p)
      PROVE  OnStack(Append(stack, n), p)
  <2>1. PICK l : l = Append(stack, n)
    OBVIOUS
  <2>2. /\ Len(stack) \in Nat /\ Len(l) = Len(stack) + 1 /\ l[Len(stack) + 1] = n
        /\ \A i \in 1 .. Len(stack) : l[i] = stack[i]
    BY <2>1
  <2>3. CASE OnStack(stack, p)
    BY <2>1, <2>2, <2>3 DEF OnStack
  <2>4. CASE Awaits(n, p)
    <3>1. Len(stack) + 1 \in 1 .. Len(l)
      BY <2>2
    <3>2. \E i \in 1 .. Len(l) : Awaits(l[i], p)
      BY <2>2, <2>4, <3>1, Zenon
    <3> QED
      BY <2>1, <3>2 DEF OnStack
  <2> QED
    BY <1>1, <2>3, <2>4
<1>2. ASSUME stack # <<>>, NEW p, OnStack(stack, p)
      PROVE  \/ Awaits(stack[Len(stack)], p)
             \/ OnStack(SubSeq(stack, 1, Len(stack) - 1), p)
  <2>1. PICK l : l = SubSeq(stack, 1, Len(stack) - 1)
    OBVIOUS
  <2>2. Len(stack) \in Nat /\ Len(stack) > 0
    <3>1. \A l1 \in Seq(N) : l1 # <<>> => Len(l1) \in Nat /\ Len(l1) > 0
      OBVIOUS
    <3> QED
      BY <1>2, <3>1
  <2>3. Len(l) = Len(stack) - 1 /\ \A i \in 1 .. Len(stack) - 1 : l[i] = stack[i]
    <3>1. \A n \in Nat, l1 \in Seq(N) : n + 1 = Len(l1) =>
             Len(SubSeq(l1, 1, n)) = n /\ \A i \in 1 .. n : SubSeq(l1, 1, n)[i] = l1[i]
      OBVIOUS
    <3>2. PICK n \in Nat : n = Len(stack) - 1 /\ n + 1 = Len(stack)
      BY <2>2
    <3> QED
      BY <2>1, <3>1, <3>2
  <2>4. PICK i \in 1 .. Len(stack) : Awaits(stack[i], p)
    BY <1>2 DEF OnStack
  <2>5. i = Len(stack) \/ i \in 1 .. Len(l)
    BY <2>2, <2>3
  <2>6. i \in 1 .. Len(l) => Awaits(l[i], p)
    BY <2>3, <2>4
  <2>7. i \in 1 .. Len(l) => OnStack(l, p)
    BY <2>6 DEF OnStack
  <2> QED
    BY <2>1, <2>4, <2>5, <2>7
<1> QED
  BY <1>1, <1>2

\* The requests of DeleteTree leave what it knows.
LEMMA ClearKeeps ==
  ASSUME FileInv, DriveInv, NEW c \in Clients, StepOf(c), ~At(c, "idle"),
         NEW q, fs' = fs \/ fs' = [fs EXCEPT ![q] = Absent]
  PROVE  /\ touched'[c] = touched[c]
         /\ \A p \in Paths : Known(c, p, "none") => Known(c, p, "none")'
         /\ \A p \in Paths : NoDir(c, p) => NoDir(c, p)'
<1>1. touched'[c] = touched[c]
  BY TouchedSteps DEF DriveInv
<1>2. \A p \in Paths : fs'[p] = fs[p] \/ fs'[p] = Absent
  BY DEF FileInv, TypeInv
<1> QED
  BY <1>1, <1>2 DEF Known, NoDir, Absent

LEMMA ClearFinds ==
  ASSUME FileInv, DriveInv, NEW c \in Clients, StepOf(c), ClearInv(c), FindFirstEntry(c),
         st[c].call.op = "rmdir"
  PROVE  ClearInv(c)' /\ ClearsAll(c)
<1> DEFINE s == st[c]
<1>1. s.pc = "find" /\ ~At(c, "idle") /\ DOMAIN s = Fields
  BY DEF FindFirstEntry, At, FileInv, TypeInv
<1>2. PICK d : d = s.node.path /\ EnumeratedPath(s) = d
  BY DEF EnumeratedPath
<1>3. d \in Paths
  BY <1>1, <1>2, FindingStage DEF FileInv, Finding, NodesBelow
<1>4. /\ fs' = fs
      /\ \A p \in Paths : Known(c, p, "none") => Known(c, p, "none")'
  BY <1>1, FirstEntry, ClearKeeps
<1>5. \A p \in Asked(s) : \/ Known(c, p, "none")
                          \/ OnStack(s.stack, p)
                          \/ p \in Under(d) /\ p # d
  BY <1>1, <1>2 DEF ClearInv, Clearing, Waits, Awaited
<1>6. ASSUME NEW p \in Under(d), p # d, fs[p].kind # "none"
      PROVE  \E e \in Snapshot(d) : p \in Behind(e)
  <2>1. p \in Paths
    BY DEF Under
  <2>2. PICK q \in Children(d) : p \in Under(q)
    BY <1>3, <1>6, ChildAbove
  <2>3. q \in Paths
    BY <1>3, <2>2, ChildFacts
  <2>4. p # q => fs[q].kind = "dir"
    BY <1>6, <2>1, <2>2, <2>3 DEF DriveInv, Tree
  <2>5. PICK e \in Snapshot(d) : e[1] = q /\ e[2] = fs[q].kind
    BY <1>3, <1>6, <2>4, SnapshotIsAll
  <2> QED
    BY <2>2, <2>4, <2>5 DEF Behind
<1>7. ASSUME NEW h, st'[c] = [s EXCEPT !.pc = "find_next", !.found = h],
             open'[h].left = Snapshot(d)
      PROVE  ClearInv(c)' /\ ClearsAll(c)
  <2>1. PICK t : t = st'[c]
    OBVIOUS
  <2>2. t.pc = "find_next" /\ t.found = h /\ t.call = s.call /\ t.stack = s.stack
    BY <1>1, <1>7, <2>1 DEF Fields
  <2>3. ASSUME NEW p \in Asked(t)
        PROVE  Known(c, p, "none")' \/ Awaited(t, Snapshot(d), p)
    <3>1. p \in Asked(s) /\ p \in Paths
      BY <2>2 DEF Asked, Under
    <3>2. fs[p].kind = "none" => Known(c, p, "none")
      BY DEF Known
    <3> QED
      BY <1>4, <1>5, <1>6, <2>2, <3>1, <3>2 DEF Awaited
  <2>4. ASSUME NEW e \in Snapshot(d), e[2] # "dir"
        PROVE  NoDir(c, e[1])'
    <3>1. fs[e[1]].kind = e[2]
      BY DEF Snapshot
    <3> QED
      BY <1>4, <2>4, <3>1 DEF NoDir
  <2> QED
    BY <1>7, <2>1, <2>2, <2>3, <2>4, ClearGoesOn
<1>8. CASE st'[c] = [s EXCEPT !.pc = "close_find", !.found = FindFlags]
  <2>1. PICK t : t = st'[c]
    OBVIOUS
  <2>2. t.pc = "close_find" /\ t.found = FindFlags
    BY <1>1, <1>8, <2>1 DEF Fields
  <2> QED
    BY <2>1, <2>2 DEF ClearInv, ClearsAll, Returns, HoldsFind
<1>9. CASE st'[c].pc = "idle" /\ ~Returns(c, "OK")
  BY <1>9 DEF ClearInv, ClearsAll, Clearing
<1> QED
  BY <1>2, <1>7, <1>8, <1>9, FirstEntry

\* A directory goes on the stack, a file is the next to be deleted.
LEMMA ClearTakes ==
  ASSUME FileInv, DriveInv, NEW c \in Clients, StepOf(c), ClearInv(c), FindNextEntry(c),
         st[c].call.op = "rmdir"
  PROVE  ClearInv(c)' /\ ClearsAll(c)
<1> DEFINE s == st[c]
           N == NodesBelow(Normalized(s.call.path))
<1>1. s.pc = "find_next" /\ ~At(c, "idle") /\ DOMAIN s = Fields /\ HoldsFind(s)
  BY DEF FindNextEntry, At, FileInv, TypeInv, HoldsFind
<1>2. PICK left : left = open[s.found].left
  OBVIOUS
<1>3. s.stack \in Seq(N) /\ \A e \in left : e[1] \in Paths
  BY <1>1, <1>2, FindingStage DEF FileInv, Finding, Children, Under
<1>4. /\ fs' = fs
      /\ \A p \in Paths : Known(c, p, "none") => Known(c, p, "none")'
      /\ \A p \in Paths : NoDir(c, p) => NoDir(c, p)'
  BY <1>1, EachEntry, ClearKeeps
<1>5. \A p \in Asked(s) : \/ Known(c, p, "none")' \/ OnStack(s.stack, p)
                          \/ \E e \in left : p \in Behind(e)
  <2>1. \A p \in Asked(s) : p \in Paths
    BY DEF Asked, Under
  <2> QED
    BY <1>1, <1>2, <1>4, <2>1 DEF ClearInv, Clearing, Waits, Awaited
<1>6. \A e \in left : e[2] # "dir" => NoDir(c, e[1])'
  BY <1>1, <1>2, <1>3, <1>4 DEF ClearInv, Clearing
<1>7. ASSUME NEW e \in left, st'[c] = Enumerated(s, e[1], e[2]),
             open'[s.found].left = left \ {e}
      PROVE  ClearInv(c)' /\ ClearsAll(c)
  <2>1. PICK t : t = st'[c]
    OBVIOUS
  <2>2. CASE e[2] = "dir"
    <3>1. PICK n : n = Node(e[1], s.node.depth + 1, FALSE)
      OBVIOUS
    <3>2. t = [Push(s, n) EXCEPT !.pc = "find_next"]
      BY <1>7, <2>1, <2>2, <3>1 DEF Enumerated
    <3>3. t.pc = "find_next" /\ t.found = s.found /\ t.call = s.call /\ t.stack = Append(s.stack, n)
      BY <1>1, <3>2 DEF Push, Fields
    <3>4. \A p : OnStack(s.stack, p) \/ p \in Behind(e) => OnStack(t.stack, p)
      <4>1. \A p : p \in Behind(e) => Awaits(n, p)
        BY <2>2, <3>1 DEF Behind, Awaits, Node
      <4>2. PICK M : M = N \cup {n}
        OBVIOUS
      <4>3. s.stack \in Seq(M) /\ n \in M
        BY <1>3, <4>2
      <4> QED
        BY <3>3, <4>1, <4>3, StackAwaits
    <3>5. \A p \in Asked(t) : Known(c, p, "none")' \/ Awaited(t, left \ {e}, p)
      BY <1>5, <3>3, <3>4 DEF Asked, Awaited
    <3> QED
      BY <1>6, <1>7, <2>1, <3>3, <3>5, ClearGoesOn
  <2>3. CASE e[2] # "dir"
    <3>1. t = [s EXCEPT !.pc = "delete_entry", !.entry = e[1]]
      BY <1>7, <2>1, <2>3 DEF Enumerated
    <3>2. /\ t.pc = "delete_entry" /\ t.found = s.found /\ t.call = s.call
          /\ t.stack = s.stack /\ t.entry = e[1]
      BY <1>1, <3>1 DEF Fields
    <3>3. \A p \in Asked(t) : Known(c, p, "none")' \/ Awaited(t, left \ {e}, p)
      BY <1>5, <2>3, <3>2 DEF Asked, Awaited, Behind
    <3> QED
      BY <1>6, <1>7, <2>1, <2>3, <3>2, <3>3, ClearGoesOn
  <2> QED
    BY <2>2, <2>3
<1>8. CASE left = {} /\ st'[c] = [s EXCEPT !.pc = "close_find"]
  <2>1. PICK t : t = st'[c]
    OBVIOUS
  <2>2. t.pc = "close_find" /\ t.call = s.call /\ t.stack = s.stack
    BY <1>1, <1>8, <2>1 DEF Fields
  <2>3. \A p \in Asked(t) : Known(c, p, "none")' \/ Awaited(t, left, p)
    BY <1>5, <1>8, <2>2 DEF Asked, Awaited
  <2> QED
    BY <2>1, <2>2, <2>3, ClearGoesOn
<1>9. ASSUME NEW r, st'[c] = [s EXCEPT !.pc = "abort_find", !.status = r]
      PROVE  ClearInv(c)' /\ ClearsAll(c)
  <2>1. st'[c].pc = "abort_find"
    BY <1>1, <1>9 DEF Fields
  <2> QED
    BY <2>1 DEF ClearInv, ClearsAll, Returns, Clearing
<1> QED
  BY <1>2, <1>7, <1>8, <1>9, EachEntry

LEMMA ClearCloses ==
  ASSUME FlagsAreNoHandle, FileInv, DriveInv, NEW c \in Clients, StepOf(c), ClearInv(c),
         CloseFind(c) \/ AbortFind(c), st[c].call.op = "rmdir"
  PROVE  ClearInv(c)' /\ ClearsAll(c)
<1> DEFINE s == st[c]
<1>1. s.pc \in {"close_find", "abort_find"} /\ ~At(c, "idle") /\ DOMAIN s = Fields
  BY DEF CloseFind, AbortFind, At, FileInv, TypeInv
<1>2. CASE CloseFind(c)
  <2>1. s.pc = "close_find" /\ s.pc \in Clearing
    BY <1>2 DEF CloseFind, At, Clearing
  <2>2. CASE st'[c].pc = "idle" /\ ~Returns(c, "OK")
    BY <2>2 DEF ClearInv, ClearsAll, Clearing
  <2>3. CASE HoldsFind(s) /\ st'[c] = [s EXCEPT !.pc = "visit", !.found = 0]
    <3>1. PICK t : t = st'[c]
      OBVIOUS
    <3>2. t.pc = "visit" /\ t.call = s.call /\ t.stack = s.stack
      BY <1>1, <2>3, <3>1 DEF Fields
    <3>3. fs' = fs
      BY <1>2, LastEntry
    <3>4. \A p \in Paths : Known(c, p, "none") => Known(c, p, "none")'
      BY <1>1, <3>3, ClearKeeps
    <3>5. \A p \in Asked(t) : p \in Asked(s) /\ p \in Paths
      BY <3>2 DEF Asked, Under
    <3>6. \A p \in Asked(t) : Known(c, p, "none")' \/ Awaited(t, {}, p)
      BY <2>1, <2>3, <3>2, <3>4, <3>5 DEF ClearInv, Waits, Awaited
    <3> QED
      BY <3>1, <3>2, <3>6, ClearGoesOn
  <2> QED
    BY <1>2, <2>2, <2>3, LastEntry
<1>3. CASE AbortFind(c)
  <2>1. s.pc = "abort_find" /\ \E r : r = s.status /\ Return(c, r)
    BY <1>3 DEF AbortFind, At
  <2>2. s.status # "OK"
    BY <2>1 DEF FileInv, ClientInv, StageInv
  <2> QED
    BY <2>1, <2>2, CallReturns DEF ClearInv, ClearsAll, Clearing
<1> QED
  BY <1>2, <1>3

\* What is no directory and is not found as a file is not there.
LEMMA ClearDeletes ==
  ASSUME FileInv, DriveInv, NEW c \in Clients, StepOf(c), ClearInv(c),
         DeleteEntry(c) \/ DeleteAsFile(c), st[c].call.op = "rmdir"
  PROVE  ClearInv(c)' /\ ClearsAll(c)
<1> DEFINE s == st[c]
<1>1. s.pc \in {"delete_entry", "delete_as_file"} /\ ~At(c, "idle") /\ DOMAIN s = Fields
  BY DEF DeleteEntry, DeleteAsFile, At, FileInv, TypeInv
<1>2. PICK q \in Paths : q = s.entry
  BY <1>1 DEF FileInv, ClientInv, WalkInv, At, Under
<1>3. PICK left : left = open[s.found].left
  OBVIOUS
<1>4. PICK a \in Replies(DeleteFile(q)) :
         /\ Serve(c, a)
         /\ \/ /\ Gone(a.ret) /\ s.pc = "delete_entry"
               /\ Continue(c, [s EXCEPT !.pc = "find_next", !.entry = <<>>])
            \/ /\ Gone(a.ret) /\ s.pc = "delete_as_file"
               /\ Continue(c, [s EXCEPT !.pc = "visit", !.entry = <<>>])
            \/ ~Gone(a.ret) /\ Return(c, a.ret)
  BY <1>2 DEF DeleteEntry, DeleteAsFile, At
<1>5. /\ open' = open /\ (fs' = fs \/ fs' = [fs EXCEPT ![q] = Absent])
      /\ a.ret \in {"OK", "NOTFOUND", "FAIL"}
      /\ a.ret = "OK" => fs' = [fs EXCEPT ![q] = Absent]
      /\ a.ret = "NOTFOUND" => fs' = fs /\ fs[q].kind # "file"
  BY <1>4, DeleteEffect DEF FileInv
<1>6. /\ touched'[c] = touched[c]
      /\ \A p \in Paths : Known(c, p, "none") => Known(c, p, "none")'
      /\ \A p \in Paths : NoDir(c, p) => NoDir(c, p)'
  BY <1>1, <1>5, ClearKeeps
<1>7. Gone(a.ret) => Known(c, q, "none")'
  <2>1. NoDir(c, q)
    BY <1>1, <1>2 DEF ClearInv, Clearing
  <2>2. fs[q].kind \in Kinds
    BY DEF FileInv, TypeInv, Entries
  <2>3. a.ret = "OK" => fs'[q].kind = "none"
    BY <1>5 DEF FileInv, TypeInv, Absent
  <2>4. a.ret = "NOTFOUND" => fs'[q].kind = "none" \/ q \in touched[c]
    BY <1>5, <2>1, <2>2 DEF NoDir, Kinds
  <2> QED
    BY <1>6, <2>3, <2>4 DEF Gone, Known
<1>8. \A p \in Asked(s) : p \in Paths /\ (Known(c, p, "none")' \/ Awaited(s, left, p))
  <2>1. \A p \in Asked(s) : p \in Paths
    BY DEF Asked, Under
  <2> QED
    BY <1>1, <1>3, <1>6, <2>1 DEF ClearInv, Clearing, Waits
<1>9. CASE /\ Gone(a.ret) /\ s.pc = "delete_entry"
           /\ Continue(c, [s EXCEPT !.pc = "find_next", !.entry = <<>>])
  <2>1. PICK t : t = [s EXCEPT !.pc = "find_next", !.entry = <<>>]
    OBVIOUS
  <2>2. /\ t.pc = "find_next" /\ t.found = s.found /\ t.call = s.call /\ t.stack = s.stack
        /\ st'[c] = t
    BY <1>1, <1>9, <2>1 DEF Fields, Continue, FileInv, TypeInv
  <2>3. \A p \in Asked(t) : Known(c, p, "none")' \/ Awaited(t, left, p)
    BY <1>2, <1>7, <1>8, <1>9, <2>2 DEF Asked, Awaited
  <2>4. HoldsFind(s)
    BY <1>9 DEF HoldsFind
  <2>5. \A e \in left : e[1] \in Paths
    BY <1>3, <2>4 DEF FileInv, ClientInv, UseInv, Children, Under
  <2>6. \A e \in left : e[2] # "dir" => NoDir(c, e[1])'
    BY <1>3, <1>6, <1>9, <2>5 DEF ClearInv, Clearing
  <2> QED
    BY <1>3, <1>5, <2>2, <2>3, <2>6, ClearGoesOn
<1>10. CASE /\ Gone(a.ret) /\ s.pc = "delete_as_file"
            /\ Continue(c, [s EXCEPT !.pc = "visit", !.entry = <<>>])
  <2>1. PICK t : t = [s EXCEPT !.pc = "visit", !.entry = <<>>]
    OBVIOUS
  <2>2. t.pc = "visit" /\ t.call = s.call /\ t.stack = s.stack /\ st'[c] = t
    BY <1>1, <1>10, <2>1 DEF Fields, Continue, FileInv, TypeInv
  <2>3. \A p \in Asked(t) : Known(c, p, "none")' \/ Awaited(t, left, p)
    BY <1>2, <1>7, <1>8, <1>10, <2>2 DEF Asked, Awaited
  <2> QED
    BY <2>2, <2>3, ClearGoesOn
<1>11. CASE ~Gone(a.ret) /\ Return(c, a.ret)
  <2>1. st'[c].pc = "idle" /\ ~Returns(c, "OK")
    BY <1>11, CallReturns DEF Gone
  <2> QED
    BY <2>1 DEF ClearInv, ClearsAll, Clearing
<1> QED
  BY <1>4, <1>9, <1>10, <1>11

\* The node on top comes off when it has been deleted or is kept.
LEMMA ClearVisits ==
  ASSUME FileInv, FileInv', DriveInv, DriveInv', NEW c \in Clients, StepOf(c), ClearInv(c),
         TreeDeleted(c) \/ ExpandDirectory(c) \/ KeepRoot(c) \/ DeleteDirectory(c)
  PROVE  ClearInv(c)' /\ ClearsAll(c)
<1> DEFINE s == st[c]
           root == Normalized(s.call.path)
           N == NodesBelow(root)
           rest == SubSeq(s.stack, 1, Len(s.stack) - 1)
<1>1. s.pc = "visit" /\ s.pc \in Clearing /\ ~At(c, "idle") /\ DOMAIN s = Fields
  BY DEF TreeDeleted, ExpandDirectory, KeepRoot, DeleteDirectory, At, Clearing, FileInv, TypeInv
<1>2. s.call.op = "rmdir" /\ s.stack \in Seq(N) /\ root \in Paths
  BY <1>1, VisitStage DEF FileInv
<1>3. \A p \in Asked(s) : p \in Paths /\ (Known(c, p, "none") \/ OnStack(s.stack, p))
  <2>1. \A p \in Asked(s) : p \in Paths
    BY DEF Asked, Under
  <2> QED
    BY <1>1, <1>2, <2>1 DEF ClearInv, Waits, Awaited
<1>4. CASE TreeDeleted(c)
  <2>1. s.stack = <<>> /\ fs' = fs
    BY <1>4 DEF TreeDeleted, NoRequest
  <2>2. \A p : ~OnStack(<<>>, p)
    BY DEF OnStack
  <2>3. /\ touched'[c] = touched[c]
        /\ \A p \in Paths : Known(c, p, "none") => Known(c, p, "none")'
    BY <1>1, <2>1, ClearKeeps
  <2>4. ASSUME NEW p \in Asked(s)
        PROVE  fs'[p] = Absent \/ p \in touched'[c]
    <3>1. p \in Paths /\ Known(c, p, "none")'
      BY <1>3, <2>1, <2>2, <2>3
    <3>2. fs'[p].kind = "none" => fs'[p].data = <<>>
      BY <3>1 DEF DriveInv, Tree
    <3>3. fs'[p] \in Entries
      BY <3>1 DEF FileInv, TypeInv
    <3> QED
      BY <3>1, <3>2, <3>3 DEF Known, Entries, Absent
  <2>5. st'[c].pc = "idle"
    BY <1>4, ReturnCall DEF TreeDeleted, FileInv
  <2> QED
    BY <2>4, <2>5 DEF ClearInv, ClearsAll, Clearing
<1>5. ASSUME s.stack # <<>>
      PROVE  /\ Top(s) \in N /\ rest \in Seq(N)
             /\ \A p \in Asked(s) : \/ Known(c, p, "none") \/ OnStack(rest, p)
                                    \/ Awaits(Top(s), p)
  BY <1>2, <1>3, <1>5, StackNodes, StackAwaits DEF Top
<1>6. CASE ExpandDirectory(c)
  <2>1. PICK node, m : node = Top(s) /\ m = [node EXCEPT !.expanded = TRUE]
    OBVIOUS
  <2>2. /\ s.stack # <<>> /\ ~node.expanded /\ fs' = fs
        /\ \/ Return(c, "INVALIDPARM")
           \/ Continue(c, [Push(Pop(s), m) EXCEPT !.pc = "find", !.node = node])
    BY <1>6, <2>1 DEF ExpandDirectory, NoRequest
  <2>3. \A p \in Paths : Known(c, p, "none") => Known(c, p, "none")'
    BY <1>1, <2>2, ClearKeeps
  <2>4. CASE Return(c, "INVALIDPARM")
    <3>1. st'[c].pc = "idle" /\ ~Returns(c, "OK")
      BY <2>4, CallReturns
    <3> QED
      BY <3>1 DEF ClearInv, ClearsAll, Clearing
  <2>5. CASE Continue(c, [Push(Pop(s), m) EXCEPT !.pc = "find", !.node = node])
    <3>1. PICK t : t = [Push(Pop(s), m) EXCEPT !.pc = "find", !.node = node]
      OBVIOUS
    <3>2. /\ t.pc = "find" /\ t.call = s.call /\ t.node = node /\ t.stack = Append(rest, m)
          /\ st'[c] = t
      BY <1>1, <2>5, <3>1 DEF Push, Pop, Fields, Continue, FileInv, TypeInv
    <3>3. m \in N /\ m.expanded /\ m.path = node.path
      BY <1>5, <2>1, <2>2 DEF NodesBelow
    <3>4. ASSUME NEW p \in Asked(t)
          PROVE  Known(c, p, "none")' \/ Awaited(t, {}, p)
      <4>1. p \in Asked(s) /\ p \in Paths
        BY <3>2 DEF Asked, Under
      <4>2. OnStack(rest, p) \/ Awaits(m, p) => OnStack(t.stack, p)
        <5>1. PICK r \in Seq(N) : r = rest
          BY <1>5, <2>2
        <5>2. OnStack(r, p) \/ Awaits(m, p) => OnStack(Append(r, m), p)
          BY <3>3, StackAwaits
        <5> QED
          BY <3>2, <5>1, <5>2
      <4>3. Awaits(node, p) => p \in Under(t.node.path)
        BY <2>2, <3>2 DEF Awaits
      <4>4. p = t.node.path => Awaits(m, p)
        BY <3>2, <3>3 DEF Awaits
      <4> QED
        BY <1>5, <2>1, <2>2, <2>3, <3>2, <4>1, <4>2, <4>3, <4>4 DEF Awaited
    <3> QED
      BY <3>2, <3>4, ClearGoesOn
  <2> QED
    BY <2>2, <2>4, <2>5
<1>7. ASSUME s.stack # <<>>, Continue(c, Pop(s)),
             \A p \in Asked(s) : Known(c, p, "none")' \/ OnStack(rest, p)
      PROVE  ClearInv(c)' /\ ClearsAll(c)
  <2>1. PICK t : t = Pop(s)
    OBVIOUS
  <2>2. t.pc = "visit" /\ t.call = s.call /\ t.stack = rest /\ st'[c] = t
    BY <1>1, <1>7, <2>1 DEF Pop, Fields, Continue, FileInv, TypeInv
  <2>3. \A p \in Asked(t) : Known(c, p, "none")' \/ Awaited(t, {}, p)
    BY <1>7, <2>2 DEF Asked, Awaited
  <2> QED
    BY <2>2, <2>3, ClearGoesOn
<1>8. CASE KeepRoot(c)
  <2>1. /\ s.stack # <<>> /\ Top(s).expanded /\ ~s.call.self /\ Top(s).depth = 0
        /\ Continue(c, Pop(s)) /\ fs' = fs
    BY <1>8 DEF KeepRoot, KeepsRoot, NoRequest
  <2>2. \A p \in Paths : Known(c, p, "none") => Known(c, p, "none")'
    BY <1>1, <2>1, ClearKeeps
  <2>3. Top(s).path = root
    <3>1. /\ Top(s).path \in Under(root) /\ Top(s).path \in Paths
          /\ Len(Top(s).path) - Len(root) = 0
      BY <1>5, <2>1 DEF NodesBelow
    <3> QED
      BY <1>2, <3>1, PathFacts
  <2>4. \A p \in Asked(s) : ~Awaits(Top(s), p)
    BY <2>1, <2>3 DEF Asked, Awaits
  <2> QED
    BY <1>3, <1>5, <1>7, <2>1, <2>2, <2>4
<1>9. CASE DeleteDirectory(c)
  <2>1. PICK q : q = Top(s).path
    OBVIOUS
  <2>2. /\ s.stack # <<>> /\ Top(s).expanded
        /\ \E a \in Replies(DeleteDir(q)) :
              /\ Serve(c, a)
              /\ \/ a.ret = "OK" /\ Continue(c, Pop(s))
                 \/ /\ a.ret = "NOTFOUND"
                    /\ Continue(c, [Pop(s) EXCEPT !.pc = "delete_as_file", !.entry = q])
                 \/ a.ret # "OK" /\ Return(c, a.ret)
    BY <1>9, <2>1 DEF DeleteDirectory, Gone
  <2>3. PICK a \in Replies(DeleteDir(q)) :
              /\ Serve(c, a)
              /\ \/ a.ret = "OK" /\ Continue(c, Pop(s))
                 \/ /\ a.ret = "NOTFOUND"
                    /\ Continue(c, [Pop(s) EXCEPT !.pc = "delete_as_file", !.entry = q])
                 \/ a.ret # "OK" /\ Return(c, a.ret)
    BY <2>2
  <2>4. q \in Paths
    BY <1>5, <2>1, <2>2 DEF NodesBelow
  <2>5. /\ fs' = fs \/ fs' = [fs EXCEPT ![q] = Absent]
        /\ a.ret = "OK" => fs' = [fs EXCEPT ![q] = Absent]
        /\ a.ret = "NOTFOUND" => fs' = fs /\ fs[q].kind # "dir"
    BY <2>3, <2>4, DeleteEffect DEF FileInv
  <2>6. /\ \A p \in Paths : Known(c, p, "none") => Known(c, p, "none")'
        /\ \A p \in Paths : NoDir(c, p) => NoDir(c, p)'
    BY <1>1, <2>5, ClearKeeps
  <2>7. \A p \in Asked(s) : Known(c, p, "none")' \/ OnStack(rest, p) \/ p = q
    BY <1>3, <1>5, <2>1, <2>2, <2>6 DEF Awaits
  <2>8. CASE a.ret = "OK" /\ Continue(c, Pop(s))
    <3>1. Known(c, q, "none")'
      BY <2>4, <2>5, <2>8 DEF Known, Absent, FileInv, TypeInv
    <3> QED
      BY <1>7, <2>2, <2>7, <2>8, <3>1
  <2>9. CASE /\ a.ret = "NOTFOUND"
             /\ Continue(c, [Pop(s) EXCEPT !.pc = "delete_as_file", !.entry = q])
    <3>1. PICK t : t = [Pop(s) EXCEPT !.pc = "delete_as_file", !.entry = q]
      OBVIOUS
    <3>2. /\ t.pc = "delete_as_file" /\ t.call = s.call /\ t.stack = rest /\ t.entry = q
          /\ st'[c] = t
      BY <1>1, <2>9, <3>1 DEF Pop, Fields, Continue, FileInv, TypeInv
    <3>3. \A p \in Asked(t) : Known(c, p, "none")' \/ Awaited(t, {}, p)
      BY <2>7, <3>2 DEF Asked, Awaited
    <3>4. NoDir(c, q)'
      BY <2>4, <2>5, <2>6, <2>9 DEF NoDir
    <3> QED
      BY <3>2, <3>3, <3>4, ClearGoesOn
  <2>10. CASE a.ret # "OK" /\ Return(c, a.ret)
    <3>1. st'[c].pc = "idle" /\ ~Returns(c, "OK")
      BY <2>10, CallReturns
    <3> QED
      BY <3>1 DEF ClearInv, ClearsAll, Clearing
  <2> QED
    BY <2>3, <2>8, <2>9, <2>10
<1> QED
  BY <1>4, <1>6, <1>8, <1>9

LEMMA ClearStep ==
  ASSUME FlagsAreNoHandle, FileInv, DriveInv, NEW c \in Clients, StepOf(c), ClearInv(c)
  PROVE  ClearInv(c)' /\ ClearsAll(c)
<1>1. FileInv' /\ DriveInv'
  BY StepKeepsInv, DriveStep
<1>2. CASE At(c, "idle") \/ At(c, "platform")
  <2>1. ~Returns(c, "OK") /\ \/ st'[c].pc \in {"idle", "platform"}
                             \/ \E k \in Calls[c] : st'[c] = Started(k)
    BY <1>2, CallStarts
  <2> QED
    BY <2>1, ClearStarts DEF ClearInv, ClearsAll, Clearing
<1>3. CASE ~At(c, "idle") /\ ~At(c, "platform")
  <2>1. st'[c].call = st[c].call
    BY <1>3, CallStays DEF FileInv
  <2>2. CASE st[c].call.op # "rmdir"
    BY <2>1, <2>2 DEF ClearInv, ClearsAll
  <2>3. CASE st[c].call.op = "rmdir"
    <3>1. st[c].pc \in Finding \cup {"visit", "delete_entry", "delete_as_file"}
      BY <1>3, <2>3 DEF FileInv, ClientInv, StageInv, At
    <3>2. \/ FindFirstEntry(c) \/ FindNextEntry(c) \/ CloseFind(c) \/ AbortFind(c)
          \/ DeleteEntry(c) \/ DeleteAsFile(c)
          \/ TreeDeleted(c) \/ ExpandDirectory(c) \/ KeepRoot(c) \/ DeleteDirectory(c)
      BY <3>1, StageActions DEF Finding, At
    <3> QED
      BY <1>1, <2>3, <3>2, ClearFinds, ClearTakes, ClearCloses, ClearDeletes, ClearVisits
  <2> QED
    BY <2>2, <2>3
<1> QED
  BY <1>2, <1>3

\* A DirDelete that succeeds has deleted everything in the directory, at any
\* depth, but what others have made meanwhile, and the directory if it was asked to.
THEOREM TreesAreCleared ==
  ASSUME FlagsAreNoHandle
  PROVE  FileSpec => DirDeleteClears
<1> DEFINE Clears ==
        \A c \in Clients : st[c].call.op = "rmdir" /\ Returns(c, "OK") =>
          LET root == Normalized(st[c].call.path)
          IN /\ \A p \in Under(root) \ {root} : fs'[p] = Absent \/ p \in touched'[c]
             /\ st[c].call.self => fs'[root] = Absent \/ root \in touched'[c]
           AllClear == \A c \in Clients : ClearInv(c)
<1>1. FileInit => AllClear
  BY DEF FileInit, Fresh, NoCall, CallOf, Clearing, ClearInv
<1>2. ASSUME FileInv, DriveInv, AllClear, NEW c \in Clients, StepOf(c), NEW x \in Clients
      PROVE  ClearInv(x)' /\ ClearsAll(x)
  <2>1. ClearInv(c)' /\ ClearsAll(c)
    BY <1>2, ClearStep
  <2>2. Frame(c)
    BY <1>2, StepKeepsInv DEF StepInv, Common
  <2> QED
    BY <1>2, <2>1, <2>2, OthersKeepClear
<1>3. ASSUME FileInv, NEW x \in Clients, ClearsAll(x), st[x].call.op = "rmdir", Returns(x, "OK")
      PROVE  LET root == Normalized(st[x].call.path)
             IN /\ \A p \in Under(root) \ {root} : fs'[p] = Absent \/ p \in touched'[x]
                /\ st[x].call.self => fs'[root] = Absent \/ root \in touched'[x]
  <2>1. st[x].call \in Calls[x]
    BY <1>3 DEF FileInv, ClientInv, StageInv, Returns
  <2>2. Normalized(st[x].call.path) \in Under(Normalized(st[x].call.path))
    BY <2>1, CallsAssumption, PathFacts
  <2> QED
    BY <1>3, <2>2 DEF ClearsAll, Asked
<1>4. FileInv /\ DriveInv /\ AllClear /\ [FileNext]_fileVars => AllClear' /\ [Clears]_fileVars
  <2>1. FileInv /\ DriveInv /\ AllClear /\ FileNext => AllClear' /\ Clears
    BY <1>2, <1>3 DEF FileNext, StepOf
  <2>2. AllClear /\ UNCHANGED fileVars => AllClear'
    BY DEF fileVars, ClearInv, Waits, Awaited, Behind, Known, NoDir, HoldsFind
  <2> QED
    BY <2>1, <2>2
<1> QED
  BY <1>1, <1>4, FileInvariant, DriveStaysTree, PTL DEF FileSpec, DirDeleteClears

===========================================================================
