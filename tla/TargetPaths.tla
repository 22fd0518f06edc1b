---------------------------- MODULE TargetPaths ----------------------------
(***************************************************************************)
(* Paths on a target, character by character: NormalizePathForStyle,       *)
(* GetParentDirectory, JoinPath and MakeDirMarkerPath of                   *)
(* backend/AdsFileService.cpp, the climb of DirCreateImpl from a directory *)
(* to the outermost one it can create, and the descent of DeleteTreeImpl.  *)
(* AdsFileService, where the requests are, takes a path as the sequence of *)
(* its names; this module says which strings are that path, and that the   *)
(* climb ends.                                                             *)
(*                                                                         *)
(* A caller spells a path, any string over Alphabet; a call is then made   *)
(* with it.  The path style is that of the target's platform id.           *)
(***************************************************************************)
EXTENDS Integers, Sequences

CONSTANTS
    Alphabet,     \* the characters a caller types
    Letters,      \* those that IsAsciiAlpha accepts
    PlatformIds,  \* what targets may report
    LINUX,        \* ADSLITE_PLATFORM_ID_LINUX
    Entry, Marker,  \* the name of an entry that is enumerated, and .adslite_dir_marker.tmp
    MaxLength     \* bound on the caller's string

VARIABLES
    platformId,
    raw,      \* the caller's string
    phase,    \* "typing", "creating" (DirCreateImpl), "deleting" (DeleteTreeImpl), "done"
    path,     \* normalizedDirPath, or node.path
    markers   \* the marker files of the directories the climb has passed

vars == <<platformId, raw, phase, path, markers>>

ASSUME PathAssumption ==
    /\ MaxLength \in Nat
    /\ {"/", "\\"} \subseteq Alphabet /\ Letters \cap {"/", "\\", ":"} = {}
    /\ Entry \in Seq(Alphabet \ {"/", "\\"}) \ {<<>>}

-----------------------------------------------------------------------------
PathStyleFromPlatformId(id) == IF id = LINUX THEN "posix" ELSE "windows"
PreferredSeparator(style) == IF style = "posix" THEN "/" ELSE "\\"
IsSeparator(c) == c \in {"/", "\\"}
IsAsciiAlpha(c) == c \in Letters

IsWindowsDriveRoot(p, sep) ==
    Len(p) = 3 /\ IsAsciiAlpha(p[1]) /\ p[2] = ":" /\ p[3] = sep

EndsInSeparator(p) == p # <<>> /\ IsSeparator(p[Len(p)])

\* One character of the input; prevIsSep is that the output ends in a separator.
Folded(out, c, sep) ==
    IF ~IsSeparator(c) THEN Append(out, c)
    ELSE IF EndsInSeparator(out) THEN out ELSE Append(out, sep)

\* A mutation: no separator is kept at the end.
CutsAll(p, style) ==
    SubSeq(p, 1, CHOOSE n \in 0 .. Len(p) :
        /\ n <= 1 \/ ~IsSeparator(p[n])
        /\ \A m \in n + 1 .. Len(p) : m > 1 /\ IsSeparator(p[m]))

\* The loop at the end of NormalizePathForStyle.
Trimmed(p, style) ==
    LET stops(n) ==
          \/ n <= 1
          \/ ~IsSeparator(p[n])
          \/ style = "windows" /\ IsWindowsDriveRoot(SubSeq(p, 1, n), PreferredSeparator(style))
    IN SubSeq(p, 1, CHOOSE n \in 0 .. Len(p) : stops(n) /\ \A m \in n + 1 .. Len(p) : ~stops(m))

\* What is put out after each character of the input; a share's two separators are kept.
KeepsPrefix(input, style) ==
    style = "windows" /\ Len(input) >= 2 /\ IsSeparator(input[1]) /\ IsSeparator(input[2])
Output(input, style) ==
    LET sep == PreferredSeparator(style)
        start == IF KeepsPrefix(input, style) THEN <<sep, sep>> ELSE <<>>
        out[k \in Len(start) .. Len(input)] ==
            IF k = Len(start) THEN start ELSE Folded(out[k - 1], input[k], sep)
    IN out

NormalizePathForStyle(input, style) ==
    Trimmed(Output(input, style)[Len(input)], style)

-----------------------------------------------------------------------------
\* find and find_last_of: 0 when there is none.
SeparatorAfter(p, from) ==
    LET found == {i \in from .. Len(p) : IsSeparator(p[i])}
    IN IF found = {} THEN 0 ELSE CHOOSE i \in found : \A j \in found : i <= j
LastSeparator(p) ==
    LET found == {i \in DOMAIN p : IsSeparator(p[i])}
    IN IF found = {} THEN 0 ELSE CHOOSE i \in found : \A j \in found : i >= j

IsRoot(p, style) ==
    \/ p = <<>>
    \/ style = "posix" /\ p = <<"/">>
    \/ style = "windows" /\ IsWindowsDriveRoot(p, "\\")

\* A server, a share, or a share's root.
IsShareRoot(p, style) ==
    /\ style = "windows" /\ Len(p) >= 2 /\ IsSeparator(p[1]) /\ IsSeparator(p[2])
    /\ LET serverEnd == SeparatorAfter(p, 3)
           shareEnd == SeparatorAfter(p, serverEnd + 1)
       IN serverEnd = 0 \/ shareEnd = 0 \/ shareEnd = Len(p)

\* A mutation: a root is not told from a directory.
OnlyShares(p, style) == IsShareRoot(p, style)
HasNoParent(p, style) == IsRoot(p, style) \/ IsShareRoot(p, style)

UpToSeparator(p, style) ==
    LET pos == LastSeparator(p)
    IN IF pos = 0 THEN <<>>
       ELSE IF pos = 1 THEN (IF Len(p) = 1 THEN <<>> ELSE SubSeq(p, 1, 1))
       ELSE IF style = "windows" /\ pos = 3 /\ IsAsciiAlpha(p[1]) /\ p[2] = ":" THEN SubSeq(p, 1, 3)
       ELSE SubSeq(p, 1, pos - 1)

GetParentDirectory(p, style) == IF HasNoParent(p, style) THEN <<>> ELSE UpToSeparator(p, style)

JoinPath(base, name, style) ==
    IF base = <<>> THEN NormalizePathForStyle(name, style)
    ELSE IF EndsInSeparator(base) THEN base \o name
    ELSE base \o <<PreferredSeparator(style)>> \o name

MakeDirMarkerPath(p, style) ==
    LET q == NormalizePathForStyle(p, style)
    IN IF q = <<>> THEN q
       ELSE IF EndsInSeparator(q) THEN Append(q, Marker)
       ELSE q \o <<PreferredSeparator(style), Marker>>

-----------------------------------------------------------------------------
Style == PathStyleFromPlatformId(platformId)

Init ==
    /\ platformId \in PlatformIds
    /\ raw = <<>>
    /\ phase = "typing"
    /\ path = <<>>
    /\ markers = {}

Type ==
    /\ phase = "typing" /\ Len(raw) < MaxLength
    /\ \E c \in Alphabet : raw' = Append(raw, c)
    /\ UNCHANGED <<platformId, phase, path, markers>>

\* DirCreate or DirDelete: an empty path is refused.
Call(kind) ==
    /\ phase = "typing"
    /\ path' = NormalizePathForStyle(raw, Style)
    /\ phase' = IF path' = <<>> THEN "done" ELSE kind
    /\ UNCHANGED <<platformId, raw, markers>>

\* One level of DirCreateImpl, which normalizes the parent once more.
Climb ==
    /\ phase = "creating"
    /\ markers' = markers \cup {MakeDirMarkerPath(path, Style)}
    /\ LET parent == GetParentDirectory(path, Style)
       IN IF parent = <<>> THEN phase' = "done" /\ UNCHANGED path
          ELSE path' = NormalizePathForStyle(parent, Style) /\ UNCHANGED phase
    /\ UNCHANGED <<platformId, raw>>

\* An entry that DeleteTreeImpl finds in node.path and puts on its stack.
Descend ==
    /\ phase = "deleting" /\ Len(path) < MaxLength
    /\ path' = JoinPath(path, Entry, Style)
    /\ UNCHANGED <<platformId, raw, phase, markers>>

Next == Type \/ Call("creating") \/ Call("deleting") \/ Climb \/ Descend

Spec == Init /\ [][Next]_vars

-----------------------------------------------------------------------------
(***************************************************************************)
(* What a path means: the names between separators, and what is in front.  *)
(***************************************************************************)
NamesUpTo(s) ==
    LET names[k \in 0 .. Len(s)] ==
          IF k = 0 THEN <<>>
          ELSE IF IsSeparator(s[k]) THEN names[k - 1]
          ELSE IF k = 1 \/ IsSeparator(s[k - 1]) THEN Append(names[k - 1], <<s[k]>>)
          ELSE [names[k - 1] EXCEPT ![Len(names[k - 1])] = Append(@, s[k])]
    IN names
Names(s) == NamesUpTo(s)[Len(s)]

InFront(s, style) ==
    LET sep == PreferredSeparator(style)
    IN IF s = <<>> \/ ~IsSeparator(s[1]) THEN <<>>
       ELSE IF style = "windows" /\ Len(s) >= 2 /\ IsSeparator(s[2]) /\ Names(s) # <<>> THEN <<sep, sep>>
       ELSE <<sep>>

IsDrive(name, style) == style = "windows" /\ Len(name) = 2 /\ name[1] \in Letters /\ name[2] = ":"

JoinedUpTo(names, sep) ==
    LET joined[n \in 0 .. Len(names)] ==
          IF n = 0 THEN <<>>
          ELSE IF n = 1 THEN names[1]
          ELSE joined[n - 1] \o <<sep>> \o names[n]
    IN joined
Joined(names, sep) == JoinedUpTo(names, sep)[Len(names)]

\* The string of a path: a drive alone, with a separator behind it, is the drive's root.
Spelling(front, names, root, style) ==
    LET sep == PreferredSeparator(style)
    IN front \o Joined(names, sep)
       \o (IF root /\ front = <<>> /\ Len(names) = 1 /\ IsDrive(names[1], style) THEN <<sep>> ELSE <<>>)

Canonical(s, style) ==
    Spelling(InFront(s, style), Names(s), EndsInSeparator(s), style)

\* The directories on the way to s from that of its first m names on, and the
\* root in front of them.
DirectoriesFrom(m, s, style) ==
    LET ns == Names(s)
        front == InFront(s, style)
    IN {Spelling(front, SubSeq(ns, 1, n), n < Len(ns) \/ EndsInSeparator(s), style) :
          n \in m .. Len(ns)}
       \cup (IF Len(front) = 1 THEN {front} ELSE {})

\* The first two names of a share are its server and its root.
InShare(s, style) == Len(InFront(s, style)) = 2
Outermost(s, style) == IF InShare(s, style) /\ Len(Names(s)) >= 2 THEN 2 ELSE 1
BelowShare(s, style) == IF InShare(s, style) THEN 3 ELSE 1

Marks(directories, style) == {JoinPath(d, <<Marker>>, style) : d \in directories}

(***************************************************************************)
(* Every spelling of a path becomes the one string of that path, and       *)
(* parents and children of it that go to the target without being          *)
(* normalized again are such strings: one file is never named in two ways  *)
(* (AdsFileService.cpp:76, 130, 229, 1090).                                *)
(***************************************************************************)
PathsAreCanonical ==
    /\ path = Canonical(path, Style)
    /\ phase = "typing" => NormalizePathForStyle(raw, Style) = Canonical(raw, Style)

(***************************************************************************)
(* The climb of DirCreate comes to an end, whatever the spelling, each     *)
(* parent being shorter than its directory: a root ends in a separator,    *)
(* and taken for a directory it would be its own parent.  It has then put  *)
(* a marker into each directory on the way that is below a share's root,   *)
(* and nowhere else but into that root (AdsFileService.cpp:130, 616).      *)
(***************************************************************************)
ClimbEnds ==
    [][phase = "creating" =>
         \/ phase' = "creating" /\ Len(path') < Len(path)
         \/ /\ phase' = "done"
            /\ Marks(DirectoriesFrom(BelowShare(raw, Style), raw, Style), Style) \subseteq markers'
            /\ markers' \subseteq Marks(DirectoriesFrom(Outermost(raw, Style), raw, Style), Style)]_vars

\* "A UNC share root is not created by the file service; the recursion stops
\* below it" (AdsFileService.cpp:155): no directory's parent is such a root.
\* This does not hold: the root is the parent of every directory in it.
StopsBelowShare ==
    [][phase = "creating" /\ phase' = "creating" =>
         ~(InShare(path', Style) /\ Len(Names(path')) = 2)]_vars
=============================================================================
