------------------------- MODULE MCAdsFileService -------------------------
\* A drive with a file a, and a tree t with a file f and directories u, u\w.
EXTENDS AdsFileService, TLC

CONSTANTS c1, c2

TwoClients == {c1, c2}

A == <<"a">>
D == <<"d">>
B == <<"d", "b">>
T == <<"t">>
F == <<"t", "f">>
U == <<"t", "u">>
W == <<"t", "u", "w">>
G == <<"t", "u", "w", "b">>

Drive == {<<>>, A, D, B, T, F, U, W, G} \cup {Append(p, "m") : p \in {<<>>, D, T, U, W}}

Dirs == {<<>>, T, U}
Files == A :> <<1, 2>> @@ F :> <<1>>

Lengths == "a" :> 1 @@ "d" :> 1 @@ "b" :> 1 @@ "t" :> 1 @@ "f" :> 1 @@ "u" :> 2 @@ "w" :> 1 @@ "m" :> 3

Plain(p) == Spelled(p, 1)
Rename(p, q) == CallOf("rename", p, q, FALSE, 0)
DirDelete(p, self) == CallOf("rmdir", Plain(p), Plain(<<>>), self, 0)
DirCreate(p) == CallOf("mkdir", Plain(p), Plain(<<>>), FALSE, 0)
List(p, length) == CallOf("list", Plain(p), Plain(<<>>), FALSE, length)
OpenFile(p) == CallOf("open", Plain(p), Plain(<<>>), FALSE, 0)
DeleteFileCall(p) == CallOf("delete", Plain(p), Plain(<<>>), FALSE, 0)

MixedCalls ==
    c1 :> {Rename(Plain(A), Plain(B)), DirDelete(T, TRUE), DirDelete(T, FALSE), DirDelete(D, TRUE),
           List(T, 5), List(T, 6)}
    @@ c2 :> {DirCreate(D), DirCreate(W), OpenFile(G), DeleteFileCall(F), DirDelete(U, TRUE)}

=============================================================================
