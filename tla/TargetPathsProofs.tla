------------------------- MODULE TargetPathsProofs -------------------------
(***************************************************************************)
(* Theorems about the paths of TargetPaths, for every text, of any length  *)
(* over any alphabet, and either style of path.                            *)
(*                                                                         *)
(* The loops of the code are recursive functions of the number of          *)
(* characters read; each is first shown to exist (Iteration), and then has *)
(* its step as a fact.  Inductions are by a least counterexample.          *)
(*                                                                         *)
(* PathInv and ClimbInv are the inductive invariants of the module.        *)
(***************************************************************************)
EXTENDS TargetPaths, TLAPS, WellFoundedInduction, SequenceTheorems

\* The characters of names, and the names.
NameChars == {c \in Alphabet : ~IsSeparator(c)}
NameSet == Seq(NameChars) \ {<<>>}

-----------------------------------------------------------------------------
(* Induction and recursion over positions. *)

\* Every set of positions has a first one.
LEMMA HasFirst ==
  ASSUME NEW S \in SUBSET Nat, S # {}
  PROVE  \E m \in S : \A n \in S : m <= n
<1> DEFINE R == OpToRel(<, Nat)
<1>1. IsWellFoundedOn(R, Nat)
  BY NatLessThanWellFounded
<1>2. \A m, n \in Nat : m < n => <<m, n>> \in R
  BY DEF OpToRel
<1> HIDE DEF R
<1>3. PICK m \in S : \A n \in S : <<n, m>> \notin R
  BY <1>1, WFMin
<1>4. \A n \in S : ~(n < m)
  BY <1>2, <1>3
<1> QED
  BY <1>4

\* And a last one, if it has a bound.
LEMMA HasLast ==
  ASSUME NEW n \in Nat, NEW S \in SUBSET (0 .. n), S # {}
  PROVE  \E m \in S : \A k \in S : k <= m
<1> DEFINE D == {j \in 0 .. n : n - j \in S}
<1>1. D \in SUBSET Nat
  OBVIOUS
<1>2. D # {}
  <2>1. PICK k \in S : k \in 0 .. n
    OBVIOUS
  <2>2. n - k \in 0 .. n /\ n - (n - k) = k
    BY <2>1
  <2> QED
    BY <2>1, <2>2
<1>3. PICK d \in D : \A e \in D : d <= e
  BY <1>1, <1>2, HasFirst
<1>4. ASSUME NEW k \in S
      PROVE  k <= n - d
  <2>1. k \in 0 .. n
    OBVIOUS
  <2>2. n - k \in 0 .. n /\ n - (n - k) = k
    BY <2>1
  <2>3. n - k \in D
    BY <2>2
  <2> QED
    BY <2>1, <2>3, <1>3
<1>5. n - d \in S
  BY <1>3
<1> QED
  BY <1>4, <1>5

\* What holds at m and is handed on by every step holds up to n.
LEMMA UpTo ==
  ASSUME NEW m \in Nat, NEW n \in Nat, NEW P,
         m <= n => m \in P, \A k \in m + 1 .. n : k - 1 \in P => k \in P
  PROVE  \A k \in m .. n : k \in P
<1> SUFFICES ASSUME NEW j \in m .. n, j \notin P
             PROVE  FALSE
  OBVIOUS
<1> DEFINE S == {k \in m .. n : k \notin P}
<1>1. S \in SUBSET Nat /\ S # {}
  OBVIOUS
<1>2. PICK k \in S : \A i \in S : k <= i
  BY <1>1, HasFirst
<1>3. k \in m + 1 .. n /\ k - 1 \notin S /\ k - 1 \in m .. n
  BY <1>2
<1> QED
  BY <1>3

\* f is a recursive function over m .. n, with the value base at m.
Runs(f, m, n, V, base, step) ==
    /\ f \in [m .. n -> V]
    /\ f[m] = base
    /\ \A k \in m + 1 .. n : f[k] = step[f[k - 1]][k]

\* There is one.
LEMMA Iteration ==
  ASSUME NEW m \in Nat, NEW n \in Nat, m <= n, NEW V, NEW base \in V,
         NEW step \in [V -> [m + 1 .. n -> V]]
  PROVE  \E f : Runs(f, m, n, V, base, step)
<1> DEFINE P == {j \in m .. n : \E f : Runs(f, m, j, V, base, step)}
<1>1. m \in P
  <2>1. Runs([k \in m .. m |-> base], m, m, V, base, step)
    BY DEF Runs
  <2>2. m \in m .. n
    OBVIOUS
  <2> QED
    BY <2>1, <2>2
<1>2. ASSUME NEW j \in m + 1 .. n, j - 1 \in P
      PROVE  j \in P
  <2>1. PICK f : Runs(f, m, j - 1, V, base, step)
    BY <1>2
  <2> DEFINE g == [k \in m .. j |-> IF k = j THEN step[f[j - 1]][j] ELSE f[k]]
  <2>2. f[j - 1] \in V
    BY <2>1 DEF Runs
  <2>3. step[f[j - 1]][j] \in V
    BY <2>2
  <2>4. g \in [m .. j -> V] /\ g[m] = base
    BY <2>1, <2>3, SMTT(30) DEF Runs
  <2>5. ASSUME NEW k \in m + 1 .. j
        PROVE  g[k] = step[g[k - 1]][k]
    <3>1. k - 1 \in m .. j /\ k - 1 # j
      OBVIOUS
    <3>2. g[k - 1] = f[k - 1]
      BY <3>1
    <3>3. CASE k = j
      BY <3>2, <3>3
    <3>4. CASE k # j
      <4>1. k \in m + 1 .. j - 1
        BY <3>4
      <4>2. g[k] = f[k]
        BY <4>1
      <4> QED
        BY <4>1, <4>2, <3>2, <2>1 DEF Runs
    <3> QED
      BY <3>3, <3>4
  <2>6. Runs(g, m, j, V, base, step)
    BY <2>4, <2>5 DEF Runs
  <2>7. j \in m .. n
    OBVIOUS
  <2> HIDE DEF g
  <2>8. \E h : Runs(h, m, j, V, base, step)
    BY <2>6
  <2> QED
    BY <2>7, <2>8
<1>3. n \in P
  <2> HIDE DEF P
  <2>1. \A k \in m .. n : k \in P
    BY <1>1, <1>2, UpTo
  <2> QED
    BY <2>1
<1> QED
  BY <1>3

-----------------------------------------------------------------------------
(* The loops, step by step. *)

\* What the characters are.
LEMMA Separators ==
  /\ IsSeparator("/") /\ IsSeparator("\\")
  /\ ~IsSeparator(":")
  /\ \A c \in Letters : ~IsSeparator(c)
  /\ \A style : IsSeparator(PreferredSeparator(style)) /\ PreferredSeparator(style) \in Alphabet
BY PathAssumption DEF IsSeparator, PreferredSeparator

\* What the loop begins with.
Start(s, style) ==
    IF KeepsPrefix(s, style) THEN <<PreferredSeparator(style), PreferredSeparator(style)>> ELSE <<>>

\* A share's two separators, or nothing.
LEMMA StartLength ==
  ASSUME NEW s \in Seq(Alphabet), NEW style
  PROVE  /\ Start(s, style) \in Seq(Alphabet)
         /\ Len(Start(s, style)) = IF KeepsPrefix(s, style) THEN 2 ELSE 0
         /\ Len(Start(s, style)) \in 0 .. Len(s)
<1>1. PreferredSeparator(style) \in Alphabet
  BY Separators
<1> QED
  BY <1>1 DEF Start, KeepsPrefix

\* A text stays a text.
LEMMA FoldedType ==
  ASSUME NEW out \in Seq(Alphabet), NEW c \in Alphabet, NEW sep \in Alphabet
  PROVE  Folded(out, c, sep) \in Seq(Alphabet)
BY DEF Folded

\* The loop over the characters in NormalizePathForStyle.
LEMMA OutputSteps ==
  ASSUME NEW s \in Seq(Alphabet), NEW style
  PROVE  LET m == Len(Start(s, style))
             out == Output(s, style)
         IN /\ out \in [m .. Len(s) -> Seq(Alphabet)]
            /\ out[m] = Start(s, style)
            /\ \A k \in m + 1 .. Len(s) :
                 out[k] = Folded(out[k - 1], s[k], PreferredSeparator(style))
<1> DEFINE sep == PreferredSeparator(style)
           start == Start(s, style)
           m == Len(start)
           step == [v \in Seq(Alphabet) |-> [k \in m + 1 .. Len(s) |-> Folded(v, s[k], sep)]]
<1>1. m \in Nat /\ Len(s) \in Nat /\ m <= Len(s) /\ start \in Seq(Alphabet)
  BY StartLength
<1>2. step \in [Seq(Alphabet) -> [m + 1 .. Len(s) -> Seq(Alphabet)]]
  <2> SUFFICES ASSUME NEW v \in Seq(Alphabet), NEW k \in m + 1 .. Len(s)
               PROVE  Folded(v, s[k], sep) \in Seq(Alphabet)
    OBVIOUS
  <2>1. sep \in Alphabet /\ s[k] \in Alphabet
    BY <1>1, Separators
  <2> QED
    BY <2>1, FoldedType
<1> HIDE DEF m, step
<1>3. PICK f : Runs(f, m, Len(s), Seq(Alphabet), start, step)
  BY <1>1, <1>2, Iteration
<1>4. f = [k \in m .. Len(s) |-> IF k = m THEN start ELSE Folded(f[k - 1], s[k], sep)]
  <2> SUFFICES ASSUME NEW k \in m .. Len(s)
               PROVE  f[k] = IF k = m THEN start ELSE Folded(f[k - 1], s[k], sep)
    BY <1>3 DEF Runs
  <2>1. CASE k = m
    BY <2>1, <1>3 DEF Runs
  <2>2. CASE k # m
    <3>1. k \in m + 1 .. Len(s) /\ k - 1 \in m .. Len(s)
      BY <1>1, <2>2
    <3>2. f[k] = step[f[k - 1]][k] /\ f[k - 1] \in Seq(Alphabet)
      BY <1>3, <3>1 DEF Runs
    <3> QED
      BY <2>2, <3>1, <3>2 DEF step
  <2> QED
    BY <2>1, <2>2
<1> DEFINE out == Output(s, style)
<1>5. out = [k \in m .. Len(s) |-> IF k = m THEN start ELSE Folded(out[k - 1], s[k], sep)]
  BY <1>4 DEF Output, Start, m
<1> HIDE DEF out
<1>6. out[m] = start
  BY <1>1, <1>5
<1>7. \A k \in m + 1 .. Len(s) : out[k] = Folded(out[k - 1], s[k], sep)
  BY <1>1, <1>5
<1>8. \A k \in m .. Len(s) : out[k] \in Seq(Alphabet)
  <2> DEFINE P == {k \in m .. Len(s) : out[k] \in Seq(Alphabet)}
  <2>1. m \in P
    BY <1>1, <1>6
  <2>2. ASSUME NEW k \in m + 1 .. Len(s), k - 1 \in P
        PROVE  k \in P
    <3>1. sep \in Alphabet /\ s[k] \in Alphabet
      BY <1>1, Separators
    <3>2. out[k - 1] \in Seq(Alphabet) /\ out[k] = Folded(out[k - 1], s[k], sep) /\ k \in m .. Len(s)
      BY <1>1, <1>7, <2>2
    <3>3. out[k] \in Seq(Alphabet)
      BY <3>1, <3>2, FoldedType
    <3> QED
      BY <3>2, <3>3
  <2> HIDE DEF P
  <2>3. \A k \in m .. Len(s) : k \in P
    BY <1>1, <2>1, <2>2, UpTo
  <2> QED
    BY <2>3 DEF P
<1> QED
  BY <1>5, <1>6, <1>7, <1>8 DEF m, out

\* A sequence whose last element is replaced.
LEMMA LastReplaced ==
  ASSUME NEW S, NEW v \in Seq(S), NEW x \in S, NEW y \in S
  PROVE  [Append(v, x) EXCEPT ![Len(Append(v, x))] = y] = Append(v, y)
<1> DEFINE l == Append(v, x)
           w == [l EXCEPT ![Len(l)] = y]
           u == Append(v, y)
<1>1. /\ l \in Seq(S) /\ Len(l) = Len(v) + 1 /\ Len(v) \in Nat
      /\ \A i \in 1 .. Len(v) : l[i] = v[i]
  BY AppendProperties
<1>2. /\ u \in Seq(S) /\ Len(u) = Len(v) + 1 /\ u[Len(v) + 1] = y
      /\ \A i \in 1 .. Len(v) : u[i] = v[i]
  BY AppendProperties
<1> HIDE DEF l, u
<1>3. Len(l) \in 1 .. Len(l)
  BY <1>1
<1>4. /\ w \in Seq(S) /\ Len(w) = Len(l)
      /\ \A j \in 1 .. Len(l) : w[j] = IF j = Len(l) THEN y ELSE l[j]
  BY <1>1, <1>3, ExceptSeq
<1> HIDE DEF w
<1>5. \A j \in 1 .. Len(w) : w[j] = u[j]
  BY <1>1, <1>2, <1>4
<1>6. w = u
  BY <1>1, <1>2, <1>4, <1>5, SeqEqual
<1> QED
  BY <1>6 DEF w, u, l

\* An empty one stays as it is.
LEMMA NothingReplaced ==
  ASSUME NEW v, v = <<>>, NEW e, NEW S
  PROVE  [v EXCEPT ![Len(v)] = e] \in Seq(S)
<1>1. DOMAIN v = {} /\ Len(v) = 0
  OBVIOUS
<1>2. [v EXCEPT ![Len(v)] = e] \in [{} -> S]
  BY <1>1
<1>3. 1 .. 0 = {}
  OBVIOUS
<1>4. [1 .. 0 -> S] \subseteq Seq(S)
  BY SeqDef
<1> QED
  BY <1>2, <1>3, <1>4

\* The names of the first k characters, from those of the first k - 1.
NextNames(v, s, k) ==
    IF IsSeparator(s[k]) THEN v
    ELSE IF k = 1 \/ IsSeparator(s[k - 1]) THEN Append(v, <<s[k]>>)
    ELSE [v EXCEPT ![Len(v)] = Append(@, s[k])]

\* The names stay names.
LEMMA NextNamesType ==
  ASSUME NEW s \in Seq(Alphabet), NEW v \in Seq(NameSet), NEW k \in 1 .. Len(s)
  PROVE  NextNames(v, s, k) \in Seq(NameSet)
<1>1. CASE IsSeparator(s[k])
  BY <1>1 DEF NextNames
<1>2. CASE ~IsSeparator(s[k])
  <2>1. s[k] \in NameChars
    BY <1>2 DEF NameChars
  <2>2. <<s[k]>> \in NameSet
    BY <2>1 DEF NameSet
  <2>3. Append(v, <<s[k]>>) \in Seq(NameSet)
    BY <2>2
  <2>4. ASSUME NEW x \in NameSet
        PROVE  Append(x, s[k]) \in NameSet
    BY <2>1, SMTT(30) DEF NameSet
  <2>5. [v EXCEPT ![Len(v)] = Append(@, s[k])] \in Seq(NameSet)
    <3>1. CASE v = <<>>
      BY <3>1, NothingReplaced
    <3>2. CASE v # <<>>
      <4>1. Len(v) \in 1 .. Len(v) /\ v[Len(v)] \in NameSet
        BY <3>2
      <4>2. Append(v[Len(v)], s[k]) \in NameSet
        BY <4>1, <2>4
      <4> QED
        BY <4>1, <4>2, ExceptSeq
    <3> QED
      BY <3>1, <3>2
  <2> QED
    BY <1>2, <2>3, <2>5 DEF NextNames
<1> QED
  BY <1>1, <1>2

\* The names of a text, one character after the other.
LEMMA NamesSteps ==
  ASSUME NEW s \in Seq(Alphabet)
  PROVE  LET names == NamesUpTo(s)
         IN /\ names[0] = <<>>
            /\ \A k \in 0 .. Len(s) : names[k] \in Seq(NameSet)
            /\ \A k \in 1 .. Len(s) : names[k] = NextNames(names[k - 1], s, k)
<1> DEFINE V == Seq(NameSet)
           n == Len(s)
           base == <<>>
           step == [v \in V |-> [k \in 0 + 1 .. n |-> NextNames(v, s, k)]]
<1>1. n \in Nat /\ 0 \in Nat /\ 0 <= n /\ base \in V
  OBVIOUS
<1>2. step \in [V -> [0 + 1 .. n -> V]]
  BY NextNamesType
<1> HIDE DEF step, V, base
<1>3. PICK f : Runs(f, 0, n, V, base, step)
  BY <1>1, <1>2, Iteration
<1>4. f = [k \in 0 .. n |-> IF k = 0 THEN base ELSE NextNames(f[k - 1], s, k)]
  <2> SUFFICES ASSUME NEW k \in 0 .. n
               PROVE  f[k] = IF k = 0 THEN base ELSE NextNames(f[k - 1], s, k)
    BY <1>3 DEF Runs
  <2>1. CASE k = 0
    BY <2>1, <1>3 DEF Runs
  <2>2. CASE k # 0
    <3>1. k \in 0 + 1 .. n /\ k - 1 \in 0 .. n
      BY <1>1, <2>2
    <3>2. f[k] = step[f[k - 1]][k] /\ f[k - 1] \in V
      BY <1>3, <3>1 DEF Runs
    <3> QED
      BY <2>2, <3>1, <3>2 DEF step
  <2> QED
    BY <2>1, <2>2
<1> DEFINE names == NamesUpTo(s)
<1>5. names = [k \in 0 .. n |-> IF k = 0 THEN base ELSE NextNames(names[k - 1], s, k)]
  BY <1>4 DEF NamesUpTo, NextNames, base
<1> HIDE DEF names
<1>6. names[0] = base
  BY <1>1, <1>5
<1>7. \A k \in 1 .. n : names[k] = NextNames(names[k - 1], s, k)
  BY <1>1, <1>5
<1>8. \A k \in 0 .. n : names[k] \in V
  <2> DEFINE P == {k \in 0 .. n : names[k] \in V}
  <2>1. 0 \in P
    BY <1>1, <1>6
  <2>2. ASSUME NEW k \in 0 + 1 .. n, k - 1 \in P
        PROVE  k \in P
    <3>1. names[k - 1] \in V /\ names[k] = NextNames(names[k - 1], s, k) /\ k \in 1 .. n /\ k \in 0 .. n
      BY <1>1, <1>7, <2>2
    <3>2. names[k] \in V
      BY <3>1, NextNamesType DEF V
    <3> QED
      BY <3>1, <3>2
  <2> HIDE DEF P
  <2>3. \A k \in 0 .. n : k \in P
    BY <1>1, <2>1, <2>2, UpTo
  <2> QED
    BY <2>3 DEF P
<1> QED
  BY <1>6, <1>7, <1>8 DEF V, base, names

\* A name is a text.
LEMMA NameSetType == NameSet \subseteq Seq(Alphabet)
<1>1. NameChars \subseteq Alphabet
  BY DEF NameChars
<1> SUFFICES ASSUME NEW x \in Seq(NameChars)
             PROVE  x \in Seq(Alphabet)
  BY DEF NameSet
<1> QED
  BY <1>1, SeqMonotonic

\* The first n names joined, from the first n - 1.
NextJoined(v, names, n, sep) == IF n = 1 THEN names[1] ELSE v \o <<sep>> \o names[n]

\* Joined names are a text.
LEMMA NextJoinedType ==
  ASSUME NEW names \in Seq(NameSet), NEW v \in Seq(Alphabet), NEW n \in 1 .. Len(names),
         NEW sep \in Alphabet
  PROVE  NextJoined(v, names, n, sep) \in Seq(Alphabet)
<1>1. names[n] \in Seq(Alphabet)
  BY NameSetType
<1>2. v \o <<sep>> \in Seq(Alphabet)
  OBVIOUS
<1>3. v \o <<sep>> \o names[n] \in Seq(Alphabet)
  BY <1>1, <1>2
<1> QED
  BY <1>1, <1>3 DEF NextJoined

\* The names with a separator between each two, one name after the other.
LEMMA JoinedSteps ==
  ASSUME NEW names \in Seq(NameSet), NEW sep \in Alphabet
  PROVE  LET joined == JoinedUpTo(names, sep)
         IN /\ joined[0] = <<>>
            /\ \A k \in 0 .. Len(names) : joined[k] \in Seq(Alphabet)
            /\ \A k \in 1 .. Len(names) : joined[k] = NextJoined(joined[k - 1], names, k, sep)
<1> DEFINE V == Seq(Alphabet)
           n == Len(names)
           base == <<>>
           step == [v \in V |-> [k \in 0 + 1 .. n |-> NextJoined(v, names, k, sep)]]
<1>1. n \in Nat /\ 0 \in Nat /\ 0 <= n /\ base \in V
  OBVIOUS
<1>2. step \in [V -> [0 + 1 .. n -> V]]
  BY NextJoinedType
<1> HIDE DEF step, V, base
<1>3. PICK f : Runs(f, 0, n, V, base, step)
  BY <1>1, <1>2, Iteration
<1>4. f = [k \in 0 .. n |-> IF k = 0 THEN base ELSE NextJoined(f[k - 1], names, k, sep)]
  <2> SUFFICES ASSUME NEW k \in 0 .. n
               PROVE  f[k] = IF k = 0 THEN base ELSE NextJoined(f[k - 1], names, k, sep)
    BY <1>3 DEF Runs
  <2>1. CASE k = 0
    BY <2>1, <1>3 DEF Runs
  <2>2. CASE k # 0
    <3>1. k \in 0 + 1 .. n /\ k - 1 \in 0 .. n
      BY <1>1, <2>2
    <3>2. f[k] = step[f[k - 1]][k] /\ f[k - 1] \in V
      BY <1>3, <3>1 DEF Runs
    <3> QED
      BY <2>2, <3>1, <3>2 DEF step
  <2> QED
    BY <2>1, <2>2
<1> DEFINE joined == JoinedUpTo(names, sep)
<1>5. joined = [k \in 0 .. n |-> IF k = 0 THEN base ELSE NextJoined(joined[k - 1], names, k, sep)]
  BY <1>4 DEF JoinedUpTo, NextJoined, base
<1> HIDE DEF joined
<1>6. joined[0] = base
  BY <1>1, <1>5
<1>7. \A k \in 1 .. n : joined[k] = NextJoined(joined[k - 1], names, k, sep)
  BY <1>1, <1>5
<1>8. \A k \in 0 .. n : joined[k] \in V
  <2> DEFINE P == {k \in 0 .. n : joined[k] \in V}
  <2>1. 0 \in P
    BY <1>1, <1>6
  <2>2. ASSUME NEW k \in 0 + 1 .. n, k - 1 \in P
        PROVE  k \in P
    <3>1. /\ joined[k - 1] \in V /\ joined[k] = NextJoined(joined[k - 1], names, k, sep)
          /\ k \in 1 .. n /\ k \in 0 .. n
      BY <1>1, <1>7, <2>2
    <3>2. joined[k] \in V
      BY <3>1, NextJoinedType DEF V
    <3> QED
      BY <3>1, <3>2
  <2> HIDE DEF P
  <2>3. \A k \in 0 .. n : k \in P
    BY <1>1, <2>1, <2>2, UpTo
  <2> QED
    BY <2>3 DEF P
<1> QED
  BY <1>6, <1>7, <1>8 DEF V, base, joined

\* So all of them.
LEMMA JoinedType ==
  ASSUME NEW names \in Seq(NameSet), NEW sep \in Alphabet
  PROVE  Joined(names, sep) \in Seq(Alphabet)
<1>1. Len(names) \in 0 .. Len(names)
  OBVIOUS
<1> QED
  BY <1>1, JoinedSteps DEF Joined

\* One more name.
LEMMA JoinedAppend ==
  ASSUME NEW names \in Seq(NameSet), NEW x \in NameSet, NEW sep \in Alphabet
  PROVE  /\ Joined(names, sep) \in Seq(Alphabet)
         /\ Joined(Append(names, x), sep) =
              IF names = <<>> THEN x ELSE Joined(names, sep) \o <<sep>> \o x
<1> DEFINE more == Append(names, x)
           n == Len(names)
           j == JoinedUpTo(names, sep)
           g == JoinedUpTo(more, sep)
<1>1. /\ more \in Seq(NameSet) /\ Len(more) = n + 1 /\ more[n + 1] = x /\ n \in Nat
      /\ \A k \in 1 .. n : more[k] = names[k]
  BY AppendProperties
<1> HIDE DEF more, n
<1>2. /\ j[0] = <<>> /\ \A k \in 0 .. n : j[k] \in Seq(Alphabet)
      /\ \A k \in 1 .. n : j[k] = NextJoined(j[k - 1], names, k, sep)
  BY JoinedSteps DEF n
<1>3. /\ g[0] = <<>>
      /\ \A k \in 1 .. n + 1 : g[k] = NextJoined(g[k - 1], more, k, sep)
  BY <1>1, JoinedSteps
<1> HIDE DEF j, g
<1>4. \A k \in 0 .. n : g[k] = j[k]
  <2> DEFINE P == {k \in 0 .. n : g[k] = j[k]}
  <2>1. 0 \in P
    BY <1>1, <1>2, <1>3
  <2>2. ASSUME NEW k \in 0 + 1 .. n, k - 1 \in P
        PROVE  k \in P
    <3>1. k \in 1 .. n /\ k \in 1 .. n + 1 /\ k \in 0 .. n /\ g[k - 1] = j[k - 1]
      BY <1>1, <2>2
    <3>2. g[k] = NextJoined(j[k - 1], more, k, sep) /\ j[k] = NextJoined(j[k - 1], names, k, sep)
      BY <3>1, <1>2, <1>3
    <3>3. more[k] = names[k] /\ (k = 1 => more[1] = names[1])
      BY <3>1, <1>1
    <3>4. g[k] = j[k]
      BY <3>2, <3>3 DEF NextJoined
    <3> QED
      BY <3>1, <3>4
  <2> HIDE DEF P
  <2>3. \A k \in 0 .. n : k \in P
    BY <1>1, <2>1, <2>2, UpTo
  <2> QED
    BY <2>3 DEF P
<1>5. Joined(names, sep) = j[n] /\ Joined(more, sep) = g[n + 1]
  BY <1>1 DEF Joined, j, g, n
<1>6. g[n + 1] = NextJoined(j[n], more, n + 1, sep)
  BY <1>1, <1>3, <1>4
<1>7. names = <<>> <=> n = 0
  BY DEF n
<1>8. g[n + 1] = IF n = 0 THEN x ELSE j[n] \o <<sep>> \o x
  BY <1>1, <1>6 DEF NextJoined
<1> QED
  BY <1>1, <1>2, <1>5, <1>7, <1>8 DEF more

\* No names join to nothing.
LEMMA JoinedEmpty ==
  ASSUME NEW sep \in Alphabet
  PROVE  Joined(<<>>, sep) = <<>>
<1>1. <<>> \in Seq(NameSet) /\ Len(<<>>) = 0
  OBVIOUS
<1> QED
  BY <1>1, JoinedSteps DEF Joined

\* Names that are joined end in a character of a name.
LEMMA JoinedEnd ==
  ASSUME NEW names \in Seq(NameSet), names # <<>>, NEW sep \in Alphabet
  PROVE  LET j == Joined(names, sep)
         IN Len(j) >= 1 /\ ~IsSeparator(j[Len(j)])
<1>1. PICK f \in Seq(NameSet), x \in NameSet : names = Append(f, x)
  BY SequenceEmptyOrAppend
<1>2. /\ x \in Seq(Alphabet) /\ Len(x) \in Nat /\ Len(x) >= 1
      /\ ~IsSeparator(x[Len(x)])
  <2>1. x \in Seq(NameChars) /\ x # <<>>
    BY DEF NameSet
  <2>2. Len(x) \in 1 .. Len(x)
    BY <2>1
  <2>3. x[Len(x)] \in NameChars
    BY <2>1, <2>2
  <2> QED
    BY <2>2, <2>3, NameSetType DEF NameChars
<1>3. CASE f = <<>>
  <2>1. Joined(names, sep) = x
    BY <1>1, <1>3, JoinedAppend
  <2> QED
    BY <2>1, <1>2
<1>4. CASE f # <<>>
  <2> DEFINE h == Joined(f, sep) \o <<sep>>
  <2>1. h \in Seq(Alphabet)
    <3>1. <<sep>> \in Seq(Alphabet) /\ Joined(f, sep) \in Seq(Alphabet)
      BY JoinedType
    <3> QED
      BY <3>1
  <2>2. Joined(names, sep) = h \o x
    BY <1>1, <1>4, JoinedAppend
  <2> HIDE DEF h
  <2>3. Len(h \o x) = Len(h) + Len(x) /\ Len(h) \in Nat
    BY <2>1, <1>2, ConcatProperties
  <2>4. (h \o x)[Len(h) + Len(x)] = x[Len(x)]
    BY <2>1, <2>3, <1>2, ConcatProperties
  <2> QED
    BY <2>2, <2>3, <2>4, <1>2
<1> QED
  BY <1>3, <1>4

\* One name is itself, and two have at least three characters.
LEMMA JoinedLength ==
  ASSUME NEW names \in Seq(NameSet), NEW sep \in Alphabet
  PROVE  /\ Len(names) = 1 => Joined(names, sep) = names[1]
         /\ Len(names) >= 2 => Len(Joined(names, sep)) >= 3
<1>1. CASE names = <<>>
  BY <1>1
<1>2. CASE names # <<>>
  <2>1. PICK f \in Seq(NameSet), x \in NameSet : names = Append(f, x)
    BY <1>2, SequenceEmptyOrAppend
  <2>2. Len(names) = Len(f) + 1 /\ Len(f) \in Nat /\ names[Len(f) + 1] = x
    BY <2>1, AppendProperties
  <2>3. x \in Seq(Alphabet) /\ Len(x) \in Nat /\ Len(x) >= 1
    BY NameSetType DEF NameSet
  <2>4. CASE f = <<>>
    <3>1. Len(f) = 0 /\ Joined(names, sep) = x
      BY <2>1, <2>4, JoinedAppend
    <3> QED
      BY <3>1, <2>2
  <2>5. CASE f # <<>>
    <3>1. Len(f) >= 1
      BY <2>2, <2>5
    <3> DEFINE j == Joined(f, sep)
    <3>2. j \in Seq(Alphabet) /\ Len(j) >= 1 /\ Len(j) \in Nat
      BY <2>5, JoinedEnd, JoinedType
    <3>3. Joined(names, sep) = j \o <<sep>> \o x
      BY <2>1, <2>5, JoinedAppend
    <3> HIDE DEF j
    <3>4. j \o <<sep>> \in Seq(Alphabet) /\ Len(j \o <<sep>>) = Len(j) + 1
      BY <3>2
    <3>5. Len(j \o <<sep>> \o x) = Len(j) + 1 + Len(x)
      BY <3>2, <3>4, <2>3, ConcatProperties
    <3> QED
      BY <3>1, <3>2, <3>3, <3>5, <2>2, <2>3
  <2> QED
    BY <2>4, <2>5
<1> QED
  BY <1>1, <1>2

\* What the first k characters of a text say: the joined names among them.
Body(s, k, sep) == Joined(NamesUpTo(s)[k], sep)

\* The body is a text, is empty without a name, and ends in the character of a name.
LEMMA BodyType ==
  ASSUME NEW s \in Seq(Alphabet), NEW sep \in Alphabet, NEW k \in 0 .. Len(s)
  PROVE  /\ NamesUpTo(s)[k] \in Seq(NameSet)
         /\ Body(s, k, sep) \in Seq(Alphabet)
         /\ Body(s, 0, sep) = <<>>
         /\ Body(s, k, sep) = <<>> <=> NamesUpTo(s)[k] = <<>>
         /\ Body(s, k, sep) # <<>> => ~IsSeparator(Body(s, k, sep)[Len(Body(s, k, sep))])
<1> DEFINE names == NamesUpTo(s)[k]
<1>1. names \in Seq(NameSet) /\ NamesUpTo(s)[0] = <<>>
  BY NamesSteps
<1> HIDE DEF names
<1>2. Joined(names, sep) \in Seq(Alphabet) /\ Joined(<<>>, sep) = <<>>
  BY <1>1, JoinedEmpty, JoinedType
<1>3. CASE names = <<>>
  BY <1>1, <1>2, <1>3 DEF Body, names
<1>4. CASE names # <<>>
  <2>1. Len(Joined(names, sep)) >= 1 /\ ~IsSeparator(Joined(names, sep)[Len(Joined(names, sep))])
    BY <1>1, <1>4, JoinedEnd
  <2>2. Joined(names, sep) # <<>>
    BY <2>1
  <2> QED
    BY <1>1, <1>2, <1>4, <2>1, <2>2 DEF Body, names
<1> QED
  BY <1>3, <1>4

\* The body after one more character.
LEMMA BodySteps ==
  ASSUME NEW s \in Seq(Alphabet), NEW sep \in Alphabet, NEW k \in 1 .. Len(s)
  PROVE  LET b == Body(s, k - 1, sep)
         IN /\ IsSeparator(s[k]) => Body(s, k, sep) = b
            /\ ~IsSeparator(s[k]) /\ (k = 1 \/ IsSeparator(s[k - 1])) =>
                 Body(s, k, sep) = IF b = <<>> THEN <<s[k]>> ELSE Append(Append(b, sep), s[k])
            /\ ~IsSeparator(s[k]) /\ b # <<>> /\ ~(k = 1 \/ IsSeparator(s[k - 1])) =>
                 Body(s, k, sep) = Append(b, s[k])
<1> DEFINE v == NamesUpTo(s)[k - 1]
           w == NamesUpTo(s)[k]
           b == Body(s, k - 1, sep)
           c == s[k]
<1>1. v \in Seq(NameSet) /\ w = NextNames(v, s, k) /\ k - 1 \in 0 .. Len(s)
  BY NamesSteps
<1>2. (b = <<>> <=> v = <<>>) /\ b \in Seq(Alphabet) /\ b = Joined(v, sep)
  BY <1>1, BodyType DEF Body
<1>3. Body(s, k, sep) = Joined(w, sep)
  BY DEF Body
<1>4. c \in Alphabet
  OBVIOUS
<1> HIDE DEF v, w, b
<1>5. CASE IsSeparator(c)
  <2>1. w = v
    BY <1>1, <1>5 DEF NextNames
  <2> QED
    BY <2>1, <1>2, <1>3, <1>5 DEF b
<1>6. CASE ~IsSeparator(c) /\ (k = 1 \/ IsSeparator(s[k - 1]))
  <2> DEFINE x == <<c>>
  <2>1. w = Append(v, x)
    BY <1>1, <1>6 DEF NextNames
  <2>2. x \in NameSet
    BY <1>4, <1>6 DEF NameSet, NameChars
  <2>3. b \o <<sep>> = Append(b, sep) /\ Append(b, sep) \in Seq(Alphabet)
    BY <1>2, AppendIsConcat, AppendProperties
  <2>4. Append(b, sep) \o x = Append(Append(b, sep), c)
    BY <1>4, <2>3, AppendIsConcat
  <2> HIDE DEF x
  <2>5. Joined(Append(v, x), sep) = IF v = <<>> THEN x ELSE Joined(v, sep) \o <<sep>> \o x
    BY <1>1, <2>2, JoinedAppend, Zenon
  <2>6. Joined(w, sep) = IF v = <<>> THEN x ELSE Append(Append(b, sep), c)
    BY <1>2, <2>1, <2>3, <2>4, <2>5
  <2> QED
    BY <2>6, <1>2, <1>3, <1>6 DEF b, x
<1>7. CASE ~IsSeparator(c) /\ ~(k = 1 \/ IsSeparator(s[k - 1])) /\ b # <<>>
  <2>1. PICK f \in Seq(NameSet), x \in NameSet : v = Append(f, x)
    BY <1>1, <1>2, <1>7, SequenceEmptyOrAppend
  <2> DEFINE y == Append(x, c)
  <2>2. x \in Seq(Alphabet) /\ y \in NameSet
    <3>1. c \in NameChars
      BY <1>4, <1>7 DEF NameChars
    <3>2. x \in Seq(NameChars)
      BY DEF NameSet
    <3>3. y \in Seq(NameChars) /\ y # <<>>
      BY <3>1, <3>2, AppendProperties
    <3> QED
      BY <3>3, NameSetType DEF NameSet
  <2>3. v[Len(v)] = x
    BY <2>1, AppendProperties
  <2>4. w = [v EXCEPT ![Len(v)] = y]
    BY <1>1, <1>7, <2>3 DEF NextNames
  <2> HIDE DEF y
  <2>5. w = Append(f, y)
    BY <2>1, <2>2, <2>4, LastReplaced
  <2>6. Joined(w, sep) = IF f = <<>> THEN y ELSE Joined(f, sep) \o <<sep>> \o y
    BY <2>2, <2>5, JoinedAppend
  <2>7. b = IF f = <<>> THEN x ELSE Joined(f, sep) \o <<sep>> \o x
    <3>1. Joined(Append(f, x), sep) = IF f = <<>> THEN x ELSE Joined(f, sep) \o <<sep>> \o x
      BY <1>2, JoinedAppend, Zenon
    <3> QED
      BY <1>2, <2>1, <3>1, Zenon
  <2>8. Joined(w, sep) = Append(b, c)
    <3>1. CASE f = <<>>
      BY <2>6, <2>7, <3>1 DEF y
    <3>2. CASE f # <<>>
      <4> DEFINE h == Joined(f, sep) \o <<sep>>
      <4>1. h \in Seq(Alphabet)
        <5>1. <<sep>> \in Seq(Alphabet) /\ Joined(f, sep) \in Seq(Alphabet)
          BY JoinedType
        <5> QED
          BY <5>1
      <4>2. Joined(w, sep) = h \o y /\ b = h \o x
        BY <2>6, <2>7, <3>2
      <4> HIDE DEF h
      <4>3. y = x \o <<c>> /\ <<c>> \in Seq(Alphabet)
        BY <1>4, <2>2, AppendIsConcat DEF y
      <4>4. h \o (x \o <<c>>) = (h \o x) \o <<c>>
        BY <4>1, <4>3, <2>2, ConcatAssociative, SMTT(30)
      <4>5. (h \o x) \o <<c>> = Append(h \o x, c)
        BY <4>2, <1>2, <1>4, AppendIsConcat
      <4> QED
        BY <4>2, <4>3, <4>4, <4>5
    <3> QED
      BY <3>1, <3>2
  <2> QED
    BY <2>8, <1>3, <1>7 DEF b
<1> QED
  BY <1>5, <1>6, <1>7 DEF b

\* A text whose first k characters say nothing begins with separators.
LEMMA NothingSaid ==
  ASSUME NEW s \in Seq(Alphabet), NEW sep \in Alphabet, NEW k \in 1 .. Len(s)
  PROVE  /\ ~IsSeparator(s[k]) => Body(s, k, sep) # <<>>
         /\ Body(s, k, sep) = <<>> => Body(s, k - 1, sep) = <<>> /\ IsSeparator(s[1])
<1> DEFINE n == Len(s)
           P == {i \in 1 .. n : ~IsSeparator(s[i]) => Body(s, i, sep) # <<>>}
           Q == {i \in 1 .. n : Body(s, i, sep) = <<>> => IsSeparator(s[1])}
<1>1. n \in Nat /\ k \in 1 .. n
  OBVIOUS
<1>2. ASSUME NEW i \in 1 .. n, ~IsSeparator(s[i]), i = 1 \/ IsSeparator(s[i - 1])
      PROVE  Body(s, i, sep) # <<>>
  <2> DEFINE b == Body(s, i - 1, sep)
  <2>1. Body(s, i, sep) = IF b = <<>> THEN <<s[i]>> ELSE Append(Append(b, sep), s[i])
    BY <1>2, BodySteps
  <2>2. i - 1 \in 0 .. Len(s)
    BY <1>1
  <2>3. b \in Seq(Alphabet) /\ s[i] \in Alphabet
    BY <2>2, BodyType
  <2> HIDE DEF b
  <2>4. Append(Append(b, sep), s[i]) # <<>> /\ <<s[i]>> # <<>>
    BY <2>3, AppendProperties
  <2> QED
    BY <2>1, <2>4
<1>3. 1 <= n => 1 \in P
  BY <1>2
<1>4. ASSUME NEW i \in 1 + 1 .. n, i - 1 \in P
      PROVE  i \in P
  <2> SUFFICES ASSUME ~IsSeparator(s[i])
               PROVE  Body(s, i, sep) # <<>>
    BY <1>1
  <2>1. CASE IsSeparator(s[i - 1])
    <3>1. i \in 1 .. n
      BY <1>1
    <3> QED
      BY <1>2, <2>1, <3>1
  <2>2. CASE ~IsSeparator(s[i - 1])
    <3> DEFINE b == Body(s, i - 1, sep)
    <3>1. b # <<>> /\ i \in 1 .. Len(s) /\ i # 1 /\ i - 1 \in 0 .. Len(s)
      BY <1>1, <1>4, <2>2
    <3>2. Body(s, i, sep) = Append(b, s[i])
      BY <2>2, <3>1, BodySteps
    <3>3. b \in Seq(Alphabet) /\ s[i] \in Alphabet
      BY <3>1, BodyType
    <3> HIDE DEF b
    <3> QED
      BY <3>2, <3>3, AppendProperties
  <2> QED
    BY <2>1, <2>2
<1>5. \A i \in 1 .. n : i \in P
  <2> HIDE DEF P, n
  <2> QED
    BY <1>1, <1>3, <1>4, UpTo
<1>6. ASSUME NEW i \in 1 .. n
      PROVE  /\ ~IsSeparator(s[i]) => Body(s, i, sep) # <<>>
             /\ Body(s, i, sep) = <<>> => Body(s, i - 1, sep) = <<>>
  <2>1. ~IsSeparator(s[i]) => Body(s, i, sep) # <<>>
    BY <1>5
  <2>2. IsSeparator(s[i]) => Body(s, i, sep) = Body(s, i - 1, sep)
    BY BodySteps
  <2> QED
    BY <2>1, <2>2
<1>7. 1 <= n => 1 \in Q
  BY <1>1, <1>6
<1>8. ASSUME NEW i \in 1 + 1 .. n, i - 1 \in Q
      PROVE  i \in Q
  <2>1. i \in 1 .. n
    BY <1>1
  <2> QED
    BY <2>1, <1>6, <1>8
<1>9. \A i \in 1 .. n : i \in Q
  <2> HIDE DEF Q, n
  <2> QED
    BY <1>1, <1>7, <1>8, UpTo
<1> QED
  BY <1>1, <1>6, <1>9

-----------------------------------------------------------------------------
(* What the loop puts out: what is in front, the body, and a separator if  *)
(* the last character was one.                                             *)

\* A character behind two texts is one behind the second.
LEMMA ConcatAppend ==
  ASSUME NEW S, NEW a \in Seq(S), NEW b \in Seq(S), NEW x \in S
  PROVE  a \o Append(b, x) = Append(a \o b, x)
<1> DEFINE t == <<x>>
<1>1. t \in Seq(S) /\ Append(b, x) = b \o t /\ a \o b \in Seq(S)
  BY AppendIsConcat
<1>2. Append(a \o b, x) = (a \o b) \o t
  BY <1>1, AppendIsConcat
<1> HIDE DEF t
<1>3. a \o (b \o t) = (a \o b) \o t
  BY <1>1, ConcatAssociative, SMTT(30)
<1> QED
  BY <1>1, <1>2, <1>3

\* The front, the front and the body, and these with the separator, of the first k characters.
FrontOf(s, k, style) ==
    IF KeepsPrefix(s, style) THEN <<PreferredSeparator(style), PreferredSeparator(style)>>
    ELSE IF k >= 1 /\ IsSeparator(s[1]) THEN <<PreferredSeparator(style)>> ELSE <<>>

\* What is in front is separators.
LEMMA FrontType ==
  ASSUME NEW s \in Seq(Alphabet), NEW style, NEW k \in 0 .. Len(s)
  PROVE  /\ FrontOf(s, k, style) \in Seq(Alphabet)
         /\ FrontOf(s, k, style) # <<>> => EndsInSeparator(FrontOf(s, k, style))
<1> DEFINE sep == PreferredSeparator(style)
<1>1. sep \in Alphabet /\ IsSeparator(sep)
  BY Separators
<1>2. <<sep, sep>> \in Seq(Alphabet) /\ EndsInSeparator(<<sep, sep>>)
  BY <1>1 DEF EndsInSeparator
<1>3. <<sep>> \in Seq(Alphabet) /\ EndsInSeparator(<<sep>>)
  BY <1>1 DEF EndsInSeparator
<1> QED
  BY <1>2, <1>3 DEF FrontOf

Unfinished(s, k, style) == FrontOf(s, k, style) \o Body(s, k, PreferredSeparator(style))
Shaped(s, k, style) ==
    IF Body(s, k, PreferredSeparator(style)) # <<>> /\ IsSeparator(s[k])
    THEN Append(Unfinished(s, k, style), PreferredSeparator(style))
    ELSE Unfinished(s, k, style)

\* So it is before the loop.
LEMMA ShapedStart ==
  ASSUME NEW s \in Seq(Alphabet), NEW style
  PROVE  Shaped(s, Len(Start(s, style)), style) = Start(s, style)
<1> DEFINE sep == PreferredSeparator(style)
           m == Len(Start(s, style))
<1>1. sep \in Alphabet /\ m \in 0 .. Len(s) /\ Len(s) \in Nat
  BY Separators, StartLength
<1>2. Body(s, m, sep) = <<>>
  <2>1. CASE KeepsPrefix(s, style)
    <3>1. /\ m = 2 /\ 1 \in 1 .. Len(s) /\ 2 \in 1 .. Len(s)
          /\ IsSeparator(s[1]) /\ IsSeparator(s[2]) /\ 2 - 1 = 1 /\ 1 - 1 = 0
      BY <2>1, StartLength DEF KeepsPrefix
    <3>2. Body(s, 2, sep) = Body(s, 1, sep)
      BY <1>1, <3>1, BodySteps
    <3>3. Body(s, 1, sep) = Body(s, 0, sep)
      BY <1>1, <3>1, BodySteps
    <3>4. Body(s, 0, sep) = <<>>
      BY <1>1, BodyType
    <3> QED
      BY <3>1, <3>2, <3>3, <3>4
  <2>2. CASE ~KeepsPrefix(s, style)
    <3>1. m = 0
      BY <2>2, StartLength
    <3> QED
      BY <1>1, <3>1, BodyType
  <2> QED
    BY <2>1, <2>2
<1>3. FrontOf(s, m, style) = Start(s, style)
  BY <1>1, StartLength DEF FrontOf, Start
<1>4. Start(s, style) \in Seq(Alphabet)
  BY StartLength
<1> HIDE DEF m
<1>5. Start(s, style) \o <<>> = Start(s, style)
  BY <1>4, ConcatEmptySeq
<1>6. Shaped(s, m, style) = Start(s, style)
  BY <1>2, <1>3, <1>5 DEF Shaped, Unfinished
<1> QED
  BY <1>6 DEF m

\* And after one more character.
LEMMA ShapedStep ==
  ASSUME NEW s \in Seq(Alphabet), NEW style, NEW k \in Len(Start(s, style)) + 1 .. Len(s)
  PROVE  Shaped(s, k, style) = Folded(Shaped(s, k - 1, style), s[k], PreferredSeparator(style))
<1> DEFINE sep == PreferredSeparator(style)
           o == Shaped(s, k - 1, style)
           b == Body(s, k - 1, sep)
           d == Body(s, k, sep)
           F == FrontOf(s, k - 1, style)
           G == FrontOf(s, k, style)
           c == s[k]
<1>1. /\ sep \in Alphabet /\ k \in 1 .. Len(s) /\ k - 1 \in 0 .. Len(s) /\ k \in 0 .. Len(s)
      /\ c \in Alphabet /\ IsSeparator(sep)
  BY Separators, StartLength
<1>2. b \in Seq(Alphabet) /\ F \in Seq(Alphabet) /\ F \o b \in Seq(Alphabet)
  BY <1>1, BodyType, FrontType
<1>3. b # <<>> => k > 1 /\ Len(F \o b) >= 1 /\ ~EndsInSeparator(F \o b)
  <2> SUFFICES ASSUME b # <<>>
               PROVE  k > 1 /\ Len(F \o b) >= 1 /\ ~EndsInSeparator(F \o b)
    OBVIOUS
  <2>1. ~IsSeparator(b[Len(b)])
    BY <1>1, BodyType
  <2>2. k > 1
    <3>1. k = 1 => k - 1 = 0
      OBVIOUS
    <3>2. Body(s, 0, sep) = <<>>
      BY <1>1, BodyType
    <3> QED
      BY <1>1, <3>1, <3>2
  <2> HIDE DEF b, F
  <2>3. Len(b) \in Nat /\ Len(b) >= 1 /\ Len(F) \in Nat /\ Len(F \o b) = Len(F) + Len(b)
    BY <1>2, ConcatProperties
  <2>4. (F \o b)[Len(F) + Len(b)] = b[Len(b)]
    BY <1>2, <2>3, ConcatProperties
  <2> QED
    BY <2>1, <2>2, <2>3, <2>4 DEF EndsInSeparator
<1>4. k > 1 \/ ~IsSeparator(c) => G = F
  BY <1>1, StartLength DEF FrontOf
<1>5. o = IF b # <<>> /\ IsSeparator(s[k - 1]) THEN Append(F \o b, sep) ELSE F \o b
  BY DEF Shaped, Unfinished
<1>6. Shaped(s, k, style) = IF d # <<>> /\ IsSeparator(c) THEN Append(G \o d, sep) ELSE G \o d
  BY DEF Shaped, Unfinished
<1>7. b = <<>> => F \o b = F
  BY <1>2, ConcatEmptySeq
<1>8. CASE IsSeparator(c) /\ b = <<>>
  <2>1. d = <<>> /\ IsSeparator(s[1])
    BY <1>1, <1>8, BodySteps, NothingSaid
  <2>2. G \in Seq(Alphabet)
    BY <1>1, FrontType
  <2>3. Shaped(s, k, style) = G /\ o = F
    <3>1. G \o <<>> = G
      BY <2>2, ConcatEmptySeq
    <3> QED
      BY <1>5, <1>6, <1>7, <1>8, <2>1, <3>1
  <2>4. CASE k > 1
    <3>1. F # <<>>
      BY <2>1, <2>4, <1>1 DEF FrontOf
    <3>2. EndsInSeparator(F)
      BY <1>1, <3>1, FrontType
    <3> QED
      BY <1>4, <1>8, <2>3, <2>4, <3>2 DEF Folded
  <2>5. CASE k = 1
    <3>1. ~KeepsPrefix(s, style)
      <4>1. Len(Start(s, style)) \in Nat /\ Len(Start(s, style)) < k
        BY StartLength
      <4> QED
        BY <2>5, <4>1, StartLength
    <3>2. F = <<>> /\ G = <<sep>>
      BY <2>1, <2>5, <3>1 DEF FrontOf
    <3>3. Append(<<>>, sep) = <<sep>> /\ ~EndsInSeparator(<<>>)
      BY DEF EndsInSeparator
    <3> QED
      BY <1>8, <2>3, <3>2, <3>3 DEF Folded
  <2> QED
    BY <1>1, <2>4, <2>5
<1>9. CASE IsSeparator(c) /\ b # <<>>
  <2>1. d = b
    BY <1>1, <1>9, BodySteps
  <2>2. Shaped(s, k, style) = Append(F \o b, sep)
    BY <1>3, <1>4, <1>6, <1>9, <2>1
  <2>3. EndsInSeparator(Append(F \o b, sep))
    BY <1>1, <1>2, AppendProperties DEF EndsInSeparator
  <2> QED
    BY <1>3, <1>5, <1>9, <2>2, <2>3 DEF Folded
<1>10. CASE ~IsSeparator(c)
  <2>1. d # <<>>
    BY <1>1, <1>10, NothingSaid
  <2>2. Shaped(s, k, style) = F \o d
    BY <1>4, <1>6, <1>10
  <2>3. Folded(o, c, sep) = Append(o, c)
    BY <1>10 DEF Folded
  <2>4. F \o d = Append(o, c)
    <3>1. CASE b = <<>>
      <4>1. k = 1 \/ IsSeparator(s[k - 1])
        <5>1. CASE k > 1
          <6>1. k - 1 \in 1 .. Len(s)
            BY <1>1, <5>1
          <6> QED
            BY <1>1, <3>1, <6>1, NothingSaid
        <5> QED
          BY <1>1, <5>1
      <4>2. d = <<c>>
        BY <1>1, <1>10, <3>1, <4>1, BodySteps
      <4>3. F \o <<c>> = Append(F, c)
        BY <1>1, <1>2, AppendIsConcat
      <4> QED
        BY <1>5, <1>7, <3>1, <4>2, <4>3
    <3>2. CASE b # <<>> /\ IsSeparator(s[k - 1])
      <4>1. d = Append(Append(b, sep), c)
        BY <1>1, <1>10, <3>2, BodySteps
      <4> HIDE DEF b, d, F, sep
      <4>2. Append(b, sep) \in Seq(Alphabet) /\ F \o Append(b, sep) = Append(F \o b, sep)
        BY <1>1, <1>2, ConcatAppend, AppendProperties
      <4> DEFINE e == Append(b, sep)
      <4>4. e \in Seq(Alphabet)
        BY <4>2
      <4> HIDE DEF e, c
      <4>5. F \o Append(e, c) = Append(F \o e, c)
        BY <1>1, <1>2, <4>4, ConcatAppend, SMTT(30)
      <4>3. F \o Append(Append(b, sep), c) = Append(F \o Append(b, sep), c)
        BY <4>5 DEF e
      <4> QED
        BY <1>5, <3>2, <4>1, <4>2, <4>3
    <3>3. CASE b # <<>> /\ ~IsSeparator(s[k - 1])
      <4>3. ~(k = 1 \/ IsSeparator(s[k - 1]))
        BY <1>3, <3>3
      <4>1. d = Append(b, c)
        BY <1>1, <1>10, <3>3, <4>3, BodySteps
      <4>2. F \o Append(b, c) = Append(F \o b, c)
        BY <1>1, <1>2, ConcatAppend
      <4> QED
        BY <1>5, <3>3, <4>1, <4>2
    <3> QED
      BY <3>1, <3>2, <3>3
  <2> QED
    BY <2>2, <2>3, <2>4
<1> QED
  BY <1>8, <1>9, <1>10

\* After each character.
LEMMA OutputShape ==
  ASSUME NEW s \in Seq(Alphabet), NEW style
  PROVE  /\ Output(s, style)[Len(s)] = Shaped(s, Len(s), style)
         /\ Output(s, style)[Len(s)] \in Seq(Alphabet)
<1> DEFINE m == Len(Start(s, style))
           n == Len(s)
           sep == PreferredSeparator(style)
           out == Output(s, style)
           P == {k \in m .. n : out[k] = Shaped(s, k, style)}
<1>1. m \in Nat /\ n \in Nat /\ m <= n
  BY StartLength
<1>2. m \in P
  BY <1>1, OutputSteps, ShapedStart
<1>3. ASSUME NEW k \in m + 1 .. n, k - 1 \in P
      PROVE  k \in P
  <2>1. out[k] = Folded(out[k - 1], s[k], sep)
    BY OutputSteps
  <2>2. Shaped(s, k, style) = Folded(Shaped(s, k - 1, style), s[k], sep)
    BY ShapedStep
  <2>3. k \in m .. n /\ out[k - 1] = Shaped(s, k - 1, style)
    BY <1>1, <1>3
  <2> QED
    BY <2>1, <2>2, <2>3
<1>4. \A k \in m .. n : k \in P
  <2> HIDE DEF P, m, n
  <2> QED
    BY <1>1, <1>2, <1>3, UpTo
<1>5. n \in m .. n
  BY <1>1
<1>6. out[n] \in Seq(Alphabet)
  BY <1>5, OutputSteps
<1> QED
  BY <1>4, <1>5, <1>6

-----------------------------------------------------------------------------
(* The loop at the end. *)

\* What Trimmed stops at.
Stops(p, n, style) ==
    \/ n <= 1
    \/ ~IsSeparator(p[n])
    \/ style = "windows" /\ IsWindowsDriveRoot(SubSeq(p, 1, n), PreferredSeparator(style))

\* The loop stops somewhere.
LEMMA TrimmedStops ==
  ASSUME NEW p \in Seq(Alphabet), NEW style
  PROVE  \E n \in 0 .. Len(p) :
           /\ Trimmed(p, style) = SubSeq(p, 1, n)
           /\ Stops(p, n, style)
           /\ \A m \in n + 1 .. Len(p) : ~Stops(p, m, style)
<1> DEFINE S == {n \in 0 .. Len(p) : Stops(p, n, style)}
           Ends(n) == Stops(p, n, style) /\ \A m \in n + 1 .. Len(p) : ~Stops(p, m, style)
           e == CHOOSE n \in 0 .. Len(p) : Ends(n)
<1>1. Len(p) \in Nat /\ S \in SUBSET (0 .. Len(p)) /\ 0 \in S
  BY DEF Stops
<1>2. PICK n \in S : \A k \in S : k <= n
  BY <1>1, HasLast
<1>3. n \in 0 .. Len(p) /\ Ends(n)
  BY <1>2
<1>4. e \in 0 .. Len(p) /\ Ends(e)
  BY <1>3
<1>5. Trimmed(p, style) = SubSeq(p, 1, e)
  BY DEF Trimmed, Stops
<1> QED
  BY <1>4, <1>5

\* Where it stops is known.
LEMMA TrimmedAt ==
  ASSUME NEW p \in Seq(Alphabet), NEW style, NEW n \in 0 .. Len(p), Stops(p, n, style),
         \A m \in n + 1 .. Len(p) : ~Stops(p, m, style)
  PROVE  Trimmed(p, style) = SubSeq(p, 1, n)
<1>1. PICK e \in 0 .. Len(p) :
           /\ Trimmed(p, style) = SubSeq(p, 1, e)
           /\ Stops(p, e, style)
           /\ \A m \in e + 1 .. Len(p) : ~Stops(p, m, style)
  BY TrimmedStops
<1>2. Len(p) \in Nat
  OBVIOUS
<1>3. ~(e < n) /\ ~(n < e)
  BY <1>1, <1>2
<1>4. e = n
  BY <1>2, <1>3
<1> QED
  BY <1>1, <1>4

\* A text that ends in no separator loses nothing.
LEMMA TrimmedWhole ==
  ASSUME NEW p \in Seq(Alphabet), NEW style, Stops(p, Len(p), style)
  PROVE  Trimmed(p, style) = p
<1>1. Len(p) \in 0 .. Len(p) /\ \A m \in Len(p) + 1 .. Len(p) : ~Stops(p, m, style)
  OBVIOUS
<1>2. Trimmed(p, style) = SubSeq(p, 1, Len(p))
  BY <1>1, TrimmedAt
<1> QED
  BY <1>2, SubSeqFull

\* One that ends in one separator loses it, but for the root of a drive.
LEMMA TrimmedOnce ==
  ASSUME NEW p \in Seq(Alphabet), NEW x \in Alphabet, NEW style,
         p # <<>>, ~IsSeparator(p[Len(p)]), ~Stops(Append(p, x), Len(p) + 1, style)
  PROVE  Trimmed(Append(p, x), style) = p
<1> DEFINE q == Append(p, x)
           n == Len(p)
<1>1. /\ q \in Seq(Alphabet) /\ Len(q) = n + 1 /\ n \in Nat /\ n >= 1
      /\ \A i \in 1 .. n : q[i] = p[i]
  BY AppendProperties
<1> HIDE DEF q
<1>2. q[n] = p[n]
  BY <1>1
<1>3. Stops(q, n, style) /\ n \in 0 .. Len(q)
  BY <1>1, <1>2 DEF Stops
<1>4. \A m \in n + 1 .. Len(q) : ~Stops(q, m, style)
  BY <1>1 DEF q
<1>5. Trimmed(q, style) = SubSeq(q, 1, n)
  BY <1>1, <1>3, <1>4, TrimmedAt
<1>6. SubSeq(q, 1, n) = p
  <2> DEFINE u == SubSeq(q, 1, n)
  <2>1. u \in Seq(Alphabet) /\ Len(u) = n /\ \A i \in 1 .. n : u[i] = q[i]
    BY <1>1
  <2> HIDE DEF u
  <2>2. \A i \in 1 .. Len(u) : u[i] = p[i]
    BY <1>1, <2>1
  <2>3. u = p
    BY <2>1, <2>2, SeqEqual
  <2> QED
    BY <2>3 DEF u
<1> QED
  BY <1>5, <1>6 DEF q

-----------------------------------------------------------------------------
(* The normalized text is the one spelling of its path. *)

\* What ends in a separator that is kept is a drive alone.
LEMMA KeptIsDrive ==
  ASSUME NEW s \in Seq(Alphabet), NEW style,
         Body(s, Len(s), PreferredSeparator(style)) # <<>>
  PROVE  LET sep == PreferredSeparator(style)
             b == Body(s, Len(s), sep)
             F == FrontOf(s, Len(s), style)
             g == Append(F \o b, sep)
         IN Stops(g, Len(F \o b) + 1, style)
              <=> F = <<>> /\ Len(Names(s)) = 1 /\ IsDrive(Names(s)[1], style)
<1> DEFINE sep == PreferredSeparator(style)
           b == Body(s, Len(s), sep)
           F == FrontOf(s, Len(s), style)
           u == F \o b
           g == Append(u, sep)
           l == Len(u)
<1>1. sep \in Alphabet /\ IsSeparator(sep) /\ Len(s) \in 0 .. Len(s)
  BY Separators
<1>2. b \in Seq(Alphabet) /\ F \in Seq(Alphabet) /\ Len(b) >= 1 /\ Len(b) \in Nat /\ Len(F) \in Nat
  BY <1>1, BodyType, FrontType
<1>3. Names(s) \in Seq(NameSet) /\ b = Joined(Names(s), sep) /\ Names(s) # <<>>
  BY <1>1, BodyType DEF Body, Names
<1>4. F # <<>> => Len(F) >= 1 /\ IsSeparator(F[1])
  BY <1>1 DEF FrontOf
<1> HIDE DEF b, F
<1>5. /\ u \in Seq(Alphabet) /\ l = Len(F) + Len(b) /\ l \in Nat /\ l >= 1
      /\ \A i \in 1 .. l : u[i] = IF i <= Len(F) THEN F[i] ELSE b[i - Len(F)]
  BY <1>2, ConcatProperties
<1> HIDE DEF u, l
<1>6. /\ g \in Seq(Alphabet) /\ Len(g) = l + 1 /\ g[l + 1] = sep
      /\ \A i \in 1 .. l : g[i] = u[i]
  BY <1>1, <1>5, AppendProperties DEF l
<1> HIDE DEF g
<1>7. SubSeq(g, 1, l + 1) = g
  BY <1>6, SubSeqFull
<1>8. Stops(g, l + 1, style) <=> style = "windows" /\ IsWindowsDriveRoot(g, sep)
  <2>1. ~(l + 1 <= 1) /\ IsSeparator(g[l + 1])
    BY <1>1, <1>5, <1>6
  <2>2. Stops(g, l + 1, style) <=> style = "windows" /\ IsWindowsDriveRoot(SubSeq(g, 1, l + 1), sep)
    BY <2>1 DEF Stops
  <2> QED
    BY <1>7, <2>2
<1>9. IsWindowsDriveRoot(g, sep) <=> l = 2 /\ u[1] \in Letters /\ u[2] = ":"
  BY <1>5, <1>6 DEF IsWindowsDriveRoot, IsAsciiAlpha
<1>10. Len(Names(s)) \in Nat /\ Len(Names(s)) >= 1
  BY <1>3
<1>11. CASE F = <<>>
  <2>1. Len(F) = 0
    BY <1>11
  <2>2. l = Len(b) /\ \A i \in 1 .. l : u[i] = b[i]
    BY <1>5, <2>1
  <2>3. Len(b) = 2 => Len(Names(s)) = 1
    <3>1. Len(Names(s)) >= 2 => Len(Joined(Names(s), sep)) >= 3
      BY <1>1, <1>3, JoinedLength
    <3>2. Len(Names(s)) >= 2 => Len(b) >= 3
      BY <1>3, <3>1
    <3> DEFINE k == Len(Names(s))
               lb == Len(b)
    <3>3. k \in Nat /\ k >= 1 /\ lb \in Nat /\ (k >= 2 => lb >= 3)
      BY <1>2, <1>10, <3>2
    <3> HIDE DEF k, lb
    <3>4. lb = 2 => k = 1
      BY <3>3
    <3> QED
      BY <3>4 DEF k, lb
  <2>4. Len(Names(s)) = 1 => b = Names(s)[1]
    BY <1>1, <1>3, JoinedLength
  <2>5. l = 2 /\ u[1] \in Letters /\ u[2] = ":" <=> Len(b) = 2 /\ b[1] \in Letters /\ b[2] = ":"
    BY <2>2
  <2> QED
    BY <1>8, <1>9, <1>11, <2>3, <2>4, <2>5 DEF IsDrive, g, l, u, b, F, sep
<1>12. CASE F # <<>>
  <2>1. u[1] = F[1] /\ IsSeparator(u[1])
    BY <1>4, <1>5, <1>12
  <2>2. u[1] \notin Letters
    BY <2>1, Separators
  <2> QED
    BY <1>8, <1>9, <1>12, <2>2 DEF g, l, u, b, F, sep
<1> QED
  BY <1>11, <1>12

\* What a text has in front, as the path's meaning has it and as the loop puts it out.
LEMMA FrontsAgree ==
  ASSUME NEW s \in Seq(Alphabet), NEW style
  PROVE  LET b == Body(s, Len(s), PreferredSeparator(style))
         IN /\ b # <<>> => InFront(s, style) = FrontOf(s, Len(s), style)
            /\ b = <<>> => InFront(s, style) = IF s = <<>> THEN <<>> ELSE <<PreferredSeparator(style)>>
            /\ b = <<>> <=> Names(s) = <<>>
<1> DEFINE sep == PreferredSeparator(style)
           b == Body(s, Len(s), sep)
<1>1. sep \in Alphabet /\ Len(s) \in 0 .. Len(s) /\ Len(s) \in Nat
  BY Separators
<1>2. b = <<>> <=> Names(s) = <<>>
  BY <1>1, BodyType DEF Names
<1>3. s = <<>> => b = <<>>
  <2>1. s = <<>> => Len(s) = 0
    OBVIOUS
  <2> QED
    BY <1>1, <2>1, BodyType
<1>4. s # <<>> => Len(s) >= 1
  OBVIOUS
<1>5. b # <<>> => InFront(s, style) = FrontOf(s, Len(s), style)
  BY <1>1, <1>2, <1>3, <1>4 DEF InFront, FrontOf, KeepsPrefix
<1>6. b = <<>> /\ s # <<>> => IsSeparator(s[1])
  <2> SUFFICES ASSUME b = <<>>, s # <<>>
               PROVE  IsSeparator(s[1])
    OBVIOUS
  <2>1. Len(s) \in 1 .. Len(s)
    BY <1>1, <1>4
  <2> QED
    BY <1>1, <2>1, NothingSaid
<1>7. b = <<>> => InFront(s, style) = IF s = <<>> THEN <<>> ELSE <<sep>>
  BY <1>2, <1>6 DEF InFront
<1> QED
  BY <1>2, <1>5, <1>7

\* Two separators, cut to one.
LEMMA TwoSeparators ==
  ASSUME NEW x \in Alphabet
  PROVE  /\ <<x, x>> \in Seq(Alphabet) /\ Len(<<x, x>>) = 2 /\ <<x, x>>[2] = x
         /\ SubSeq(<<x, x>>, 1, 1) = <<x>> /\ Len(SubSeq(<<x, x>>, 1, 2)) = 2
<1> DEFINE w == <<x, x>>
           v == <<x>>
           u == SubSeq(w, 1, 1)
<1>1. w \in Seq(Alphabet) /\ Len(w) = 2 /\ w[1] = x /\ w[2] = x
  OBVIOUS
<1>2. v \in Seq(Alphabet) /\ Len(v) = 1 /\ v[1] = x
  OBVIOUS
<1> HIDE DEF w, v
<1>3. u \in Seq(Alphabet) /\ Len(u) = 1 /\ u[1] = x /\ Len(SubSeq(w, 1, 2)) = 2
  BY <1>1
<1> HIDE DEF u
<1>4. \A i \in 1 .. Len(u) : u[i] = v[i]
  BY <1>2, <1>3
<1>5. u = v
  BY <1>2, <1>3, <1>4, SeqEqual
<1> QED
  BY <1>1, <1>3, <1>5 DEF w, v, u

\* Every spelling of a path becomes the one spelling (NormalizePathForStyle).
LEMMA NormalizedIsCanonical ==
  ASSUME NEW s \in Seq(Alphabet), NEW style
  PROVE  NormalizePathForStyle(s, style) = Canonical(s, style)
<1> DEFINE sep == PreferredSeparator(style)
           n == Len(s)
           b == Body(s, n, sep)
           F == FrontOf(s, n, style)
           u == F \o b
           g == Shaped(s, n, style)
           names == Names(s)
           drive == EndsInSeparator(s) /\ InFront(s, style) = <<>> /\ Len(names) = 1 /\ IsDrive(names[1], style)
<1>1. sep \in Alphabet /\ IsSeparator(sep) /\ n \in 0 .. Len(s) /\ n \in Nat
  BY Separators
<1>2. NormalizePathForStyle(s, style) = Trimmed(g, style) /\ g \in Seq(Alphabet)
  BY OutputShape DEF NormalizePathForStyle
<1>3. Canonical(s, style) = InFront(s, style) \o b \o (IF drive THEN <<sep>> ELSE <<>>)
  BY DEF Canonical, Spelling, Body, Names
<1>4. b \in Seq(Alphabet) /\ F \in Seq(Alphabet) /\ u \in Seq(Alphabet)
  BY <1>1, BodyType, FrontType
<1>5. g = IF b # <<>> /\ IsSeparator(s[n]) THEN Append(u, sep) ELSE u
  BY DEF Shaped, Unfinished
<1>6. CASE b = <<>>
  <2>1. u = F
    BY <1>4, <1>6, ConcatEmptySeq
  <2>2. g = F /\ ~drive
    <3>1. names = <<>>
      BY <1>6, FrontsAgree
    <3> QED
      BY <1>5, <1>6, <2>1, <3>1
  <2>3. Canonical(s, style) = InFront(s, style)
    <3>1. InFront(s, style) \in Seq(Alphabet)
      <4>1. InFront(s, style) = <<>> \/ InFront(s, style) = <<sep>>
        BY <1>6, FrontsAgree
      <4>2. <<>> \in Seq(Alphabet) /\ <<sep>> \in Seq(Alphabet)
        BY <1>1
      <4> QED
        BY <4>1, <4>2, Zenon
    <3>2. InFront(s, style) \o <<>> = InFront(s, style)
      BY <3>1, ConcatEmptySeq
    <3> QED
      BY <1>3, <1>6, <2>2, <3>2
  <2>4. CASE s = <<>>
    <3>1. F = <<>>
      <4>1. n = 0 /\ ~KeepsPrefix(s, style)
        BY <2>4 DEF KeepsPrefix
      <4> QED
        BY <4>1 DEF FrontOf
    <3>2. Trimmed(g, style) = g
      <4>1. Stops(g, Len(g), style)
        BY <2>2, <3>1 DEF Stops
      <4> QED
        BY <1>2, <4>1, TrimmedWhole
    <3> QED
      BY <1>2, <1>6, <2>2, <2>3, <2>4, <3>1, <3>2, FrontsAgree
  <2>5. CASE s # <<>>
    <3>1. n \in 1 .. Len(s) /\ n >= 1
      BY <2>5
    <3>2. IsSeparator(s[1])
      BY <1>1, <1>6, <3>1, NothingSaid
    <3>3. F = <<sep>> \/ F = <<sep, sep>>
      BY <3>1, <3>2 DEF FrontOf
    <3>4. InFront(s, style) = <<sep>>
      BY <1>6, <2>5, FrontsAgree
    <3>5. CASE F = <<sep>>
      <4>1. Stops(g, Len(g), style)
        BY <2>2, <3>5 DEF Stops
      <4>2. Trimmed(g, style) = g
        BY <1>2, <4>1, TrimmedWhole
      <4> QED
        BY <1>2, <2>2, <2>3, <3>4, <3>5, <4>2
    <3>6. CASE F = <<sep, sep>>
      <4> DEFINE w == <<sep, sep>>
      <4>1. w \in Seq(Alphabet) /\ Len(w) = 2 /\ w[2] = sep /\ SubSeq(w, 1, 1) = <<sep>>
        BY <1>1, TwoSeparators
      <4>2. Len(SubSeq(w, 1, 2)) = 2
        BY <1>1, TwoSeparators
      <4> HIDE DEF w
      <4>3. Stops(w, 1, style) /\ 1 \in 0 .. Len(w)
        BY <4>1 DEF Stops
      <4>4. ~Stops(w, 2, style)
        BY <1>1, <4>1, <4>2 DEF Stops, IsWindowsDriveRoot
      <4>5. Trimmed(w, style) = SubSeq(w, 1, 1)
        <5>1. \A m \in 1 + 1 .. Len(w) : ~Stops(w, m, style)
          <6>1. \A m \in 1 + 1 .. Len(w) : m = 2
            BY <4>1
          <6> QED
            BY <4>4, <6>1
        <5> QED
          BY <4>1, <4>3, <5>1, TrimmedAt
      <4> QED
        BY <1>2, <2>2, <2>3, <3>4, <3>6, <4>1, <4>5 DEF w
    <3> QED
      BY <3>3, <3>5, <3>6
  <2> QED
    BY <2>4, <2>5
<1>7. CASE b # <<>>
  <2>1. InFront(s, style) = F
    BY <1>7, FrontsAgree
  <2>2. u # <<>> /\ ~IsSeparator(u[Len(u)]) /\ Len(u) \in Nat
    <3>1. ~IsSeparator(b[Len(b)])
      BY <1>1, <1>7, BodyType
    <3> HIDE DEF b, F
    <3>2. Len(b) \in Nat /\ Len(b) >= 1 /\ Len(F) \in Nat /\ Len(u) = Len(F) + Len(b)
      BY <1>4, <1>7, ConcatProperties
    <3>3. u[Len(F) + Len(b)] = b[Len(b)]
      BY <1>4, <3>2, ConcatProperties
    <3> HIDE DEF u
    <3> QED
      BY <1>4, <3>1, <3>2, <3>3
  <2>3. s # <<>> /\ n >= 1
    <3>1. s = <<>> => n = 0
      OBVIOUS
    <3>2. n = 0 => b = <<>>
      BY <1>1, BodyType
    <3> QED
      BY <1>1, <1>7, <3>1, <3>2
  <2>4. EndsInSeparator(s) <=> IsSeparator(s[n])
    BY <2>3 DEF EndsInSeparator
  <2>5. u \o <<>> = u /\ u \o <<sep>> = Append(u, sep)
    BY <1>1, <1>4, ConcatEmptySeq, AppendIsConcat
  <2>6. Canonical(s, style) = IF drive THEN Append(u, sep) ELSE u
    BY <1>3, <2>1, <2>5
  <2>7. CASE ~IsSeparator(s[n])
    <3>1. g = u /\ ~drive
      BY <1>5, <2>4, <2>7
    <3>2. Stops(u, Len(u), style)
      BY <2>2 DEF Stops
    <3>3. Trimmed(u, style) = u
      BY <1>4, <3>2, TrimmedWhole
    <3> QED
      BY <1>2, <2>6, <3>1, <3>3
  <2>8. CASE IsSeparator(s[n])
    <3>1. g = Append(u, sep)
      BY <1>5, <1>7, <2>8
    <3>2. Stops(g, Len(u) + 1, style) <=> drive
      BY <1>7, <2>1, <2>4, <2>8, <3>1, KeptIsDrive
    <3>3. Len(g) = Len(u) + 1
      BY <1>1, <1>4, <3>1, AppendProperties
    <3>4. CASE drive
      <4>1. Trimmed(g, style) = g
        BY <1>2, <3>2, <3>3, <3>4, TrimmedWhole
      <4> QED
        BY <1>2, <2>6, <3>1, <3>4, <4>1
    <3>5. CASE ~drive
      <4>1. Trimmed(Append(u, sep), style) = u
        BY <1>1, <1>4, <2>2, <3>1, <3>2, <3>5, TrimmedOnce
      <4> QED
        BY <1>2, <2>6, <3>1, <3>5, <4>1
    <3> QED
      BY <3>4, <3>5
  <2> QED
    BY <2>7, <2>8
<1> QED
  BY <1>6, <1>7

-----------------------------------------------------------------------------
(* A text that nothing is to be changed in. *)

\* The separators are those of the style, and two stand together at most in front, as a share's do.
Clean(p, style) ==
    /\ p \in Seq(Alphabet)
    /\ \A i \in 1 .. Len(p) : IsSeparator(p[i]) => p[i] = PreferredSeparator(style)
    /\ \A i \in 2 .. Len(p) : IsSeparator(p[i - 1]) /\ IsSeparator(p[i]) => i = 2 /\ style = "windows"

Normal(p, style) ==
    /\ Clean(p, style)
    /\ Len(p) >= 2 /\ IsSeparator(p[1]) /\ IsSeparator(p[2]) => Len(p) > 2
    /\ Stops(p, Len(p), style)

\* A normal text is left as it is (NormalizePathForStyle).
LEMMA NormalKept ==
  ASSUME NEW p, NEW style, Normal(p, style)
  PROVE  NormalizePathForStyle(p, style) = p
<1> DEFINE sep == PreferredSeparator(style)
           m == Len(Start(p, style))
           n == Len(p)
           out == Output(p, style)
           P == {k \in m .. n : out[k] = SubSeq(p, 1, k)}
<1>1. /\ p \in Seq(Alphabet) /\ n \in Nat /\ m \in Nat /\ m <= n /\ sep \in Alphabet
      /\ m = IF KeepsPrefix(p, style) THEN 2 ELSE 0
  <2>1. p \in Seq(Alphabet)
    BY DEF Normal, Clean
  <2> QED
    BY <2>1, StartLength, Separators
<1>2. m \in P
  <2>1. out[m] = Start(p, style)
    BY <1>1, OutputSteps
  <2>2. Start(p, style) = SubSeq(p, 1, m)
    <3>1. CASE KeepsPrefix(p, style)
      <4> DEFINE w == <<sep, sep>>
                 u == SubSeq(p, 1, 2)
      <4>1. w \in Seq(Alphabet) /\ Len(w) = 2 /\ w[1] = sep /\ w[2] = sep
        BY <1>1
      <4>2. n >= 2 /\ p[1] = sep /\ p[2] = sep
        BY <1>1, <3>1 DEF KeepsPrefix, Normal, Clean
      <4>3. u \in Seq(Alphabet) /\ Len(u) = 2 /\ u[1] = p[1] /\ u[2] = p[2]
        BY <1>1, <4>2
      <4> HIDE DEF w, u
      <4>4. \A i \in 1 .. Len(u) : u[i] = w[i]
        BY <4>1, <4>2, <4>3
      <4>5. u = w
        BY <4>1, <4>3, <4>4, SeqEqual
      <4> QED
        BY <1>1, <3>1, <4>5 DEF Start, u, w
    <3>2. CASE ~KeepsPrefix(p, style)
      BY <1>1, <3>2 DEF Start
    <3> QED
      BY <3>1, <3>2
  <2> QED
    BY <1>1, <2>1, <2>2
<1>3. ASSUME NEW k \in m + 1 .. n, k - 1 \in P
      PROVE  k \in P
  <2> DEFINE u == SubSeq(p, 1, k - 1)
  <2>1. k \in 1 .. n /\ k \in m .. n /\ k - 1 \in 0 .. n
    BY <1>1
  <2>2. out[k] = Folded(u, p[k], sep)
    <3>1. out[k] = Folded(out[k - 1], p[k], sep)
      BY <1>1, OutputSteps
    <3> QED
      BY <1>3, <3>1
  <2>3. /\ u \in Seq(Alphabet) /\ Len(u) = k - 1 /\ p[k] \in Alphabet
        /\ \A i \in 1 .. k - 1 : u[i] = p[i]
    BY <1>1, <2>1
  <2>4. SubSeq(p, 1, k) = Append(u, p[k])
    <3>1. SubSeq(p, 1, k) = u \o <<p[k]>>
      BY <1>1, <2>1, SubSeqRecursiveSecond
    <3> QED
      BY <2>3, <3>1, AppendIsConcat
  <2> HIDE DEF u
  <2>5. CASE ~IsSeparator(p[k])
    BY <2>1, <2>2, <2>4, <2>5 DEF Folded
  <2>6. CASE IsSeparator(p[k])
    <3>1. ~EndsInSeparator(u)
      <4> SUFFICES ASSUME EndsInSeparator(u)
                   PROVE  FALSE
        OBVIOUS
      <4>1. k >= 2 /\ IsSeparator(p[k - 1])
        <5>1. u # <<>> /\ Len(u) >= 1
          BY <2>3 DEF EndsInSeparator
        <5>2. IsSeparator(u[k - 1])
          BY <2>3 DEF EndsInSeparator
        <5> QED
          BY <2>1, <2>3, <5>1, <5>2
      <4>2. k = 2 /\ style = "windows"
        BY <2>1, <2>6, <4>1 DEF Normal, Clean
      <4>3. KeepsPrefix(p, style)
        BY <2>1, <2>6, <4>1, <4>2 DEF KeepsPrefix
      <4> QED
        BY <1>1, <4>2, <4>3
    <3>2. p[k] = sep
      BY <2>1, <2>6 DEF Normal, Clean
    <3> QED
      BY <2>1, <2>2, <2>4, <2>6, <3>1, <3>2 DEF Folded
  <2> QED
    BY <2>5, <2>6
<1>4. \A k \in m .. n : k \in P
  <2> HIDE DEF P, m, n
  <2> QED
    BY <1>1, <1>2, <1>3, UpTo
<1>5. out[n] = SubSeq(p, 1, n) /\ SubSeq(p, 1, n) = p
  <2>1. n \in m .. n
    BY <1>1
  <2> QED
    BY <1>1, <1>4, <2>1, SubSeqFull
<1>6. Trimmed(p, style) = p
  BY <1>1, TrimmedWhole DEF Normal
<1> QED
  BY <1>5, <1>6 DEF NormalizePathForStyle

\* A character behind a clean text.
LEMMA CleanAppend ==
  ASSUME NEW p, NEW style, Clean(p, style), NEW c \in Alphabet,
         IsSeparator(c) => c = PreferredSeparator(style) /\ ~EndsInSeparator(p)
  PROVE  Clean(Append(p, c), style)
<1> DEFINE q == Append(p, c)
           l == Len(p)
<1>1. /\ p \in Seq(Alphabet) /\ q \in Seq(Alphabet) /\ l \in Nat /\ Len(q) = l + 1
      /\ q[l + 1] = c /\ \A i \in 1 .. l : q[i] = p[i]
  <2>1. p \in Seq(Alphabet)
    BY DEF Clean
  <2> QED
    BY <2>1, AppendProperties
<1>2. IsSeparator(c) /\ l >= 1 => ~IsSeparator(p[l])
  BY <1>1 DEF EndsInSeparator
<1> HIDE DEF q
<1>3. ASSUME NEW i \in 1 .. Len(q), IsSeparator(q[i])
      PROVE  q[i] = PreferredSeparator(style)
  <2>1. CASE i \in 1 .. l
    BY <1>1, <1>3, <2>1 DEF Clean
  <2>2. CASE i = l + 1
    BY <1>1, <1>3, <2>2
  <2> QED
    BY <1>1, <2>1, <2>2
<1>4. ASSUME NEW i \in 2 .. Len(q), IsSeparator(q[i - 1]), IsSeparator(q[i])
      PROVE  i = 2 /\ style = "windows"
  <2>1. CASE i \in 2 .. l
    <3>1. q[i - 1] = p[i - 1] /\ q[i] = p[i]
      BY <1>1, <2>1
    <3> QED
      BY <1>1, <1>4, <2>1, <3>1 DEF Clean
  <2>2. CASE i = l + 1
    BY <1>1, <1>2, <1>4, <2>2
  <2> QED
    BY <1>1, <2>1, <2>2
<1>5. Clean(q, style)
  BY <1>1, <1>3, <1>4 DEF Clean
<1> QED
  BY <1>5 DEF q

\* The loop leaves a clean text, which is no longer than what was read.
LEMMA OutputClean ==
  ASSUME NEW s \in Seq(Alphabet), NEW style
  PROVE  Clean(Output(s, style)[Len(s)], style) /\ Len(Output(s, style)[Len(s)]) <= Len(s)
<1> DEFINE sep == PreferredSeparator(style)
           m == Len(Start(s, style))
           n == Len(s)
           out == Output(s, style)
           P == {k \in m .. n : Clean(out[k], style) /\ Len(out[k]) <= k}
<1>1. /\ n \in Nat /\ m \in Nat /\ m <= n /\ sep \in Alphabet /\ IsSeparator(sep)
      /\ m = IF KeepsPrefix(s, style) THEN 2 ELSE 0
  BY StartLength, Separators
<1>2. m \in P
  <2>1. out[m] = Start(s, style)
    BY OutputSteps
  <2>2. Clean(Start(s, style), style)
    <3>1. CASE KeepsPrefix(s, style)
      <4> DEFINE w == <<sep, sep>>
      <4>1. w \in Seq(Alphabet) /\ Len(w) = 2 /\ w[1] = sep /\ w[2] = sep
        BY <1>1
      <4>2. style = "windows" /\ Start(s, style) = w
        BY <3>1 DEF KeepsPrefix, Start
      <4> HIDE DEF w
      <4>3. \A i \in 1 .. Len(w) : i = 1 \/ i = 2
        BY <4>1
      <4>4. \A i \in 2 .. Len(w) : i = 2
        BY <4>1
      <4> QED
        BY <4>1, <4>2, <4>3, <4>4 DEF Clean
    <3>2. CASE ~KeepsPrefix(s, style)
      <4>1. Start(s, style) = <<>> /\ Len(<<>>) = 0 /\ <<>> \in Seq(Alphabet)
        BY <3>2 DEF Start
      <4> QED
        BY <4>1 DEF Clean
    <3> QED
      BY <3>1, <3>2
  <2>3. Len(out[m]) = m /\ Clean(out[m], style) /\ m \in m .. n
    BY <1>1, <2>1, <2>2
  <2> HIDE DEF out, m, n
  <2> QED
    BY <1>1, <2>3
<1>3. ASSUME NEW k \in m + 1 .. n, k - 1 \in P
      PROVE  k \in P
  <2> DEFINE o == out[k - 1]
             c == s[k]
  <2>1. k \in 1 .. n /\ k \in m .. n /\ c \in Alphabet /\ Clean(o, style) /\ Len(o) <= k - 1
    BY <1>1, <1>3
  <2>2. out[k] = Folded(o, c, sep)
    BY OutputSteps
  <2>3. o \in Seq(Alphabet) /\ Len(o) \in Nat
    BY <2>1 DEF Clean
  <2> HIDE DEF o, c
  <2>4. Len(Append(o, c)) = Len(o) + 1 /\ Len(Append(o, sep)) = Len(o) + 1
    BY <1>1, <2>1, <2>3, AppendProperties
  <2>8. k \in Nat /\ (Clean(out[k], style) /\ Len(out[k]) <= k => k \in P)
    BY <1>1, <2>1
  <2> HIDE DEF out, P, sep, m, n
  <2>5. CASE ~IsSeparator(c)
    <3>1. Clean(Append(o, c), style)
      BY <2>1, <2>5, CleanAppend
    <3>2. out[k] = Append(o, c)
      BY <2>2, <2>5 DEF Folded
    <3> QED
      BY <2>1, <2>3, <2>4, <2>8, <3>1, <3>2
  <2>6. CASE IsSeparator(c) /\ EndsInSeparator(o)
    <3>1. out[k] = o
      BY <2>2, <2>6 DEF Folded
    <3> QED
      BY <2>1, <2>3, <2>8, <3>1
  <2>7. CASE IsSeparator(c) /\ ~EndsInSeparator(o)
    <3>1. Clean(Append(o, sep), style)
      BY <1>1, <2>1, <2>7, CleanAppend DEF sep
    <3>2. out[k] = Append(o, sep)
      BY <2>2, <2>7 DEF Folded
    <3> QED
      BY <2>1, <2>3, <2>4, <2>8, <3>1, <3>2
  <2> QED
    BY <2>5, <2>6, <2>7
<1>4. \A k \in m .. n : k \in P
  <2> HIDE DEF P, m, n
  <2> QED
    BY <1>1, <1>2, <1>3, UpTo
<1>5. n \in m .. n
  BY <1>1
<1> QED
  BY <1>4, <1>5

\* What NormalizePathForStyle returns is normal, and no longer than its input.
LEMMA NormalizedNormal ==
  ASSUME NEW s \in Seq(Alphabet), NEW style
  PROVE  /\ Normal(NormalizePathForStyle(s, style), style)
         /\ Len(NormalizePathForStyle(s, style)) <= Len(s)
<1> DEFINE g == Output(s, style)[Len(s)]
           t == NormalizePathForStyle(s, style)
<1>1. Clean(g, style) /\ Len(g) <= Len(s) /\ t = Trimmed(g, style)
  BY OutputClean DEF NormalizePathForStyle
<1> HIDE DEF g, t
<1>2. g \in Seq(Alphabet) /\ Len(g) \in Nat /\ Len(s) \in Nat
  BY <1>1 DEF Clean
<1>3. PICK n \in 0 .. Len(g) : t = SubSeq(g, 1, n) /\ Stops(g, n, style)
  BY <1>1, <1>2, TrimmedStops
<1>4. t \in Seq(Alphabet) /\ Len(t) = n /\ n \in Nat /\ \A i \in 1 .. n : t[i] = g[i]
  BY <1>2, <1>3
<1>5. Clean(t, style)
  <2>1. \A i \in 1 .. Len(t) : IsSeparator(t[i]) => t[i] = PreferredSeparator(style)
    BY <1>1, <1>2, <1>4 DEF Clean
  <2>2. ASSUME NEW i \in 2 .. Len(t), IsSeparator(t[i - 1]), IsSeparator(t[i])
        PROVE  i = 2 /\ style = "windows"
    <3>1. i \in 2 .. Len(g) /\ t[i - 1] = g[i - 1] /\ t[i] = g[i]
      BY <1>2, <1>4
    <3> QED
      BY <1>1, <2>2, <3>1 DEF Clean
  <2> QED
    BY <1>4, <2>1, <2>2 DEF Clean
<1>6. SubSeq(t, 1, n) = t
  BY <1>4, SubSeqFull
<1>7. Stops(t, n, style)
  <2>1. CASE n <= 1
    BY <2>1 DEF Stops
  <2>2. CASE n > 1
    <3>1. t[n] = g[n]
      BY <1>4, <2>2
    <3> QED
      BY <1>3, <1>6, <3>1 DEF Stops
  <2> QED
    BY <1>4, <2>1, <2>2
<1>8. Len(t) >= 2 /\ IsSeparator(t[1]) /\ IsSeparator(t[2]) => Len(t) > 2
  <2>1. n = 2 /\ IsSeparator(t[2]) => IsWindowsDriveRoot(SubSeq(t, 1, n), PreferredSeparator(style))
    BY <1>7 DEF Stops
  <2>2. IsWindowsDriveRoot(t, PreferredSeparator(style)) => Len(t) = 3
    BY DEF IsWindowsDriveRoot
  <2>3. n = 2 /\ IsSeparator(t[2]) => n = 3
    BY <1>4, <1>6, <2>1, <2>2
  <2> QED
    BY <1>4, <2>3
<1>9. Normal(t, style)
  BY <1>4, <1>5, <1>7, <1>8 DEF Normal
<1>10. Len(t) <= Len(s)
  BY <1>1, <1>2, <1>4
<1> QED
  BY <1>9, <1>10 DEF t

-----------------------------------------------------------------------------
(* Parents and children of a path. *)

\* Where find_last_of finds a separator.
LEMMA LastSeparatorPlace ==
  ASSUME NEW p \in Seq(Alphabet)
  PROVE  /\ LastSeparator(p) \in 0 .. Len(p)
         /\ LastSeparator(p) # 0 => IsSeparator(p[LastSeparator(p)])
         /\ \A i \in LastSeparator(p) + 1 .. Len(p) : ~IsSeparator(p[i])
<1> DEFINE found == {i \in DOMAIN p : IsSeparator(p[i])}
<1>1. Len(p) \in Nat /\ DOMAIN p = 1 .. Len(p) /\ found \in SUBSET (0 .. Len(p))
  OBVIOUS
<1>2. CASE found = {}
  <2>1. LastSeparator(p) = 0
    BY <1>2 DEF LastSeparator
  <2> QED
    BY <1>1, <1>2, <2>1
<1>3. CASE found # {}
  <2> DEFINE last == CHOOSE i \in found : \A j \in found : i >= j
  <2>1. \E i \in found : \A j \in found : j <= i
    BY <1>1, <1>3, HasLast
  <2>2. \E i \in found : \A j \in found : i >= j
    BY <1>1, <2>1
  <2>3. last \in found /\ \A j \in found : last >= j
    BY <2>2
  <2>4. LastSeparator(p) = last
    BY <1>3 DEF LastSeparator
  <2> HIDE DEF last
  <2>5. last \in 1 .. Len(p) /\ IsSeparator(p[last])
    BY <1>1, <2>3
  <2>6. ASSUME NEW i \in last + 1 .. Len(p)
        PROVE  ~IsSeparator(p[i])
    <3>1. i \in 1 .. Len(p) /\ ~(last >= i)
      BY <1>1, <2>5
    <3>2. i \notin found
      BY <2>3, <3>1
    <3> QED
      BY <1>1, <3>1, <3>2
  <2> QED
    BY <1>1, <2>4, <2>5, <2>6
<1> QED
  BY <1>2, <1>3

\* The beginning of a text.
LEMMA StartOfText ==
  ASSUME NEW p \in Seq(Alphabet), NEW n \in 0 .. Len(p)
  PROVE  /\ SubSeq(p, 1, n) \in Seq(Alphabet) /\ Len(SubSeq(p, 1, n)) = n
         /\ \A i \in 1 .. n : SubSeq(p, 1, n)[i] = p[i]
OBVIOUS

\* The parent of a directory is shorter than the directory, roots having none (GetParentDirectory).
LEMMA ParentShorter ==
  ASSUME NEW p, NEW style, Normal(p, style), GetParentDirectory(p, style) # <<>>
  PROVE  /\ GetParentDirectory(p, style) \in Seq(Alphabet)
         /\ Len(GetParentDirectory(p, style)) < Len(p)
<1> DEFINE pos == LastSeparator(p)
           parent == GetParentDirectory(p, style)
<1>1. p \in Seq(Alphabet) /\ Len(p) \in Nat
  BY DEF Normal, Clean
<1>2. ~HasNoParent(p, style) /\ parent = UpToSeparator(p, style)
  BY DEF GetParentDirectory
<1>3. pos \in 0 .. Len(p) /\ pos # 0 => IsSeparator(p[pos])
  BY <1>1, LastSeparatorPlace
<1>4. pos \in 0 .. Len(p)
  BY <1>1, LastSeparatorPlace
<1>5. pos # 0
  BY <1>2 DEF UpToSeparator
<1>6. CASE pos = 1
  <2>1. Len(p) # 1 /\ parent = SubSeq(p, 1, 1)
    BY <1>2, <1>5, <1>6 DEF UpToSeparator
  <2>2. Len(p) > 1 /\ 1 \in 0 .. Len(p)
    BY <1>1, <1>4, <1>6, <2>1
  <2> QED
    BY <1>1, <2>1, <2>2, StartOfText
<1>7. CASE pos = 3 /\ style = "windows" /\ IsAsciiAlpha(p[1]) /\ p[2] = ":"
  <2>1. parent = SubSeq(p, 1, 3)
    BY <1>2, <1>7 DEF UpToSeparator
  <2>2. 3 \in 1 .. Len(p) /\ IsSeparator(p[3])
    BY <1>1, <1>3, <1>4, <1>7
  <2>3. p[3] = "\\"
    BY <1>7, <2>2 DEF Normal, Clean, PreferredSeparator
  <2>4. Len(p) # 3
    BY <1>2, <1>7, <2>3 DEF HasNoParent, IsRoot, IsWindowsDriveRoot
  <2>5. Len(p) > 3 /\ 3 \in 0 .. Len(p)
    <3> DEFINE n == Len(p)
    <3>1. n \in Nat /\ 3 \in 1 .. n /\ n # 3
      BY <1>1, <2>2, <2>4
    <3> HIDE DEF n
    <3>2. n > 3 /\ 3 \in 0 .. n
      BY <3>1
    <3> QED
      BY <3>2 DEF n
  <2> QED
    BY <1>1, <2>1, <2>5, StartOfText
<1>8. CASE pos # 1 /\ ~(pos = 3 /\ style = "windows" /\ IsAsciiAlpha(p[1]) /\ p[2] = ":")
  <2>1. parent = SubSeq(p, 1, pos - 1)
    BY <1>2, <1>5, <1>8 DEF UpToSeparator
  <2>2. pos - 1 \in 0 .. Len(p) /\ pos - 1 < Len(p)
    BY <1>1, <1>4, <1>5
  <2> QED
    BY <1>1, <2>1, <2>2, StartOfText
<1> QED
  BY <1>6, <1>7, <1>8

\* A name behind a clean text that ends in a separator.
LEMMA NameBehind ==
  ASSUME NEW r, NEW style, Clean(r, style), EndsInSeparator(r),
         Len(r) >= 2 /\ IsSeparator(r[1]) /\ IsSeparator(r[2]) => style = "windows",
         NEW e \in Seq(NameChars), e # <<>>
  PROVE  Normal(r \o e, style)
<1> DEFINE q == r \o e
           l == Len(r)
<1>1. r \in Seq(Alphabet) /\ e \in Seq(Alphabet) /\ Len(e) \in Nat /\ Len(e) >= 1 /\ l \in Nat /\ l >= 1
  <2>1. r \in Seq(Alphabet) /\ r # <<>>
    BY DEF Clean, EndsInSeparator
  <2>2. NameChars \subseteq Alphabet
    BY DEF NameChars
  <2> QED
    BY <2>1, <2>2, SeqMonotonic
<1>2. \A i \in 1 .. Len(e) : ~IsSeparator(e[i])
  BY DEF NameChars
<1>3. /\ q \in Seq(Alphabet) /\ Len(q) = l + Len(e)
      /\ \A i \in 1 .. l + Len(e) : q[i] = IF i <= l THEN r[i] ELSE e[i - l]
  BY <1>1, ConcatProperties
<1> HIDE DEF q
<1>4. \A i \in 1 .. l : q[i] = r[i]
  <2> HIDE DEF l
  <2> QED
    BY <1>1, <1>3
<1>5. \A i \in l + 1 .. Len(q) : ~IsSeparator(q[i])
  <2> SUFFICES ASSUME NEW i \in l + 1 .. Len(q)
               PROVE  ~IsSeparator(q[i])
    OBVIOUS
  <2>1. i - l \in 1 .. Len(e) /\ i \in 1 .. l + Len(e) /\ ~(i <= l)
    BY <1>1, <1>3
  <2>2. q[i] = e[i - l]
    BY <1>3, <2>1
  <2> QED
    BY <1>2, <2>1, <2>2
<1>6. ASSUME NEW i \in 1 .. Len(q), IsSeparator(q[i])
      PROVE  i \in 1 .. l
  <2> HIDE DEF l
  <2>1. i \in Nat /\ i >= 1 /\ ~(i \in l + 1 .. Len(q)) /\ i <= Len(q) /\ Len(q) \in Nat
    BY <1>1, <1>3, <1>5, <1>6
  <2> QED
    BY <1>1, <2>1
<1>7. Clean(q, style)
  <2>1. ASSUME NEW i \in 1 .. Len(q), IsSeparator(q[i])
        PROVE  q[i] = PreferredSeparator(style)
    <3>1. i \in 1 .. l /\ q[i] = r[i]
      BY <1>4, <1>6, <2>1
    <3> QED
      BY <2>1, <3>1 DEF Clean
  <2>2. ASSUME NEW i \in 2 .. Len(q), IsSeparator(q[i - 1]), IsSeparator(q[i])
        PROVE  i = 2 /\ style = "windows"
    <3>1. i \in 1 .. Len(q) /\ i - 1 \in 1 .. l
      BY <1>1, <1>3, <1>6, <2>2
    <3>2. i \in 2 .. l /\ i \in 1 .. l
      BY <1>1, <1>6, <2>2, <3>1
    <3>3. q[i] = r[i] /\ q[i - 1] = r[i - 1]
      BY <1>4, <3>1, <3>2
    <3> QED
      BY <2>2, <3>2, <3>3 DEF Clean
  <2> QED
    BY <1>3, <2>1, <2>2 DEF Clean
<1>8. ~IsSeparator(q[Len(q)])
  BY <1>1, <1>3, <1>5
<1>9. Len(q) >= 2 /\ IsSeparator(q[1]) /\ IsSeparator(q[2]) => Len(q) > 2
  BY <1>1, <1>3, <1>6, <1>8
<1>10. Normal(q, style)
  BY <1>7, <1>8, <1>9 DEF Normal, Stops
<1> QED
  BY <1>10 DEF q

\* An entry found in a directory (JoinPath).
LEMMA ChildNormal ==
  ASSUME NEW p, NEW style, Normal(p, style), p # <<>>, NEW e \in Seq(NameChars), e # <<>>
  PROVE  Normal(JoinPath(p, e, style), style) /\ JoinPath(p, e, style) # <<>>
<1> DEFINE sep == PreferredSeparator(style)
           r == IF EndsInSeparator(p) THEN p ELSE Append(p, sep)
<1>1. sep \in Alphabet /\ IsSeparator(sep) /\ p \in Seq(Alphabet) /\ Clean(p, style) /\ e \in Seq(Alphabet)
  <2>1. NameChars \subseteq Alphabet
    BY DEF NameChars
  <2> QED
    BY <2>1, Separators, SeqMonotonic DEF Normal, Clean
<1>2. JoinPath(p, e, style) = r \o e
  <2>1. p \o <<sep>> = Append(p, sep)
    BY <1>1, AppendIsConcat
  <2> QED
    BY <2>1 DEF JoinPath
<1>3. Clean(r, style) /\ EndsInSeparator(r)
  <2>1. CASE EndsInSeparator(p)
    BY <1>1, <2>1
  <2>2. CASE ~EndsInSeparator(p)
    <3>1. Clean(Append(p, sep), style)
      BY <1>1, <2>2, CleanAppend
    <3>2. EndsInSeparator(Append(p, sep))
      BY <1>1, AppendProperties DEF EndsInSeparator
    <3> QED
      BY <2>2, <3>1, <3>2
  <2> QED
    BY <2>1, <2>2
<1> HIDE DEF r
<1>4. Len(r) >= 2 /\ IsSeparator(r[1]) /\ IsSeparator(r[2]) => style = "windows"
  <2>1. Len(r) >= 2 => 2 \in 2 .. Len(r) /\ 2 - 1 = 1
    BY <1>3 DEF Clean
  <2> QED
    BY <1>3, <2>1 DEF Clean
<1>5. Normal(r \o e, style)
  BY <1>3, <1>4, NameBehind
<1>6. r \o e # <<>>
  BY <1>1, <1>3, ConcatEqualIffEmpty DEF Clean
<1> QED
  BY <1>2, <1>5, <1>6

\* The beginning of a clean text is clean.
LEMMA CleanStart ==
  ASSUME NEW p, NEW style, Clean(p, style), NEW n \in 0 .. Len(p)
  PROVE  Clean(SubSeq(p, 1, n), style)
<1> DEFINE t == SubSeq(p, 1, n)
<1>1. p \in Seq(Alphabet) /\ Len(p) \in Nat
  BY DEF Clean
<1>2. t \in Seq(Alphabet) /\ Len(t) = n /\ \A i \in 1 .. n : t[i] = p[i]
  BY <1>1, StartOfText
<1> HIDE DEF t
<1>3. \A i \in 1 .. Len(t) : IsSeparator(t[i]) => t[i] = PreferredSeparator(style)
  BY <1>1, <1>2 DEF Clean
<1>4. ASSUME NEW i \in 2 .. Len(t), IsSeparator(t[i - 1]), IsSeparator(t[i])
      PROVE  i = 2 /\ style = "windows"
  <2>1. i \in 2 .. Len(p) /\ t[i] = p[i] /\ t[i - 1] = p[i - 1]
    BY <1>1, <1>2
  <2> QED
    BY <1>4, <2>1 DEF Clean
<1>5. Clean(t, style)
  BY <1>2, <1>3, <1>4 DEF Clean
<1> QED
  BY <1>5 DEF t

\* A parent is normal as it is, so that normalizing it once more changes nothing.
LEMMA ParentNormal ==
  ASSUME NEW p, NEW style, Normal(p, style), GetParentDirectory(p, style) # <<>>
  PROVE  Normal(GetParentDirectory(p, style), style)
<1> DEFINE pos == LastSeparator(p)
           parent == GetParentDirectory(p, style)
<1>1. p \in Seq(Alphabet) /\ Len(p) \in Nat /\ Clean(p, style)
  BY DEF Normal, Clean
<1>2. parent = UpToSeparator(p, style) /\ parent # <<>>
  BY DEF GetParentDirectory
<1>3. pos \in 0 .. Len(p) /\ (pos # 0 => IsSeparator(p[pos]))
  BY <1>1, LastSeparatorPlace
<1>4. pos # 0
  BY <1>2 DEF UpToSeparator
<1> HIDE DEF pos, parent
<1>5. ASSUME parent = SubSeq(p, 1, 1)
      PROVE  Normal(parent, style)
  <2>1. 1 \in 0 .. Len(p)
    BY <1>1, <1>3, <1>4
  <2>2. Len(parent) = 1 /\ Clean(parent, style)
    BY <1>1, <1>5, <2>1, StartOfText, CleanStart
  <2> QED
    BY <2>2 DEF Normal, Stops
<1>6. CASE pos = 1
  <2>1. parent = SubSeq(p, 1, 1)
    BY <1>2, <1>6 DEF UpToSeparator, pos
  <2> QED
    BY <1>5, <2>1 DEF parent
<1>7. CASE pos = 3 /\ style = "windows" /\ IsAsciiAlpha(p[1]) /\ p[2] = ":"
  <2>1. parent = SubSeq(p, 1, 3)
    BY <1>2, <1>7 DEF UpToSeparator, pos
  <2>2. 3 \in 0 .. Len(p) /\ 3 \in 1 .. Len(p) /\ IsSeparator(p[3])
    BY <1>1, <1>3, <1>7
  <2>3. /\ Clean(parent, style) /\ parent \in Seq(Alphabet) /\ Len(parent) = 3
        /\ parent[1] = p[1] /\ parent[2] = p[2] /\ parent[3] = p[3]
    BY <1>1, <2>1, <2>2, CleanStart, StartOfText
  <2>4. p[3] = PreferredSeparator(style)
    BY <1>1, <2>2 DEF Clean
  <2>5. IsWindowsDriveRoot(parent, PreferredSeparator(style))
    BY <1>7, <2>3, <2>4 DEF IsWindowsDriveRoot
  <2>6. SubSeq(parent, 1, 3) = parent
    BY <2>3, SubSeqFull
  <2>7. Stops(parent, Len(parent), style)
    BY <1>7, <2>3, <2>5, <2>6 DEF Stops
  <2>8. Len(parent) > 2
    BY <2>3
  <2>9. Normal(parent, style)
    BY <2>3, <2>7, <2>8 DEF Normal
  <2> QED
    BY <2>9 DEF parent
<1>8. CASE pos # 1 /\ ~(pos = 3 /\ style = "windows" /\ IsAsciiAlpha(p[1]) /\ p[2] = ":")
  <2> DEFINE n == pos - 1
  <2>1. parent = SubSeq(p, 1, n)
    BY <1>2, <1>4, <1>8 DEF UpToSeparator, pos
  <2>2. n \in 1 .. Len(p) /\ n \in 0 .. Len(p) /\ pos \in 2 .. Len(p) /\ n \in Nat
    BY <1>1, <1>3, <1>4, <1>8
  <2>3. Clean(parent, style) /\ Len(parent) = n /\ \A i \in 1 .. n : parent[i] = p[i]
    BY <1>1, <2>1, <2>2, CleanStart, StartOfText
  <2>4. n >= 2 => ~IsSeparator(p[n])
    <3> SUFFICES ASSUME n >= 2, IsSeparator(p[n])
                 PROVE  FALSE
      OBVIOUS
    <3>1. IsSeparator(p[pos - 1]) /\ IsSeparator(p[pos]) /\ pos # 2
      BY <1>3, <1>4, <2>2
    <3> QED
      BY <1>1, <2>2, <3>1 DEF Clean
  <2> HIDE DEF n
  <2>5. n >= 2 => ~IsSeparator(parent[n])
    BY <2>2, <2>3, <2>4
  <2>6. Stops(parent, Len(parent), style)
    BY <2>2, <2>3, <2>5 DEF Stops
  <2>7. Len(parent) >= 2 /\ IsSeparator(parent[1]) /\ IsSeparator(parent[2]) => Len(parent) > 2
    BY <2>2, <2>3, <2>5
  <2>8. Normal(parent, style)
    BY <2>3, <2>6, <2>7 DEF Normal
  <2> QED
    BY <2>8 DEF parent
<1> QED
  BY <1>6, <1>7, <1>8

\* Where the separators are, when that is known.
LEMMA LastSeparatorIs ==
  ASSUME NEW p \in Seq(Alphabet), NEW n \in 0 .. Len(p), n # 0 => IsSeparator(p[n]),
         \A i \in n + 1 .. Len(p) : ~IsSeparator(p[i])
  PROVE  LastSeparator(p) = n
<1> DEFINE pos == LastSeparator(p)
<1>1. /\ pos \in 0 .. Len(p) /\ (pos # 0 => IsSeparator(p[pos]))
      /\ \A i \in pos + 1 .. Len(p) : ~IsSeparator(p[i])
  BY LastSeparatorPlace
<1> HIDE DEF pos
<1>2. Len(p) \in Nat
  OBVIOUS
<1>3. ~(pos < n)
  BY <1>1, <1>2
<1>4. ~(n < pos)
  BY <1>1, <1>2
<1>5. pos = n
  BY <1>1, <1>2, <1>3, <1>4
<1> QED
  BY <1>5 DEF pos

\* So the first one from a place on.
LEMMA SeparatorAfterIs ==
  ASSUME NEW p \in Seq(Alphabet), NEW from \in Nat, NEW n \in from .. Len(p), IsSeparator(p[n]),
         \A i \in from .. n - 1 : ~IsSeparator(p[i])
  PROVE  SeparatorAfter(p, from) = n
<1> DEFINE found == {i \in from .. Len(p) : IsSeparator(p[i])}
           first == CHOOSE i \in found : \A j \in found : i <= j
<1>1. Len(p) \in Nat /\ n \in found
  OBVIOUS
<1>2. \A j \in found : n <= j
  <2> SUFFICES ASSUME NEW j \in found, j < n
               PROVE  FALSE
    BY <1>1
  <2>1. j \in from .. n - 1 /\ IsSeparator(p[j])
    BY <1>1
  <2> QED
    BY <2>1
<1>3. first \in found /\ \A j \in found : first <= j
  BY <1>1, <1>2
<1>4. SeparatorAfter(p, from) = first
  BY <1>1 DEF SeparatorAfter
<1> HIDE DEF first
<1>5. first \in Nat /\ first <= n /\ n <= first
  BY <1>1, <1>2, <1>3
<1> QED
  BY <1>4, <1>5

\* And none.
LEMMA NoSeparatorAfter ==
  ASSUME NEW p, NEW from, \A i \in from .. Len(p) : ~IsSeparator(p[i])
  PROVE  SeparatorAfter(p, from) = 0
BY DEF SeparatorAfter

-----------------------------------------------------------------------------
(* The paths of the file service. *)

\* The inductive invariant: the path of a call is normal, however it came about.
PathInv ==
    /\ raw \in Seq(Alphabet)
    /\ Normal(path, Style)
    /\ phase \in {"creating", "deleting"} => path # <<>>

\* It holds at the start.
LEMMA InitPath == Init => PathInv
<1> SUFFICES ASSUME Init
             PROVE  PathInv
  OBVIOUS
<1>1. <<>> \in Seq(Alphabet) /\ Len(<<>>) = 0
  OBVIOUS
<1>2. Normal(<<>>, Style)
  BY <1>1 DEF Normal, Clean, Stops
<1> QED
  BY <1>1, <1>2 DEF Init, PathInv

\* Every step keeps it.
LEMMA NextPath == PathInv /\ [Next]_vars => PathInv'
<1> SUFFICES ASSUME PathInv, [Next]_vars
             PROVE  PathInv'
  OBVIOUS
<1> USE DEF PathInv
<1>1. CASE Type
  <2>1. PICK c \in Alphabet : raw' = Append(raw, c)
    BY <1>1 DEF Type
  <2>2. raw' \in Seq(Alphabet)
    BY <2>1
  <2>3. path' = path /\ phase' = phase /\ Style' = Style
    BY <1>1 DEF Type, Style
  <2> QED
    BY <2>2, <2>3
<1>2. ASSUME NEW kind \in {"creating", "deleting"}, Call(kind)
      PROVE  PathInv'
  <2>1. raw' = raw /\ Style' = Style /\ path' = NormalizePathForStyle(raw, Style)
    BY <1>2 DEF Call, Style
  <2>2. Normal(path', Style)
    BY <2>1, NormalizedNormal
  <2>3. phase' \in {"creating", "deleting"} => path' # <<>>
    BY <1>2 DEF Call
  <2> QED
    BY <2>1, <2>2, <2>3
<1>3. CASE Climb
  <2> DEFINE parent == GetParentDirectory(path, Style)
  <2>1. raw' = raw /\ Style' = Style
    BY <1>3 DEF Climb, Style
  <2>2. CASE parent = <<>>
    BY <1>3, <2>1, <2>2 DEF Climb
  <2>3. CASE parent # <<>>
    <3>1. path' = NormalizePathForStyle(parent, Style)
      BY <1>3, <2>3 DEF Climb
    <3>2. Normal(parent, Style)
      BY <2>3, ParentNormal
    <3>3. path' = parent
      BY <3>1, <3>2, NormalKept
    <3> QED
      BY <2>1, <2>3, <3>2, <3>3
  <2> QED
    BY <2>2, <2>3
<1>4. CASE Descend
  <2>1. raw' = raw /\ Style' = Style /\ phase' = phase /\ path # <<>> /\ path' = JoinPath(path, Entry, Style)
    BY <1>4 DEF Descend, Style
  <2>2. Entry \in Seq(NameChars) /\ Entry # <<>>
    <3>1. Alphabet \ {"/", "\\"} = NameChars
      BY DEF NameChars, IsSeparator
    <3> QED
      BY <3>1, PathAssumption
  <2>3. Normal(path', Style) /\ path' # <<>>
    BY <2>1, <2>2, ChildNormal
  <2> QED
    BY <2>1, <2>3
<1>5. CASE UNCHANGED vars
  BY <1>5 DEF vars, Style
<1> QED
  BY <1>1, <1>2, <1>3, <1>4, <1>5 DEF Next

\* The path of a call is normal in every state.
THEOREM PathsInvariant == Spec => []PathInv
BY InitPath, NextPath, PTL DEF Spec

\* Every spelling of a path becomes the one spelling of it, and what is made of that as a parent or as
\* a child is such a spelling too (NormalizePathForStyle, GetParentDirectory, JoinPath).
THEOREM OneSpelling == Spec => []PathsAreCanonical
<1>1. ASSUME PathInv
      PROVE  PathsAreCanonical
  <2> USE <1>1 DEF PathInv
  <2>1. path \in Seq(Alphabet)
    BY DEF Normal, Clean
  <2>2. path = Canonical(path, Style)
    BY <2>1, NormalKept, NormalizedIsCanonical
  <2>3. NormalizePathForStyle(raw, Style) = Canonical(raw, Style)
    BY NormalizedIsCanonical
  <2> QED
    BY <2>2, <2>3 DEF PathsAreCanonical
<1> QED
  BY <1>1, PathsInvariant, PTL

\* Each parent is shorter than its directory, although it is normalized once more.
ClimbShortens == phase = "creating" /\ phase' = "creating" => Len(path') < Len(path)

\* What the climb's steps do.
LEMMA ClimbGoesUp == PathInv /\ Next => ClimbShortens
<1>1. ASSUME PathInv, Next
      PROVE  ClimbShortens
  <2> SUFFICES ASSUME phase = "creating", phase' = "creating"
               PROVE  Len(path') < Len(path)
    BY DEF ClimbShortens
  <2> DEFINE parent == GetParentDirectory(path, Style)
  <2>1. Climb
    BY <1>1 DEF Next, Type, Call, Descend
  <2>2. parent # <<>> /\ path' = NormalizePathForStyle(parent, Style)
    BY <2>1 DEF Climb
  <2>3. parent \in Seq(Alphabet) /\ Len(parent) < Len(path)
    BY <1>1, <2>2, ParentShorter DEF PathInv
  <2> HIDE DEF parent
  <2>4. Len(path') <= Len(parent) /\ Len(path') \in Nat
    BY <2>2, <2>3, NormalizedNormal DEF Normal, Clean
  <2>5. Len(path) \in Nat /\ Len(parent) \in Nat
    BY <1>1, <2>3 DEF PathInv, Normal, Clean
  <2> QED
    BY <2>3, <2>4, <2>5
<1> QED
  BY <1>1

-----------------------------------------------------------------------------
(* The directories above a path. *)

\* What can be in front of a path's names: nothing, a separator, or a share's two.
IsFront(F, style) ==
    /\ F \in Seq(Alphabet) /\ Len(F) <= 2 /\ (Len(F) = 2 => style = "windows")
    /\ \A i \in 1 .. Len(F) : F[i] = PreferredSeparator(style)

\* The text of a front and names.
Text(F, f, style) == F \o Joined(f, PreferredSeparator(style))

\* A name behind a separator behind a text.
Below(u, x, style) == u \o <<PreferredSeparator(style)>> \o x

\* Names that are joined begin with a character of a name.
LEMMA JoinedBegin ==
  ASSUME NEW names \in Seq(NameSet), names # <<>>, NEW sep \in Alphabet
  PROVE  LET j == Joined(names, sep)
         IN Len(j) >= 1 /\ ~IsSeparator(j[1])
<1> DEFINE n == Len(names)
           j == JoinedUpTo(names, sep)
           P == {k \in 1 .. n : Len(j[k]) >= 1 /\ ~IsSeparator(j[k][1])}
           t == <<sep>>
<1>1. n \in Nat /\ n >= 1 /\ t \in Seq(Alphabet)
  OBVIOUS
<1>2. /\ \A k \in 0 .. n : j[k] \in Seq(Alphabet)
      /\ \A k \in 1 .. n : j[k] = NextJoined(j[k - 1], names, k, sep)
  BY JoinedSteps
<1>3. \A k \in 1 .. n : names[k] \in Seq(NameChars) /\ names[k] # <<>> /\ names[k] \in Seq(Alphabet)
  BY NameSetType DEF NameSet
<1>4. Joined(names, sep) = j[n]
  BY DEF Joined
<1> HIDE DEF n, j
<1>5. 1 \in P
  <2>1. 1 \in 1 .. n /\ j[1] = names[1]
    BY <1>1, <1>2 DEF NextJoined
  <2>2. names[1] \in Seq(NameChars) /\ names[1] # <<>>
    BY <1>3, <2>1
  <2>3. Len(names[1]) >= 1 /\ names[1][1] \in NameChars
    BY <2>2
  <2> QED
    BY <2>1, <2>3 DEF NameChars
<1>6. ASSUME NEW k \in 1 + 1 .. n, k - 1 \in P
      PROVE  k \in P
  <2> DEFINE v == j[k - 1]
             x == names[k]
  <2>1. k \in 1 .. n /\ k - 1 \in 0 .. n /\ k # 1
    BY <1>1
  <2>2. j[k] = v \o <<sep>> \o x
    BY <1>2, <2>1 DEF NextJoined
  <2>3. v \in Seq(Alphabet) /\ x \in Seq(Alphabet) /\ Len(v) >= 1 /\ ~IsSeparator(v[1])
    BY <1>2, <1>3, <1>6, <2>1
  <2>4. j[k] = (v \o t) \o x
    BY <2>2
  <2> HIDE DEF v, x, t
  <2>5. /\ v \o t \in Seq(Alphabet) /\ Len(v \o t) = Len(v) + Len(t) /\ (v \o t)[1] = v[1]
        /\ Len(v) \in Nat /\ Len(t) \in Nat
    BY <1>1, <2>3, ConcatProperties
  <2> DEFINE w == v \o t
  <2> HIDE DEF w
  <2>6. Len(w) >= 1 /\ w \in Seq(Alphabet) /\ w[1] = v[1]
    BY <2>3, <2>5 DEF w
  <2>7. Len(w \o x) >= 1 /\ (w \o x)[1] = w[1]
    BY <2>3, <2>6, ConcatProperties
  <2> QED
    BY <2>1, <2>3, <2>4, <2>6, <2>7 DEF w
<1> HIDE DEF P
<1>7. \A k \in 1 .. n : k \in P
  BY <1>1, <1>5, <1>6, UpTo
<1> QED
  BY <1>1, <1>4, <1>7 DEF P

\* A text of a front and names has the front's separators, and then begins and ends
\* in the character of a name.
LEMMA TextShape ==
  ASSUME NEW F, NEW style, IsFront(F, style), NEW f \in Seq(NameSet), f # <<>>
  PROVE  LET u == Text(F, f, style)
         IN /\ u \in Seq(Alphabet) /\ Len(F) \in Nat /\ Len(u) \in Nat /\ Len(u) > Len(F)
            /\ \A i \in 1 .. Len(F) : u[i] = PreferredSeparator(style)
            /\ ~IsSeparator(u[Len(F) + 1])
            /\ ~IsSeparator(u[Len(u)])
<1> DEFINE sep == PreferredSeparator(style)
           j == Joined(f, sep)
           u == F \o j
           m == Len(F)
<1>1. sep \in Alphabet
  BY Separators
<1>2. j \in Seq(Alphabet) /\ Len(j) >= 1 /\ ~IsSeparator(j[1]) /\ ~IsSeparator(j[Len(j)]) /\ Len(j) \in Nat
  BY <1>1, JoinedType, JoinedBegin, JoinedEnd
<1>3. F \in Seq(Alphabet) /\ m \in Nat /\ \A i \in 1 .. m : F[i] = sep
  BY DEF IsFront
<1> HIDE DEF j
<1>4. /\ u \in Seq(Alphabet) /\ Len(u) = m + Len(j)
      /\ \A i \in 1 .. m + Len(j) : u[i] = IF i <= m THEN F[i] ELSE j[i - m]
  BY <1>2, <1>3, ConcatProperties
<1> HIDE DEF u, m
<1>5. \A i \in 1 .. m : u[i] = sep
  BY <1>2, <1>3, <1>4
<1>6. u[m + 1] = j[1]
  BY <1>2, <1>3, <1>4
<1>7. u[m + Len(j)] = j[Len(j)]
  BY <1>2, <1>3, <1>4
<1>8. Text(F, f, style) = u
  BY DEF Text, u, j
<1> QED
  BY <1>2, <1>3, <1>4, <1>5, <1>6, <1>7, <1>8 DEF m

\* Four texts in a row.
LEMMA FourParts ==
  ASSUME NEW S, NEW a \in Seq(S), NEW b \in Seq(S), NEW c \in Seq(S), NEW d \in Seq(S)
  PROVE  a \o ((b \o c) \o d) = ((a \o b) \o c) \o d
<1>1. b \o c \in Seq(S) /\ a \o b \in Seq(S)
  OBVIOUS
<1>2. (a \o b) \o c = a \o (b \o c)
  BY <1>1, ConcatAssociative, SMTT(60)
<1> DEFINE e == b \o c
<1>3. e \in Seq(S)
  BY <1>1
<1> HIDE DEF e
<1>4. a \o e \in Seq(S) /\ e \o d \in Seq(S)
  BY <1>3
<1>5. (a \o e) \o d = a \o (e \o d)
  BY <1>3, <1>4, ConcatAssociative, SMTT(60)
<1> QED
  BY <1>2, <1>5 DEF e

\* One more name behind a text.
LEMMA TextBelow ==
  ASSUME NEW F, NEW style, IsFront(F, style), NEW f \in Seq(NameSet), NEW x \in NameSet
  PROVE  Text(F, Append(f, x), style) = IF f = <<>> THEN F \o x ELSE Below(Text(F, f, style), x, style)
<1> DEFINE sep == PreferredSeparator(style)
           j == Joined(f, sep)
           t == <<sep>>
<1>1. sep \in Alphabet /\ t \in Seq(Alphabet) /\ F \in Seq(Alphabet) /\ x \in Seq(Alphabet)
  BY Separators, NameSetType DEF IsFront
<1>2. CASE f = <<>>
  BY <1>1, <1>2, JoinedAppend DEF Text
<1>3. CASE f # <<>>
  <2>1. Joined(Append(f, x), sep) = (j \o t) \o x
    BY <1>1, <1>3, JoinedAppend
  <2>2. j \in Seq(Alphabet)
    BY <1>1, JoinedType
  <2> HIDE DEF j, t
  <2>3. t \in Seq(Alphabet) /\ F \in Seq(Alphabet) /\ x \in Seq(Alphabet)
    BY <1>1
  <2>4. F \o ((j \o t) \o x) = ((F \o j) \o t) \o x
    BY <2>2, <2>3, FourParts, SMTT(60)
  <2>5. F \o Joined(Append(f, x), sep) = ((F \o j) \o t) \o x
    BY <2>1, <2>4
  <2> QED
    BY <1>3, <2>5 DEF Text, Below, j, t
<1> QED
  BY <1>2, <1>3

\* Character by character.
LEMMA BelowShape ==
  ASSUME NEW u \in Seq(Alphabet), NEW x \in NameSet, NEW style
  PROVE  LET p == Below(u, x, style)
         IN /\ p \in Seq(Alphabet) /\ Len(u) \in Nat /\ Len(p) \in Nat /\ Len(p) >= Len(u) + 2
            /\ \A i \in 1 .. Len(u) : p[i] = u[i]
            /\ p[Len(u) + 1] = PreferredSeparator(style) /\ IsSeparator(p[Len(u) + 1])
            /\ \A i \in Len(u) + 2 .. Len(p) : ~IsSeparator(p[i])
<1> DEFINE sep == PreferredSeparator(style)
           w == Append(u, sep)
           m == Len(u)
           p == w \o x
<1>1. sep \in Alphabet /\ IsSeparator(sep)
  BY Separators
<1>2. x \in Seq(NameChars) /\ x \in Seq(Alphabet) /\ Len(x) \in Nat /\ Len(x) >= 1
  BY NameSetType DEF NameSet
<1>3. \A i \in 1 .. Len(x) : ~IsSeparator(x[i])
  BY <1>2 DEF NameChars
<1>4. /\ w \in Seq(Alphabet) /\ Len(w) = m + 1 /\ m \in Nat /\ w[m + 1] = sep
      /\ \A i \in 1 .. m : w[i] = u[i]
  BY <1>1, AppendProperties
<1>5. Below(u, x, style) = p
  <2>1. u \o <<sep>> = w
    BY <1>1, AppendIsConcat
  <2> QED
    BY <2>1 DEF Below
<1> HIDE DEF w
<1>6. /\ p \in Seq(Alphabet) /\ Len(p) = Len(w) + Len(x)
      /\ \A i \in 1 .. Len(w) + Len(x) : p[i] = IF i <= Len(w) THEN w[i] ELSE x[i - Len(w)]
  BY <1>2, <1>4, ConcatProperties
<1> HIDE DEF p, m
<1>7. \A i \in 1 .. m : p[i] = u[i]
  <2> SUFFICES ASSUME NEW i \in 1 .. m
               PROVE  p[i] = u[i]
    OBVIOUS
  <2>1. i \in 1 .. Len(w) + Len(x) /\ i <= Len(w)
    BY <1>2, <1>4
  <2> QED
    BY <1>4, <1>6, <2>1
<1>8. p[m + 1] = sep
  BY <1>2, <1>4, <1>6
<1>9. \A i \in m + 2 .. Len(p) : ~IsSeparator(p[i])
  <2> SUFFICES ASSUME NEW i \in m + 2 .. Len(p)
               PROVE  ~IsSeparator(p[i])
    OBVIOUS
  <2>1. i \in 1 .. Len(w) + Len(x) /\ ~(i <= Len(w)) /\ i - Len(w) \in 1 .. Len(x)
    BY <1>2, <1>4, <1>6
  <2> QED
    BY <1>3, <1>6, <2>1
<1> QED
  BY <1>1, <1>2, <1>4, <1>5, <1>6, <1>7, <1>8, <1>9 DEF m

\* A text that ends in the character of a name is no root.
LEMMA NameIsNoRoot ==
  ASSUME NEW p \in Seq(Alphabet), NEW style, p # <<>>, ~IsSeparator(p[Len(p)])
  PROVE  ~IsRoot(p, style)
<1>1. p # <<"/">>
  BY Separators
<1>2. ~IsWindowsDriveRoot(p, "\\")
  BY Separators DEF IsWindowsDriveRoot
<1> QED
  BY <1>1, <1>2 DEF IsRoot

\* How long it is.
LEMMA FrontLength ==
  ASSUME NEW F, NEW style, IsFront(F, style)
  PROVE  /\ F \in Seq(Alphabet) /\ Len(F) \in {0, 1, 2} /\ (Len(F) = 2 => style = "windows")
         /\ \A i \in 1 .. Len(F) : F[i] = PreferredSeparator(style)
<1> DEFINE m == Len(F)
<1>1. F \in Seq(Alphabet) /\ m \in Nat /\ m <= 2
  BY DEF IsFront
<1> HIDE DEF m
<1>2. m \in {0, 1, 2}
  BY <1>1
<1> QED
  BY <1>1, <1>2 DEF IsFront, m

\* A text is behind two separators only in a share.
LEMMA SharesBegin ==
  ASSUME NEW F, NEW style, IsFront(F, style), NEW p \in Seq(Alphabet), Len(p) > Len(F),
         \A i \in 1 .. Len(F) : p[i] = PreferredSeparator(style), ~IsSeparator(p[Len(F) + 1])
  PROVE  /\ Len(F) # 2 => ~IsShareRoot(p, style)
         /\ Len(F) = 2 =>
              /\ style = "windows" /\ Len(p) >= 2 /\ IsSeparator(p[1]) /\ IsSeparator(p[2])
<1>1. Len(F) \in {0, 1, 2} /\ Len(p) \in Nat
  BY FrontLength
<1>2. Len(F) = 0 => ~IsSeparator(p[1])
  OBVIOUS
<1>3. Len(F) = 1 => ~IsSeparator(p[2])
  OBVIOUS
<1>4. Len(F) # 2 => ~IsShareRoot(p, style)
  BY <1>1, <1>2, <1>3 DEF IsShareRoot
<1>5. Len(F) = 2 => p[1] = PreferredSeparator(style) /\ p[2] = PreferredSeparator(style)
  OBVIOUS
<1> QED
  BY <1>1, <1>4, <1>5, Separators DEF IsFront

\* The parent of the first directory is what is in front of it, if that is a root.
LEMMA ParentOfFirst ==
  ASSUME NEW F, NEW style, IsFront(F, style), NEW x \in NameSet
  PROVE  GetParentDirectory(F \o x, style) = IF Len(F) = 1 THEN F ELSE <<>>
<1> DEFINE p == F \o x
           m == Len(F)
<1>1. x \in Seq(NameChars) /\ x \in Seq(Alphabet) /\ Len(x) \in Nat /\ Len(x) >= 1
  BY NameSetType DEF NameSet
<1>2. \A i \in 1 .. Len(x) : ~IsSeparator(x[i])
  BY <1>1 DEF NameChars
<1>3. F \in Seq(Alphabet) /\ m \in {0, 1, 2} /\ \A i \in 1 .. m : F[i] = PreferredSeparator(style)
  BY FrontLength
<1>4. /\ p \in Seq(Alphabet) /\ Len(p) = m + Len(x)
      /\ \A i \in 1 .. m + Len(x) : p[i] = IF i <= m THEN F[i] ELSE x[i - m]
  BY <1>1, <1>3, ConcatProperties
<1>5. m = Len(F)
  OBVIOUS
<1> HIDE DEF p, m
<1>6. \A i \in 1 .. m : p[i] = PreferredSeparator(style) /\ IsSeparator(p[i]) /\ p[i] = F[i]
  BY <1>1, <1>3, <1>4, Separators
<1>7. \A i \in m + 1 .. Len(p) : ~IsSeparator(p[i])
  <2> SUFFICES ASSUME NEW i \in m + 1 .. Len(p)
               PROVE  ~IsSeparator(p[i])
    OBVIOUS
  <2>1. i \in 1 .. m + Len(x) /\ ~(i <= m) /\ i - m \in 1 .. Len(x)
    BY <1>1, <1>3, <1>4
  <2> QED
    BY <1>2, <1>4, <2>1
<1>8. Len(p) \in Nat /\ Len(p) >= m + 1 /\ p # <<>> /\ m \in 0 .. Len(p)
  <2>1. Len(p) \in Nat /\ Len(p) >= m + 1 /\ m \in 0 .. Len(p)
    BY <1>1, <1>3, <1>4
  <2>2. p # <<>>
    BY <1>3, <2>1
  <2> QED
    BY <2>1, <2>2
<1>9. ~IsRoot(p, style)
  BY <1>3, <1>4, <1>7, <1>8, NameIsNoRoot
<1>10. LastSeparator(p) = m
  BY <1>3, <1>4, <1>6, <1>7, <1>8, LastSeparatorIs
<1>11. /\ m # 2 => ~IsShareRoot(p, style)
       /\ m = 2 => style = "windows" /\ Len(p) >= 2 /\ IsSeparator(p[1]) /\ IsSeparator(p[2])
  <2>1. /\ Len(p) > Len(F) /\ ~IsSeparator(p[Len(F) + 1])
        /\ \A i \in 1 .. Len(F) : p[i] = PreferredSeparator(style)
    BY <1>3, <1>5, <1>6, <1>7, <1>8
  <2> QED
    BY <1>4, <1>5, <2>1, SharesBegin
<1>12. CASE m = 0
  <2>1. UpToSeparator(p, style) = <<>>
    BY <1>10, <1>12 DEF UpToSeparator
  <2> QED
    BY <1>5, <1>12, <2>1 DEF GetParentDirectory, p
<1>13. CASE m = 1
  <2>1. UpToSeparator(p, style) = SubSeq(p, 1, 1)
    BY <1>8, <1>10, <1>13 DEF UpToSeparator
  <2>2. SubSeq(p, 1, 1) = F
    <3>1. SubSeq(p, 1, 1) \in Seq(Alphabet) /\ Len(SubSeq(p, 1, 1)) = 1 /\ SubSeq(p, 1, 1)[1] = p[1]
      BY <1>4, <1>8, <1>13, StartOfText
    <3> DEFINE q == SubSeq(p, 1, 1)
    <3> HIDE DEF q
    <3>2. q \in Seq(Alphabet) /\ Len(q) = Len(F) /\ \A i \in 1 .. Len(q) : q[i] = F[i]
      BY <1>5, <1>6, <1>13, <3>1 DEF q
    <3>3. q = F
      BY <1>3, <3>2, SeqEqual
    <3> QED
      BY <3>3 DEF q
  <2>3. ~HasNoParent(p, style)
    BY <1>9, <1>11, <1>13 DEF HasNoParent
  <2> QED
    BY <1>5, <1>13, <2>1, <2>2, <2>3 DEF GetParentDirectory, p
<1>14. CASE m = 2
  <2>1. SeparatorAfter(p, 3) = 0
    BY <1>7, <1>14, NoSeparatorAfter
  <2>2. IsShareRoot(p, style)
    BY <1>11, <1>14, <2>1 DEF IsShareRoot
  <2> QED
    BY <1>5, <1>14, <2>2 DEF GetParentDirectory, HasNoParent, p
<1> QED
  BY <1>3, <1>12, <1>13, <1>14

\* What is up to the separator in front of the last name, without it and with it.
LEMMA BelowStart ==
  ASSUME NEW u \in Seq(Alphabet), NEW x \in NameSet, NEW style
  PROVE  LET p == Below(u, x, style)
         IN SubSeq(p, 1, Len(u)) = u /\ SubSeq(p, 1, Len(u) + 1) = Append(u, PreferredSeparator(style))
<1> DEFINE sep == PreferredSeparator(style)
           p == Below(u, x, style)
           m == Len(u)
           q == SubSeq(p, 1, m)
           r == SubSeq(p, 1, m + 1)
           w == Append(u, sep)
<1>1. /\ p \in Seq(Alphabet) /\ m \in Nat /\ Len(p) \in Nat /\ Len(p) >= m + 2
      /\ \A i \in 1 .. m : p[i] = u[i]
      /\ p[m + 1] = sep
  BY BelowShape
<1>2. w \in Seq(Alphabet) /\ Len(w) = m + 1 /\ w[m + 1] = sep /\ \A i \in 1 .. m : w[i] = u[i]
  BY Separators, AppendProperties
<1> HIDE DEF p, w
<1>3. m \in 0 .. Len(p) /\ m + 1 \in 0 .. Len(p)
  BY <1>1
<1>4. q \in Seq(Alphabet) /\ Len(q) = m /\ \A i \in 1 .. m : q[i] = p[i]
  BY <1>1, <1>3, StartOfText
<1>5. r \in Seq(Alphabet) /\ Len(r) = m + 1 /\ \A i \in 1 .. m + 1 : r[i] = p[i]
  BY <1>1, <1>3, StartOfText
<1> HIDE DEF q, r
<1>6. \A i \in 1 .. Len(q) : q[i] = u[i]
  BY <1>1, <1>4
<1>7. q = u
  BY <1>4, <1>6, SeqEqual
<1> HIDE DEF m
<1>8. \A i \in 1 .. m + 1 : r[i] = w[i]
  <2> SUFFICES ASSUME NEW i \in 1 .. m + 1
               PROVE  r[i] = w[i]
    OBVIOUS
  <2>1. i \in 1 .. m \/ i = m + 1
    BY <1>1
  <2> QED
    BY <1>1, <1>2, <1>5, <2>1
<1>9. r = w
  BY <1>2, <1>5, <1>8, SeqEqual
<1> QED
  BY <1>7, <1>9 DEF p, q, r, w, m

\* A directory of a share itself has the share for a root, and one further down has not.
LEMMA ShareBelow ==
  ASSUME NEW F, NEW style, IsFront(F, style), Len(F) = 2, NEW f \in Seq(NameSet), f # <<>>, NEW x \in NameSet
  PROVE  IsShareRoot(Below(Text(F, f, style), x, style), style) <=> Len(f) = 1
<1> DEFINE u == Text(F, f, style)
           p == Below(u, x, style)
           m == Len(u)
<1>1. u \in Seq(Alphabet) /\ m \in Nat /\ m > 2 /\ ~IsSeparator(u[3]) /\ \A i \in 1 .. 2 : IsSeparator(u[i])
  <2>1. /\ u \in Seq(Alphabet) /\ m \in Nat /\ m > Len(F)
        /\ \A i \in 1 .. Len(F) : u[i] = PreferredSeparator(style)
        /\ ~IsSeparator(u[Len(F) + 1])
    BY TextShape
  <2> HIDE DEF u, m
  <2> QED
    BY <2>1, Separators
<1>2. style = "windows"
  BY FrontLength
<1> HIDE DEF u
<1>3. /\ p \in Seq(Alphabet) /\ Len(p) \in Nat /\ Len(p) >= m + 2
      /\ \A i \in 1 .. m : p[i] = u[i]
      /\ IsSeparator(p[m + 1])
      /\ \A i \in m + 2 .. Len(p) : ~IsSeparator(p[i])
  BY <1>1, BelowShape
<1> HIDE DEF p, m
<1>4. Len(p) >= 2 /\ IsSeparator(p[1]) /\ IsSeparator(p[2])
  BY <1>1, <1>3
<1>5. ASSUME Len(f) = 1
      PROVE  IsShareRoot(p, style)
  <2>1. u = F \o f[1] /\ f[1] \in NameSet
    BY <1>5, Separators, JoinedLength DEF u, Text
  <2>2. \A i \in 3 .. m : ~IsSeparator(u[i])
    <3> DEFINE y == f[1]
    <3>1. y \in Seq(NameChars) /\ y \in Seq(Alphabet) /\ Len(y) \in Nat
      BY <2>1, NameSetType DEF NameSet
    <3>2. \A i \in 1 .. Len(y) : ~IsSeparator(y[i])
      BY <3>1 DEF NameChars
    <3>3. u = F \o y /\ F \in Seq(Alphabet)
      BY <2>1, FrontLength
    <3> HIDE DEF y
    <3>4. /\ m = 2 + Len(y)
          /\ \A i \in 1 .. 2 + Len(y) : u[i] = IF i <= 2 THEN F[i] ELSE y[i - 2]
      <4> DEFINE k == Len(F)
      <4>1. /\ Len(F \o y) = k + Len(y)
            /\ \A i \in 1 .. k + Len(y) : (F \o y)[i] = IF i <= k THEN F[i] ELSE y[i - k]
        BY <3>1, <3>3, ConcatProperties
      <4>2. k = 2
        OBVIOUS
      <4> HIDE DEF k
      <4> QED
        BY <3>3, <4>1, <4>2 DEF m
    <3> SUFFICES ASSUME NEW i \in 3 .. m
                 PROVE  ~IsSeparator(u[i])
      OBVIOUS
    <3>5. i \in 1 .. 2 + Len(y) /\ ~(i <= 2) /\ i - 2 \in 1 .. Len(y)
      BY <3>1, <3>4
    <3> QED
      BY <3>2, <3>4, <3>5
  <2>3. SeparatorAfter(p, 3) = m + 1
    <3>1. \A i \in 3 .. (m + 1) - 1 : ~IsSeparator(p[i])
      BY <1>1, <1>3, <2>2
    <3>2. m + 1 \in 3 .. Len(p) /\ 3 \in Nat
      BY <1>1, <1>3
    <3> QED
      BY <1>3, <3>1, <3>2, SeparatorAfterIs
  <2>4. SeparatorAfter(p, (m + 1) + 1) = 0
    <3>1. \A i \in (m + 1) + 1 .. Len(p) : ~IsSeparator(p[i])
      BY <1>1, <1>3
    <3> QED
      BY <3>1, NoSeparatorAfter
  <2> QED
    BY <1>2, <1>4, <2>3, <2>4 DEF IsShareRoot
<1>6. ASSUME Len(f) # 1
      PROVE  ~IsShareRoot(p, style)
  <2>1. PICK g \in Seq(NameSet), y \in NameSet : f = Append(g, y)
    BY SequenceEmptyOrAppend
  <2>2. g # <<>>
    <3>1. Len(f) = Len(g) + 1
      BY <2>1, AppendProperties
    <3> QED
      BY <1>6, <3>1
  <2> DEFINE v == Text(F, g, style)
             l == Len(v) + 1
  <2>3. v \in Seq(Alphabet) /\ Len(v) \in Nat /\ Len(v) > 2
    BY <2>2, TextShape
  <2>4. u = Below(v, y, style)
    BY <2>1, <2>2, TextBelow DEF u
  <2>5. l \in 3 .. m /\ IsSeparator(u[l])
    <3>1. Len(u) >= Len(v) + 2 /\ IsSeparator(u[Len(v) + 1])
      BY <2>3, <2>4, BelowShape
    <3> HIDE DEF v
    <3> QED
      BY <1>1, <2>3, <3>1 DEF m
  <2> HIDE DEF l
  <2>6. l \in 3 .. m + 1 /\ IsSeparator(p[l]) /\ l # m + 1
    BY <1>1, <1>3, <2>5
  <2>7. ASSUME NEW from \in 3 .. m + 1
        PROVE  /\ SeparatorAfter(p, from) \in from .. m + 1
               /\ from <= l => SeparatorAfter(p, from) <= l
    <3> DEFINE found == {i \in from .. Len(p) : IsSeparator(p[i])}
               first == CHOOSE i \in found : \A j \in found : i <= j
    <3>1. found \in SUBSET Nat /\ m + 1 \in found
      BY <1>1, <1>3
    <3>2. \E i \in found : \A j \in found : i <= j
      BY <3>1, HasFirst
    <3>3. first \in found /\ \A j \in found : first <= j
      BY <3>2
    <3>4. SeparatorAfter(p, from) = first
      BY <3>1 DEF SeparatorAfter
    <3>5. from <= l => l \in found
      BY <1>1, <1>3, <2>6
    <3>6. first \in from .. Len(p)
      BY <3>3
    <3> HIDE DEF first
    <3>7. first \in from .. m + 1
      BY <1>1, <1>3, <3>1, <3>3, <3>6
    <3> QED
      BY <3>3, <3>4, <3>5, <3>7
  <2> DEFINE serverEnd == SeparatorAfter(p, 3)
             shareEnd == SeparatorAfter(p, serverEnd + 1)
  <2>8. serverEnd \in 3 .. m + 1 /\ serverEnd <= l
    BY <1>1, <2>6, <2>7
  <2>9. serverEnd + 1 \in 3 .. m + 1
    BY <1>1, <2>6, <2>8
  <2>10. shareEnd \in 3 .. m + 1
    <3> HIDE DEF serverEnd
    <3>1. shareEnd \in serverEnd + 1 .. m + 1
      BY <2>7, <2>9
    <3> HIDE DEF shareEnd
    <3> QED
      BY <1>1, <2>8, <3>1
  <2> HIDE DEF serverEnd, shareEnd
  <2>11. serverEnd # 0 /\ shareEnd # 0 /\ shareEnd # Len(p)
    BY <1>1, <1>3, <2>8, <2>10
  <2> QED
    BY <2>11 DEF IsShareRoot, serverEnd, shareEnd
<1> QED
  BY <1>5, <1>6 DEF p, u

\* Two characters that are a drive are one name, with nothing in front of it.
LEMMA DriveText ==
  ASSUME NEW F, NEW style, IsFront(F, style), NEW f \in Seq(NameSet), f # <<>>, style = "windows"
  PROVE  LET u == Text(F, f, style)
         IN Len(u) = 2 /\ IsAsciiAlpha(u[1]) /\ u[2] = ":"
              <=> F = <<>> /\ Len(f) = 1 /\ IsDrive(f[1], style)
<1> DEFINE sep == PreferredSeparator(style)
           u == Text(F, f, style)
           j == Joined(f, sep)
<1>1. F = <<>> => u = j
  <2>1. j \in Seq(Alphabet)
    BY Separators, JoinedType
  <2> HIDE DEF j
  <2> QED
    BY <2>1 DEF Text, j
<1>2. Len(f) = 1 => j = f[1]
  BY Separators, JoinedLength
<1>3. ASSUME Len(u) = 2, IsAsciiAlpha(u[1]), u[2] = ":"
      PROVE  F = <<>> /\ Len(f) = 1 /\ IsDrive(f[1], style)
  <2>1. F = <<>>
    <3>1. \A i \in 1 .. Len(F) : u[i] = sep
      BY TextShape
    <3>2. u[1] # sep
      BY <1>3, Separators DEF IsAsciiAlpha
    <3>3. F \in Seq(Alphabet) /\ Len(F) \in Nat
      BY FrontLength
    <3>4. ~(Len(F) >= 1)
      BY <3>1, <3>2, <3>3
    <3> QED
      BY <3>3, <3>4
  <2>2. u = j
    BY <1>1, <2>1
  <2>3. Len(f) = 1
    <3>1. Len(f) >= 2 => Len(j) >= 3
      BY Separators, JoinedLength
    <3>2. Len(j) = 2
      BY <1>3, <2>2
    <3> HIDE DEF j, u
    <3>3. Len(f) \in Nat /\ Len(f) # 0
      OBVIOUS
    <3> DEFINE k == Len(f)
    <3>4. k \in Nat /\ k # 0 /\ ~(k >= 2)
      BY <3>1, <3>2, <3>3
    <3> HIDE DEF k
    <3>5. k = 1
      BY <3>4
    <3> QED
      BY <3>5 DEF k
  <2>4. u = f[1]
    BY <1>2, <2>2, <2>3
  <2> QED
    BY <1>3, <2>1, <2>3, <2>4 DEF IsDrive, IsAsciiAlpha
<1>4. ASSUME F = <<>>, Len(f) = 1, IsDrive(f[1], style)
      PROVE  Len(u) = 2 /\ IsAsciiAlpha(u[1]) /\ u[2] = ":"
  <2>1. u = f[1]
    BY <1>1, <1>2, <1>4
  <2> QED
    BY <1>4, <2>1 DEF IsDrive, IsAsciiAlpha
<1> QED
  BY <1>3, <1>4

\* The parent of a directory further down is the directory above it, unless that is a share.
LEMMA ParentOfFollowing ==
  ASSUME NEW F, NEW style, IsFront(F, style), NEW f \in Seq(NameSet), f # <<>>, NEW x \in NameSet
  PROVE  GetParentDirectory(Below(Text(F, f, style), x, style), style) =
           IF Len(F) = 2 /\ Len(f) = 1 THEN <<>> ELSE Spelling(F, f, TRUE, style)
<1> DEFINE sep == PreferredSeparator(style)
           u == Text(F, f, style)
           p == Below(u, x, style)
           m == Len(u)
           pos == LastSeparator(p)
<1>1. /\ u \in Seq(Alphabet) /\ m \in Nat /\ m > Len(F) /\ Len(F) \in Nat
      /\ \A i \in 1 .. Len(F) : u[i] = sep
      /\ ~IsSeparator(u[Len(F) + 1])
  BY TextShape
<1>2. SubSeq(p, 1, m) = u /\ SubSeq(p, 1, m + 1) = Append(u, sep)
  BY <1>1, BelowStart
<1>3. Len(u) = 2 /\ style = "windows" /\ IsAsciiAlpha(u[1]) /\ u[2] = ":"
        <=> F = <<>> /\ Len(f) = 1 /\ style = "windows" /\ IsDrive(f[1], style)
  BY DriveText
<1>4. Spelling(F, f, TRUE, style) =
        IF F = <<>> /\ Len(f) = 1 /\ IsDrive(f[1], style) THEN Append(u, sep) ELSE u
  <2> DEFINE t == <<sep>>
  <2>1. u \o <<>> = u
    BY <1>1, ConcatEmptySeq
  <2>2. u \o t = Append(u, sep)
    BY <1>1, Separators, AppendIsConcat
  <2>3. Spelling(F, f, TRUE, style) =
          u \o (IF F = <<>> /\ Len(f) = 1 /\ IsDrive(f[1], style) THEN t ELSE <<>>)
    BY DEF Spelling, Text
  <2> HIDE DEF t, u
  <2> QED
    BY <2>1, <2>2, <2>3
<1> HIDE DEF u
<1>5. /\ p \in Seq(Alphabet) /\ Len(p) \in Nat /\ Len(p) >= m + 2
      /\ \A i \in 1 .. m : p[i] = u[i]
      /\ IsSeparator(p[m + 1])
      /\ \A i \in m + 2 .. Len(p) : ~IsSeparator(p[i])
  BY <1>1, BelowShape
<1> HIDE DEF p, m
<1>6. pos = m + 1 /\ pos # 0 /\ pos # 1
  <2>1. m + 1 \in 0 .. Len(p) /\ \A i \in (m + 1) + 1 .. Len(p) : ~IsSeparator(p[i])
    BY <1>1, <1>5
  <2>2. pos = m + 1
    BY <1>5, <2>1, LastSeparatorIs
  <2> QED
    BY <1>1, <2>2
<1>7. ~IsRoot(p, style)
  <2>1. p # <<>> /\ ~IsSeparator(p[Len(p)])
    <3>1. Len(p) \in m + 2 .. Len(p) /\ Len(p) # 0
      BY <1>1, <1>5
    <3> QED
      BY <1>5, <3>1
  <2> QED
    BY <1>5, <2>1, NameIsNoRoot
<1>8. IsShareRoot(p, style) <=> Len(F) = 2 /\ Len(f) = 1
  <2>1. Len(F) = 2 => (IsShareRoot(p, style) <=> Len(f) = 1)
    BY ShareBelow DEF p, u
  <2>2. Len(F) # 2 => ~IsShareRoot(p, style)
    <3>1. \A i \in 1 .. Len(F) : p[i] = sep
      BY <1>1, <1>5
    <3>2. Len(p) > Len(F) /\ ~IsSeparator(p[Len(F) + 1])
      BY <1>1, <1>5
    <3> QED
      BY <1>5, <3>1, <3>2, SharesBegin
  <2> QED
    BY <2>1, <2>2
<1>9. UpToSeparator(p, style) = Spelling(F, f, TRUE, style)
  <2>1. UpToSeparator(p, style) =
          IF style = "windows" /\ pos = 3 /\ IsAsciiAlpha(p[1]) /\ p[2] = ":" THEN SubSeq(p, 1, 3)
          ELSE SubSeq(p, 1, pos - 1)
    <3> HIDE DEF pos
    <3> QED
      BY <1>6 DEF UpToSeparator, pos
  <2>2. pos - 1 = m /\ (pos = 3 <=> m = 2) /\ (pos = 3 => 3 = m + 1)
    BY <1>1, <1>6
  <2>3. m = 2 => p[1] = u[1] /\ p[2] = u[2]
    BY <1>5
  <2>4. SubSeq(p, 1, pos - 1) = u /\ (pos = 3 => SubSeq(p, 1, 3) = Append(u, sep))
    BY <1>2, <2>2 DEF p, m
  <2>5. IsDrive(f[1], style) => style = "windows"
    BY DEF IsDrive
  <2>6. m = 2 /\ style = "windows" /\ IsAsciiAlpha(u[1]) /\ u[2] = ":"
          <=> F = <<>> /\ Len(f) = 1 /\ IsDrive(f[1], style)
    BY <1>3, <2>5 DEF m
  <2> HIDE DEF pos
  <2>7. CASE m = 2 /\ style = "windows" /\ IsAsciiAlpha(u[1]) /\ u[2] = ":"
    BY <1>4, <2>1, <2>2, <2>3, <2>4, <2>6, <2>7
  <2>8. CASE ~(m = 2 /\ style = "windows" /\ IsAsciiAlpha(u[1]) /\ u[2] = ":")
    <3>1. ~(style = "windows" /\ pos = 3 /\ IsAsciiAlpha(p[1]) /\ p[2] = ":")
      BY <2>2, <2>3, <2>8
    <3> QED
      BY <1>4, <2>1, <2>4, <2>6, <2>8, <3>1
  <2> QED
    BY <2>7, <2>8
<1>10. GetParentDirectory(p, style) = IF Len(F) = 2 /\ Len(f) = 1 THEN <<>> ELSE Spelling(F, f, TRUE, style)
  BY <1>7, <1>8, <1>9 DEF GetParentDirectory, HasNoParent
<1> QED
  BY <1>10 DEF p, u

\* Two characters and one more.
LEMMA ThirdCharacter ==
  ASSUME NEW S, NEW v \in Seq(S), NEW c \in S
  PROVE  Len(v) = 2 => /\ Len(Append(v, c)) = 3 /\ Append(v, c)[3] = c
                       /\ Append(v, c)[1] = v[1] /\ Append(v, c)[2] = v[2]
<1> DEFINE r == Append(v, c)
           m == Len(v)
<1>1. Len(r) = m + 1 /\ r[m + 1] = c /\ \A i \in 1 .. m : r[i] = v[i]
  BY AppendProperties
<1> HIDE DEF r, m
<1>2. m = 2 => Len(r) = 3 /\ r[1] = v[1] /\ r[2] = v[2] /\ r[3] = c
  BY <1>1
<1> QED
  BY <1>2 DEF r, m

\* A separator alone, and a drive with a separator behind it, are roots.
LEMMA RootsHaveNoParent ==
  ASSUME NEW style
  PROVE  LET sep == PreferredSeparator(style)
         IN /\ GetParentDirectory(<<sep>>, style) = <<>>
            /\ \A x \in NameSet : IsDrive(x, style) => GetParentDirectory(Append(x, sep), style) = <<>>
<1> DEFINE sep == PreferredSeparator(style)
           t == <<sep>>
<1>1. t \in Seq(Alphabet) /\ Len(t) = 1 /\ t[1] = sep /\ IsSeparator(sep)
  BY Separators
<1>2. style = "posix" => IsRoot(t, style)
  BY DEF IsRoot, PreferredSeparator
<1> HIDE DEF t
<1>3. LastSeparator(t) = 1
  <2>1. 1 \in 0 .. Len(t) /\ IsSeparator(t[1]) /\ \A i \in 1 + 1 .. Len(t) : ~IsSeparator(t[i])
    BY <1>1
  <2> QED
    BY <1>1, <2>1, LastSeparatorIs
<1>4. UpToSeparator(t, style) = <<>>
  BY <1>1, <1>3 DEF UpToSeparator
<1>5. ASSUME NEW x \in NameSet, IsDrive(x, style)
      PROVE  GetParentDirectory(Append(x, sep), style) = <<>>
  <2> DEFINE r == Append(x, sep)
  <2>1. x \in Seq(Alphabet) /\ Len(x) = 2 /\ x[1] \in Letters /\ x[2] = ":" /\ style = "windows"
    BY <1>5, NameSetType DEF IsDrive
  <2>2. Len(r) = 3 /\ r[1] = x[1] /\ r[2] = x[2] /\ r[3] = sep
    <3>1. sep \in Alphabet
      BY Separators
    <3>2. x \in Seq(Alphabet)
      BY <2>1
    <3> HIDE DEF sep
    <3>3. Len(x) = 2 => /\ Len(Append(x, sep)) = 3 /\ Append(x, sep)[3] = sep
                        /\ Append(x, sep)[1] = x[1] /\ Append(x, sep)[2] = x[2]
      BY <3>1, <3>2, ThirdCharacter, ZenonT(60)
    <3> QED
      BY <2>1, <3>3, Zenon
  <2>3. IsRoot(r, style)
    BY <2>1, <2>2 DEF IsRoot, IsWindowsDriveRoot, IsAsciiAlpha, PreferredSeparator
  <2> QED
    BY <2>3 DEF GetParentDirectory, HasNoParent, r
<1> QED
  BY <1>4, <1>5 DEF GetParentDirectory, t

-----------------------------------------------------------------------------
(* The climb of DirCreateImpl. *)

\* The directory of the first n names of a caller's path.
DirectoryAt(s, n, style) ==
    Spelling(InFront(s, style), SubSeq(Names(s), 1, n),
             n < Len(Names(s)) \/ EndsInSeparator(s), style)

\* The marker file of a directory.
MarkOf(d, style) == JoinPath(d, <<Marker>>, style)

\* What is in front of a caller's path, and its names.
LEMMA PartsOfPath ==
  ASSUME NEW s \in Seq(Alphabet), NEW style
  PROVE  /\ IsFront(InFront(s, style), style) /\ Names(s) \in Seq(NameSet)
         /\ Len(InFront(s, style)) = 1 => InFront(s, style) = <<PreferredSeparator(style)>>
         /\ Len(InFront(s, style)) = 2 => Names(s) # <<>>
<1> DEFINE sep == PreferredSeparator(style)
           t == <<sep>>
           w == <<sep, sep>>
           F == InFront(s, style)
<1>1. Names(s) \in Seq(NameSet)
  <2>1. Len(s) \in 0 .. Len(s)
    OBVIOUS
  <2> QED
    BY <2>1, NamesSteps DEF Names
<1>2. /\ t \in Seq(Alphabet) /\ Len(t) = 1 /\ t[1] = sep
      /\ w \in Seq(Alphabet) /\ Len(w) = 2 /\ w[1] = sep /\ w[2] = sep
  BY Separators
<1>3. F = <<>> \/ F = t \/ (F = w /\ style = "windows" /\ Names(s) # <<>>)
  <2>1. CASE s = <<>> \/ ~IsSeparator(s[1])
    <3>1. F = <<>>
      BY <2>1 DEF InFront
    <3> HIDE DEF F, t, w
    <3> QED
      BY <3>1
  <2>2. CASE ~(s = <<>> \/ ~IsSeparator(s[1]))
    <3>1. CASE style = "windows" /\ Len(s) >= 2 /\ IsSeparator(s[2]) /\ Names(s) # <<>>
      <4>1. F = w
        BY <2>2, <3>1 DEF InFront
      <4> HIDE DEF F, t, w
      <4> QED
        BY <3>1, <4>1
    <3>2. CASE ~(style = "windows" /\ Len(s) >= 2 /\ IsSeparator(s[2]) /\ Names(s) # <<>>)
      <4>1. F = t
        BY <2>2, <3>2 DEF InFront
      <4> HIDE DEF F, t, w
      <4> QED
        BY <4>1
    <3> QED
      BY <3>1, <3>2
  <2> QED
    BY <2>1, <2>2
<1> HIDE DEF t, w, F
<1>4. CASE F = <<>>
  BY <1>1, <1>4 DEF IsFront, F
<1>5. CASE F = t
  <2>1. IsFront(F, style)
    BY <1>2, <1>5, SMTT(30) DEF IsFront
  <2> QED
    BY <1>1, <1>2, <1>5, <2>1 DEF F, t
<1>6. CASE F = w /\ style = "windows" /\ Names(s) # <<>>
  <2>2. Len(F) = 2 /\ F \in Seq(Alphabet) /\ F[1] = sep /\ F[2] = sep
    BY <1>2, <1>6
  <2>3. \A i \in 1 .. Len(F) : F[i] = PreferredSeparator(style)
    <3>1. \A i \in 1 .. Len(F) : i = 1 \/ i = 2
      BY <2>2
    <3> QED
      BY <2>2, <3>1
  <2>1. IsFront(F, style)
    BY <1>6, <2>2, <2>3 DEF IsFront
  <2> QED
    BY <1>1, <1>6, <2>1, <2>2 DEF F
<1> QED
  BY <1>3, <1>4, <1>5, <1>6

\* The first names, one by one.
LEMMA FirstNames ==
  ASSUME NEW ns \in Seq(NameSet), NEW n \in 1 .. Len(ns)
  PROVE  /\ ns[n] \in NameSet /\ SubSeq(ns, 1, n - 1) \in Seq(NameSet) /\ Len(SubSeq(ns, 1, n - 1)) = n - 1
         /\ SubSeq(ns, 1, n) = Append(SubSeq(ns, 1, n - 1), ns[n])
         /\ Len(SubSeq(ns, 1, n)) = n
         /\ SubSeq(ns, 1, n - 1) = <<>> <=> n = 1
<1> DEFINE f == SubSeq(ns, 1, n)
           g == SubSeq(ns, 1, n - 1)
           a == Append(g, ns[n])
<1>1. n \in Nat /\ n >= 1 /\ n <= Len(ns) /\ n - 1 \in Nat /\ Len(ns) \in Nat /\ ns[n] \in NameSet
  OBVIOUS
<1>2. f \in Seq(NameSet) /\ Len(f) = n /\ \A i \in 1 .. n : f[i] = ns[i]
  OBVIOUS
<1>3. g \in Seq(NameSet) /\ Len(g) = n - 1 /\ \A i \in 1 .. n - 1 : g[i] = ns[i]
  OBVIOUS
<1> HIDE DEF f, g
<1>4. /\ a \in Seq(NameSet) /\ Len(a) = Len(g) + 1 /\ a[Len(g) + 1] = ns[n]
      /\ \A i \in 1 .. Len(g) : a[i] = g[i]
  BY <1>1, <1>3, AppendProperties
<1> HIDE DEF a
<1>5. \A i \in 1 .. n : f[i] = a[i]
  <2> SUFFICES ASSUME NEW i \in 1 .. n
               PROVE  f[i] = a[i]
    OBVIOUS
  <2>1. i \in 1 .. n - 1 \/ i = n
    BY <1>1
  <2>2. Len(g) + 1 = n
    BY <1>1, <1>3
  <2> QED
    BY <1>2, <1>3, <1>4, <2>1, <2>2
<1>6. f = a
  <2>1. Len(a) = n
    BY <1>1, <1>3, <1>4
  <2> QED
    BY <1>2, <1>4, <1>5, <2>1, SeqEqual
<1>7. g = <<>> <=> n = 1
  BY <1>1, <1>3
<1> QED
  BY <1>1, <1>2, <1>3, <1>6, <1>7 DEF f, g, a

\* Above a directory that DirCreate makes is the next one, up to the outermost.
LEMMA ParentOfDirectory ==
  ASSUME NEW s \in Seq(Alphabet), NEW style, NEW n \in Outermost(s, style) .. Len(Names(s))
  PROVE  GetParentDirectory(DirectoryAt(s, n, style), style) =
           IF n > Outermost(s, style) THEN DirectoryAt(s, n - 1, style)
           ELSE IF Len(InFront(s, style)) = 1 THEN InFront(s, style) ELSE <<>>
<1> DEFINE sep == PreferredSeparator(style)
           F == InFront(s, style)
           ns == Names(s)
           N == Len(ns)
           root == n < N \/ EndsInSeparator(s)
           f == SubSeq(ns, 1, n)
           g == SubSeq(ns, 1, n - 1)
           x == ns[n]
           out == Outermost(s, style)
<1>1. IsFront(F, style) /\ ns \in Seq(NameSet) /\ N \in Nat
  BY PartsOfPath
<1>2. out = IF Len(F) = 2 /\ N >= 2 THEN 2 ELSE 1
  BY DEF Outermost, InShare
<1>3. DirectoryAt(s, n, style) = Spelling(F, f, root, style)
  BY DEF DirectoryAt
<1>4. n - 1 < N /\ n \in 1 .. N /\ n \in Nat /\ n >= out
  BY <1>1, <1>2
<1>5. DirectoryAt(s, n - 1, style) = Spelling(F, g, TRUE, style)
  BY <1>4 DEF DirectoryAt
<1> HIDE DEF F, ns, out
<1>6. x \in NameSet /\ g \in Seq(NameSet) /\ Len(g) = n - 1 /\ f = Append(g, x) /\ Len(f) = n /\ (g = <<>> <=> n = 1)
  BY <1>1, <1>4, FirstNames
<1> HIDE DEF N, root, f, g, x
<1>7. Text(F, f, style) = IF g = <<>> THEN F \o x ELSE Below(Text(F, g, style), x, style)
  BY <1>1, <1>6, TextBelow
<1>8. Spelling(F, f, root, style) =
        Text(F, f, style) \o (IF root /\ F = <<>> /\ Len(f) = 1 /\ IsDrive(f[1], style) THEN <<sep>> ELSE <<>>)
  BY DEF Spelling, Text
<1>9. F \in Seq(Alphabet) /\ Text(F, f, style) \in Seq(Alphabet)
  <2>1. f \in Seq(NameSet) /\ f # <<>>
    BY <1>6
  <2> QED
    BY <1>1, <2>1, FrontLength, TextShape
<1>10. CASE root /\ F = <<>> /\ Len(f) = 1 /\ IsDrive(f[1], style)
  <2>1. n = 1 /\ g = <<>> /\ f[1] = x
    <3>1. n = 1 /\ g = <<>>
      BY <1>6, <1>10
    <3> QED
      BY <1>6, <3>1
  <2>2. Text(F, f, style) = x
    <3>1. x \in Seq(Alphabet)
      BY <1>6, NameSetType
    <3>2. F \o x = x
      BY <1>10, <3>1, ConcatEmptySeq
    <3> QED
      BY <1>7, <2>1, <3>2
  <2>3. Spelling(F, f, root, style) = Append(x, sep)
    <3>1. x \o <<sep>> = Append(x, sep)
      BY <1>6, NameSetType, Separators, AppendIsConcat
    <3> QED
      BY <1>8, <1>10, <2>2, <3>1
  <2>4. GetParentDirectory(Append(x, sep), style) = <<>>
    BY <1>6, <1>10, <2>1, RootsHaveNoParent
  <2>5. Len(F) = 0 /\ ~(n > out)
    BY <1>2, <1>10, <2>1
  <2> QED
    BY <1>3, <2>3, <2>4, <2>5 DEF F, out
<1>11. CASE ~(root /\ F = <<>> /\ Len(f) = 1 /\ IsDrive(f[1], style))
  <2>1. Spelling(F, f, root, style) = Text(F, f, style)
    <3>1. Text(F, f, style) \o <<>> = Text(F, f, style)
      BY <1>9, ConcatEmptySeq
    <3> QED
      BY <1>8, <1>11, <3>1
  <2>2. CASE n = 1
    <3>1. GetParentDirectory(F \o x, style) = IF Len(F) = 1 THEN F ELSE <<>>
      BY <1>1, <1>6, ParentOfFirst
    <3>2. ~(n > out)
      BY <1>2, <2>2
    <3> QED
      BY <1>3, <1>6, <1>7, <2>1, <2>2, <3>1, <3>2 DEF F, out
  <2>3. CASE n # 1
    <3>1. GetParentDirectory(Below(Text(F, g, style), x, style), style) =
            IF Len(F) = 2 /\ Len(g) = 1 THEN <<>> ELSE Spelling(F, g, TRUE, style)
      BY <1>1, <1>6, <2>3, ParentOfFollowing
    <3>2. IF Len(F) = 2 /\ Len(g) = 1 THEN ~(n > out) /\ Len(F) # 1 ELSE n > out
      <4> DEFINE a == Len(F)
                 b == Len(g)
      <4>1. out = IF a = 2 /\ N >= 2 THEN 2 ELSE 1
        BY <1>2
      <4>2. b = n - 1 /\ n \in Nat /\ n >= 1 /\ n <= N /\ N \in Nat /\ n # 1
        BY <1>1, <1>4, <1>6, <2>3
      <4> HIDE DEF a, b
      <4>3. IF a = 2 /\ b = 1 THEN ~(n > out) /\ a # 1 ELSE n > out
        BY <4>1, <4>2
      <4> QED
        BY <4>3 DEF a, b
    <3> QED
      BY <1>3, <1>5, <1>6, <1>7, <2>1, <2>3, <3>1, <3>2 DEF F, out
  <2> QED
    BY <2>2, <2>3
<1> QED
  BY <1>10, <1>11

\* A directory has a name.
LEMMA DirectoryIsSomething ==
  ASSUME NEW s \in Seq(Alphabet), NEW style, NEW n \in 1 .. Len(Names(s))
  PROVE  DirectoryAt(s, n, style) # <<>>
<1> DEFINE F == InFront(s, style)
           f == SubSeq(Names(s), 1, n)
           u == Text(F, f, style)
           t == <<PreferredSeparator(style)>>
<1>1. IsFront(F, style) /\ f \in Seq(NameSet) /\ f # <<>>
  <2>1. IsFront(F, style) /\ Names(s) \in Seq(NameSet)
    BY PartsOfPath
  <2>2. f \in Seq(NameSet) /\ Len(f) = n /\ n >= 1
    BY <2>1
  <2> HIDE DEF f
  <2> QED
    BY <2>1, <2>2
<1>2. u \in Seq(Alphabet) /\ Len(u) >= 1 /\ t \in Seq(Alphabet)
  <2>1. u \in Seq(Alphabet) /\ Len(u) \in Nat /\ Len(F) \in Nat /\ Len(u) > Len(F)
    BY <1>1, TextShape
  <2>2. t \in Seq(Alphabet)
    BY Separators
  <2> HIDE DEF u, F
  <2> QED
    BY <2>1, <2>2
<1>3. DirectoryAt(s, n, style) = u \o t \/ DirectoryAt(s, n, style) = u \o <<>>
  BY DEF DirectoryAt, Spelling, Text
<1> HIDE DEF u, t
<1>4. u \o t # <<>> /\ u \o <<>> # <<>>
  BY <1>2, ConcatEmptySeq, ConcatEqualIffEmpty
<1> QED
  BY <1>3, <1>4

\* The marker file of a directory is an entry of it (MakeDirMarkerPath, JoinPath).
LEMMA MarkerInDirectory ==
  ASSUME NEW p, NEW style, Normal(p, style), p # <<>>
  PROVE  MakeDirMarkerPath(p, style) = MarkOf(p, style)
<1> DEFINE sep == PreferredSeparator(style)
           T == Alphabet \cup {Marker}
           t == <<sep>>
           e == <<Marker>>
           w == <<sep, Marker>>
<1>1. p \in Seq(T) /\ sep \in T /\ Marker \in T
  <2>1. p \in Seq(Alphabet)
    BY DEF Normal, Clean
  <2> QED
    BY <2>1, Separators, SeqMonotonic
<1>2. NormalizePathForStyle(p, style) = p
  BY NormalKept
<1>3. p \o e = Append(p, Marker)
  BY <1>1, AppendIsConcat
<1>4. t \in Seq(T) /\ e \in Seq(T) /\ w = t \o e
  <2>1. w = Append(t, Marker)
    OBVIOUS
  <2> QED
    BY <1>1, <2>1, AppendIsConcat
<1>5. MakeDirMarkerPath(p, style) = IF EndsInSeparator(p) THEN Append(p, Marker) ELSE p \o w
  BY <1>2 DEF MakeDirMarkerPath
<1>6. MarkOf(p, style) = IF EndsInSeparator(p) THEN p \o e ELSE (p \o t) \o e
  BY DEF MarkOf, JoinPath
<1> HIDE DEF t, e, w, T
<1>7. (p \o t) \o e = p \o (t \o e)
  BY <1>1, <1>4, ConcatAssociative, SMTT(60)
<1> QED
  BY <1>3, <1>4, <1>5, <1>6, <1>7

\* The markers of the directories from that of m names down to the caller's.
MarkersFrom(s, m, style) ==
    {MarkOf(DirectoryAt(s, j, style), style) : j \in m .. Len(Names(s))}

\* One more, or none.
LEMMA OneMoreMarker ==
  ASSUME NEW s \in Seq(Alphabet), NEW style
  PROVE  /\ MarkersFrom(s, Len(Names(s)) + 1, style) = {}
         /\ \A n \in 1 .. Len(Names(s)) :
              MarkersFrom(s, n, style) =
                MarkersFrom(s, n + 1, style) \cup {MarkOf(DirectoryAt(s, n, style), style)}
<1> DEFINE N == Len(Names(s))
           M(j) == MarkOf(DirectoryAt(s, j, style), style)
<1>1. N \in Nat
  BY PartsOfPath
<1> HIDE DEF M, N
<1>2. \A m : MarkersFrom(s, m, style) = {M(j) : j \in m .. N}
  BY DEF MarkersFrom, M, N
<1>3. N + 1 .. N = {}
  BY <1>1
<1>4. \A n \in 1 .. N : n .. N = (n + 1 .. N) \cup {n}
  BY <1>1
<1>5. MarkersFrom(s, N + 1, style) = {}
  BY <1>2, <1>3
<1>6. \A n \in 1 .. N : MarkersFrom(s, n, style) = MarkersFrom(s, n + 1, style) \cup {M(n)}
  BY <1>2, <1>4
<1> QED
  BY <1>5, <1>6 DEF M, N

\* The inductive invariant of the climb: it is at one of the caller's directories, or at the root in
\* front of them, and has left a marker in each directory below.
ClimbInv ==
    LET N == Len(Names(raw))
        front == InFront(raw, Style)
        out == Outermost(raw, Style)
    IN /\ PathInv
       /\ phase = "typing" => markers = {}
       /\ phase = "creating" =>
            \/ \E n \in out .. N : path = DirectoryAt(raw, n, Style) /\ markers = MarkersFrom(raw, n + 1, Style)
            \/ Len(front) = 1 /\ path = front /\ markers = MarkersFrom(raw, out, Style)

\* It starts at the caller's directory itself.
LEMMA ClimbStarts ==
  ASSUME NEW s \in Seq(Alphabet), NEW style, NEW p, p = NormalizePathForStyle(s, style), p # <<>>
  PROVE  LET N == Len(Names(s))
             out == Outermost(s, style)
         IN \/ N \in out .. N /\ p = DirectoryAt(s, N, style)
            \/ Len(InFront(s, style)) = 1 /\ p = InFront(s, style) /\ MarkersFrom(s, out, style) = {}
<1> DEFINE ns == Names(s)
           F == InFront(s, style)
           N == Len(ns)
           out == Outermost(s, style)
<1>1. ns \in Seq(NameSet) /\ N \in Nat /\ IsFront(F, style)
  BY PartsOfPath
<1>2. p = Spelling(F, ns, EndsInSeparator(s), style)
  BY NormalizedIsCanonical DEF Canonical
<1>3. out = IF Len(F) = 2 /\ N >= 2 THEN 2 ELSE 1
  BY DEF Outermost, InShare
<1>4. CASE ns = <<>>
  <2>1. p = F
    <3>1. Joined(ns, PreferredSeparator(style)) = <<>>
      BY <1>4, Separators, JoinedEmpty
    <3>2. F \in Seq(Alphabet)
      BY <1>1, FrontLength
    <3>3. ~(F = <<>> /\ Len(ns) = 1)
      BY <1>4
    <3>4. p = F \o <<>> \o <<>>
      BY <1>2, <3>1, <3>3 DEF Spelling
    <3> HIDE DEF F
    <3> QED
      BY <3>2, <3>4, ConcatEmptySeq
  <2>2. Len(F) = 1
    <3>1. Len(F) # 2
      BY <1>4, PartsOfPath
    <3>2. F \in Seq(Alphabet) /\ Len(F) \in {0, 1, 2} /\ F # <<>>
      BY <1>1, <2>1, FrontLength
    <3> HIDE DEF F
    <3> QED
      BY <3>1, <3>2
  <2>3. out = N + 1
    BY <1>3, <1>4, <2>2
  <2> QED
    BY <2>1, <2>2, <2>3, OneMoreMarker
<1>5. CASE ns # <<>>
  <2>1. N >= 1
    BY <1>1, <1>5
  <2>2. N \in out .. N
    <3> HIDE DEF N, out, F
    <3> QED
      BY <1>1, <1>3, <2>1
  <2>3. SubSeq(ns, 1, N) = ns
    BY <1>1, SubSeqFull
  <2>4. N < N \/ EndsInSeparator(s) <=> EndsInSeparator(s)
    BY <1>1
  <2>5. Spelling(F, ns, N < N \/ EndsInSeparator(s), style) = Spelling(F, ns, EndsInSeparator(s), style)
    BY <2>4 DEF Spelling
  <2>6. DirectoryAt(s, N, style) = Spelling(F, SubSeq(ns, 1, N), N < N \/ EndsInSeparator(s), style)
    BY DEF DirectoryAt
  <2>7. p = DirectoryAt(s, N, style)
    <3> HIDE DEF F, N, ns
    <3> QED
      BY <1>2, <2>3, <2>5, <2>6
  <2> QED
    BY <2>2, <2>7
<1> QED
  BY <1>4, <1>5

\* A step of the climb.
LEMMA ClimbStep ==
  ASSUME ClimbInv, Climb
  PROVE  LET front == InFront(raw, Style)
             out == Outermost(raw, Style)
         IN /\ raw' = raw /\ Style' = Style
            /\ \/ /\ phase' = "creating"
                  /\ \/ \E n \in out .. Len(Names(raw)) :
                          path' = DirectoryAt(raw, n, Style) /\ markers' = MarkersFrom(raw, n + 1, Style)
                     \/ Len(front) = 1 /\ path' = front /\ markers' = MarkersFrom(raw, out, Style)
               \/ /\ phase' = "done"
                  /\ markers' = MarkersFrom(raw, out, Style)
                       \cup (IF Len(front) = 1 THEN {MarkOf(front, Style)} ELSE {})
<1> DEFINE front == InFront(raw, Style)
           out == Outermost(raw, Style)
           N == Len(Names(raw))
           parent == GetParentDirectory(path, Style)
<1>1. PathInv /\ raw \in Seq(Alphabet) /\ phase = "creating" /\ Normal(path, Style) /\ path # <<>>
  BY DEF ClimbInv, PathInv, Climb
<1>2. raw' = raw /\ Style' = Style
  BY DEF Climb, Style
<1>3. markers' = markers \cup {MarkOf(path, Style)}
  BY <1>1, MarkerInDirectory DEF Climb
<1>4. IF parent = <<>> THEN phase' = "done" ELSE path' = parent /\ phase' = "creating"
  <2>1. parent # <<>> => NormalizePathForStyle(parent, Style) = parent
    BY <1>1, ParentNormal, NormalKept
  <2> QED
    BY <1>1, <2>1 DEF Climb
<1>5. N \in Nat /\ out \in {1, 2}
  BY <1>1, PartsOfPath DEF Outermost, InShare
<1>6. front # <<>> <=> Len(front) \in {1, 2}
  <2>1. front \in Seq(Alphabet) /\ Len(front) \in {0, 1, 2}
    BY <1>1, PartsOfPath, FrontLength
  <2> HIDE DEF front
  <2> QED
    BY <2>1
<1>7. ASSUME NEW n \in out .. N, path = DirectoryAt(raw, n, Style), markers = MarkersFrom(raw, n + 1, Style)
      PROVE  \/ /\ phase' = "creating"
                /\ \/ \E k \in out .. N :
                        path' = DirectoryAt(raw, k, Style) /\ markers' = MarkersFrom(raw, k + 1, Style)
                   \/ Len(front) = 1 /\ path' = front /\ markers' = MarkersFrom(raw, out, Style)
             \/ /\ phase' = "done"
                /\ markers' = MarkersFrom(raw, out, Style)
                     \cup (IF Len(front) = 1 THEN {MarkOf(front, Style)} ELSE {})
  <2>1. markers' = MarkersFrom(raw, n, Style)
    <3>1. n \in 1 .. N
      BY <1>5
    <3> QED
      BY <1>1, <1>3, <1>7, <3>1, OneMoreMarker
  <2>2. parent = IF n > out THEN DirectoryAt(raw, n - 1, Style) ELSE IF Len(front) = 1 THEN front ELSE <<>>
    BY <1>1, <1>7, ParentOfDirectory
  <2>3. CASE parent = <<>>
    <3>1. ~(n > out)
      <4> SUFFICES ASSUME n > out
                   PROVE  FALSE
        OBVIOUS
      <4>1. DirectoryAt(raw, n - 1, Style) = <<>>
        BY <2>2, <2>3
      <4> QED
        BY <1>1, <4>1, DirectoryIsSomething, <1>5
    <3>2. n = out /\ Len(front) # 1
      BY <1>5, <1>6, <2>2, <2>3, <3>1
    <3>3. markers' = MarkersFrom(raw, out, Style) \cup {}
      BY <2>1, <3>2
    <3> QED
      BY <1>4, <2>3, <3>2, <3>3
  <2>4. CASE parent # <<>>
    <3>1. path' = parent /\ phase' = "creating"
      BY <1>4, <2>4
    <3>2. CASE n > out
      <4> DEFINE k == n - 1
      <4>1. k \in out .. N /\ k + 1 = n
        BY <1>5, <3>2
      <4>2. path' = DirectoryAt(raw, k, Style) /\ markers' = MarkersFrom(raw, k + 1, Style)
        BY <2>1, <2>2, <3>1, <3>2, <4>1
      <4> HIDE DEF k
      <4> QED
        BY <3>1, <4>1, <4>2
    <3>3. CASE ~(n > out)
      <4>1. n = out
        BY <1>5, <3>3
      <4>2. Len(front) = 1 /\ parent = front
        BY <2>2, <2>4, <3>3
      <4> QED
        BY <2>1, <3>1, <4>1, <4>2
    <3> QED
      BY <3>2, <3>3
  <2> QED
    BY <2>3, <2>4
<1>8. ASSUME Len(front) = 1, path = front, markers = MarkersFrom(raw, out, Style)
      PROVE  /\ phase' = "done"
             /\ markers' = MarkersFrom(raw, out, Style)
                  \cup (IF Len(front) = 1 THEN {MarkOf(front, Style)} ELSE {})
  <2>1. front = <<PreferredSeparator(Style)>>
    BY <1>1, <1>8, PartsOfPath
  <2>2. parent = <<>>
    BY <1>8, <2>1, RootsHaveNoParent
  <2> QED
    BY <1>3, <1>4, <1>8, <2>2
<1> QED
  BY <1>1, <1>2, <1>7, <1>8 DEF ClimbInv

\* It holds at the start.
LEMMA InitClimb == Init => ClimbInv
BY InitPath DEF Init, ClimbInv

\* Every step keeps it.
LEMMA NextClimb == ClimbInv /\ [Next]_vars => ClimbInv'
<1> SUFFICES ASSUME ClimbInv, [Next]_vars
             PROVE  ClimbInv'
  OBVIOUS
<1>1. PathInv /\ PathInv' /\ raw \in Seq(Alphabet)
  BY NextPath DEF ClimbInv, PathInv
<1>2. CASE Type
  BY <1>1, <1>2 DEF Type, ClimbInv
<1>3. ASSUME NEW kind \in {"creating", "deleting"}, Call(kind)
      PROVE  ClimbInv'
  <2>1. /\ phase = "typing" /\ path' = NormalizePathForStyle(raw, Style)
        /\ phase' = (IF path' = <<>> THEN "done" ELSE kind)
        /\ raw' = raw /\ Style' = Style /\ markers' = markers
    BY <1>3 DEF Call, Style
  <2>2. markers' = {} /\ phase' # "typing"
    BY <2>1 DEF ClimbInv
  <2>3. ASSUME phase' = "creating"
        PROVE  LET N == Len(Names(raw))
                   out == Outermost(raw, Style)
               IN \/ \E n \in out .. N :
                       path' = DirectoryAt(raw, n, Style) /\ markers' = MarkersFrom(raw, n + 1, Style)
                  \/ Len(InFront(raw, Style)) = 1 /\ path' = InFront(raw, Style)
                       /\ markers' = MarkersFrom(raw, out, Style)
    <3>1. path' # <<>>
      BY <2>1, <2>3
    <3>2. MarkersFrom(raw, Len(Names(raw)) + 1, Style) = {}
      BY <1>1, OneMoreMarker
    <3> QED
      BY <1>1, <2>1, <2>2, <3>1, <3>2, ClimbStarts
  <2> QED
    BY <1>1, <2>1, <2>2, <2>3 DEF ClimbInv
<1>4. CASE Climb
  BY <1>1, <1>4, ClimbStep DEF ClimbInv
<1>5. CASE Descend
  BY <1>1, <1>5 DEF Descend, ClimbInv
<1>6. CASE UNCHANGED vars
  BY <1>1, <1>6 DEF vars, ClimbInv, Style
<1> QED
  BY <1>2, <1>3, <1>4, <1>5, <1>6 DEF Next

\* The climb is at a directory of the caller's path, its markers below, in every state.
THEOREM ClimbInvariant == Spec => []ClimbInv
BY InitClimb, NextClimb, PTL DEF Spec

\* What has a marker at the end is what the climb has passed.
LEMMA AllMarked ==
  ASSUME NEW s \in Seq(Alphabet), NEW style
  PROVE  LET front == InFront(s, style)
         IN MarkersFrom(s, Outermost(s, style), style)
              \cup (IF Len(front) = 1 THEN {MarkOf(front, style)} ELSE {})
            = Marks(DirectoriesFrom(Outermost(s, style), s, style), style)
<1> DEFINE front == InFront(s, style)
           ns == Names(s)
           D(n) == DirectoryAt(s, n, style)
           R == Outermost(s, style) .. Len(ns)
           M(d) == MarkOf(d, style)
           P == DirectoriesFrom(Outermost(s, style), s, style)
<1>1. P = {D(n) : n \in R} \cup (IF Len(front) = 1 THEN {front} ELSE {})
  BY DEF DirectoriesFrom, DirectoryAt
<1>2. MarkersFrom(s, Outermost(s, style), style) = {M(D(n)) : n \in R}
  BY DEF MarkersFrom
<1>3. Marks(P, style) = {M(d) : d \in P}
  BY DEF Marks, MarkOf
<1> HIDE DEF M, D, R, front, P
<1>4. MarkersFrom(s, Outermost(s, style), style) \cup (IF Len(front) = 1 THEN {M(front)} ELSE {})
      = Marks(P, style)
  BY <1>1, <1>2, <1>3
<1> QED
  BY <1>4 DEF M, front, P

\* A share's root and its server are the outermost of its directories.
LEMMA MoreFromFurtherOut ==
  ASSUME NEW s \in Seq(Alphabet), NEW style
  PROVE  Marks(DirectoriesFrom(BelowShare(s, style), s, style), style)
           \subseteq Marks(DirectoriesFrom(Outermost(s, style), s, style), style)
<1>1. \A n \in BelowShare(s, style) .. Len(Names(s)) : n \in Outermost(s, style) .. Len(Names(s))
  BY DEF BelowShare, Outermost
<1>2. DirectoriesFrom(BelowShare(s, style), s, style) \subseteq DirectoriesFrom(Outermost(s, style), s, style)
  BY <1>1, Zenon DEF DirectoriesFrom
<1> QED
  BY <1>2 DEF Marks

\* The climb of DirCreateImpl comes to an end, each parent being shorter than its directory although
\* it is normalized once more, and then a marker is in every directory on the way below a share's root, and
\* in nothing else but that root.
THEOREM ClimbPassesAll == Spec => ClimbEnds
<1>1. ASSUME ClimbInv, Next, phase = "creating"
      PROVE  \/ phase' = "creating" /\ Len(path') < Len(path)
             \/ /\ phase' = "done"
                /\ Marks(DirectoriesFrom(BelowShare(raw, Style), raw, Style), Style) \subseteq markers'
                /\ markers' \subseteq Marks(DirectoriesFrom(Outermost(raw, Style), raw, Style), Style)
  <2>1. Climb /\ PathInv /\ raw \in Seq(Alphabet)
    BY <1>1 DEF Next, Type, Call, Descend, ClimbInv, PathInv
  <2>2. CASE phase' = "creating"
    <3>1. Len(path') < Len(path)
      BY <1>1, <2>1, <2>2, ClimbGoesUp DEF ClimbShortens
    <3> QED
      BY <2>2, <3>1
  <2>3. CASE phase' # "creating"
    <3>1. /\ phase' = "done"
          /\ markers' = MarkersFrom(raw, Outermost(raw, Style), Style)
               \cup (IF Len(InFront(raw, Style)) = 1 THEN {MarkOf(InFront(raw, Style), Style)} ELSE {})
      BY <1>1, <2>1, <2>3, ClimbStep
    <3> QED
      BY <2>1, <3>1, AllMarked, MoreFromFurtherOut
  <2> QED
    BY <2>2, <2>3
<1> QED
  BY <1>1, ClimbInvariant, PTL DEF Spec, ClimbEnds

=============================================================================
