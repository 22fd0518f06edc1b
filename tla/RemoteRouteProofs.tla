-------------------------- MODULE RemoteRouteProofs --------------------------
(***************************************************************************)
(* What the exchanges of RemoteRoute promise: a request is well formed,    *)
(* wherever its frame had to grow; a local route stands only where a       *)
(* target has told that NetId and one has entered the way back; and that   *)
(* is the target of the exchange while no other was asked from its port.   *)
(***************************************************************************)
EXTENDS RemoteRoute, SequenceTheorems, FiniteSetTheorems, TLAPS

-----------------------------------------------------------------------------
(* Frames.                                                                 *)

IsFrame(f) ==
    /\ f = [data |-> f.data, pos |-> f.pos, size |-> f.size, originalSize |-> f.originalSize]
    /\ f.pos \in Nat /\ f.size \in Nat /\ f.originalSize \in Nat
    /\ f.pos <= f.size /\ f.size <= f.originalSize
    /\ f.data = [i \in 0..(f.originalSize - 1) |-> f.data[i]]

\* A new frame holds nothing.
LEMMA NewFrame ==
  ASSUME NEW n \in Nat
  PROVE  IsFrame(FrameOf(n)) /\ content(FrameOf(n)) = <<>> /\ FrameOf(n).size = n
<1>1. IsFrame(FrameOf(n)) /\ FrameOf(n).size = n /\ FrameOf(n).pos = n
  BY DEF IsFrame, FrameOf, Uninitialised
<1>2. size(FrameOf(n)) = 0
  BY <1>1 DEF size
<1> QED
  BY <1>1, <1>2 DEF content

\* The cells of a frame, once for each of its parts.
LEMMA Record4 ==
  ASSUME NEW d, NEW p, NEW s, NEW o, NEW f, f = [data |-> d, pos |-> p, size |-> s, originalSize |-> o]
  PROVE  f.data = d /\ f.pos = p /\ f.size = s /\ f.originalSize = o
OBVIOUS

\* What is prepended stands in front of what was there, also when the buffer is replaced by a longer one.
LEMMA Prepends ==
  ASSUME NEW S, NEW f, IsFrame(f), content(f) \in Seq(S), NEW cells \in Seq(S)
  PROVE  IsFrame(prepend(f, cells)) /\ content(prepend(f, cells)) = cells \o content(f)
<1> DEFINE old == content(f)
           grown == [data |-> Copied(Uninitialised(Len(cells) + f.size), MovedTo(f, Len(cells)), old),
                     pos |-> f.pos, size |-> f.size + Len(cells), originalSize |-> f.size + Len(cells)]
           roomy == [f EXCEPT !.pos = @ - Len(cells)]
           b == IF Len(cells) > f.pos THEN grown ELSE roomy
           g == prepend(f, cells)
<1>1. /\ Len(cells) \in Nat /\ DOMAIN cells = 1..Len(cells)
      /\ f.pos \in Nat /\ f.size \in Nat /\ f.originalSize \in Nat /\ f.pos <= f.size /\ f.size <= f.originalSize
  BY LenProperties DEF IsFrame
<1>2. size(f) \in Nat /\ size(f) = f.size - f.pos
  BY <1>1 DEF size
<1>3. /\ old = [k \in 1..size(f) |-> f.data[f.pos + k - 1]]
      /\ Len(old) = size(f)
  <2>1. old = [k \in 1..size(f) |-> f.data[f.pos + k - 1]]
    BY DEF content
  <2> HIDE DEF old
  <2>2. DOMAIN old = 1..size(f)
    BY <2>1
  <2>3. Len(old) \in Nat /\ DOMAIN old = 1..Len(old)
    BY LenProperties DEF old
  <2> QED
    BY <1>2, <2>1, <2>2, <2>3
<1> HIDE DEF old
<1>4. g = [b EXCEPT !.data = Copied(b.data, b.pos, cells)]
  BY DEF prepend, old
<1>5. /\ b = [data |-> b.data, pos |-> b.pos, size |-> b.size, originalSize |-> b.originalSize]
      /\ b.pos \in Nat /\ b.size \in Nat /\ b.originalSize \in Nat
      /\ b.size - b.pos = Len(cells) + size(f) /\ b.size <= b.originalSize
      /\ DOMAIN b.data = 0..(b.originalSize - 1)
      /\ \A k \in 1..size(f) : b.data[b.pos + Len(cells) + k - 1] = old[k]
  <2>1. CASE Len(cells) > f.pos
    <3>1. b = grown
      BY <2>1
    <3>2. /\ b.data = Copied(Uninitialised(Len(cells) + f.size), MovedTo(f, Len(cells)), old)
          /\ b.pos = f.pos /\ b.size = f.size + Len(cells) /\ b.originalSize = f.size + Len(cells)
      BY <3>1, Record4
    <3> HIDE DEF b
    <3>3. b.data = [i \in 0..(Len(cells) + f.size - 1) |->
                      IF i >= f.pos + Len(cells) /\ i - (f.pos + Len(cells)) < Len(old)
                      THEN old[i - (f.pos + Len(cells)) + 1] ELSE Junk]
      <4> DEFINE new == Uninitialised(Len(cells) + f.size)
      <4>1. DOMAIN new = 0..(Len(cells) + f.size - 1) /\ \A i \in DOMAIN new : new[i] = Junk
        BY <1>1 DEF Uninitialised
      <4> HIDE DEF new
      <4>2. b.data = [i \in DOMAIN new |-> IF i >= f.pos + Len(cells) /\ i - (f.pos + Len(cells)) < Len(old)
                                          THEN old[i - (f.pos + Len(cells)) + 1] ELSE new[i]]
        BY <3>2 DEF Copied, MovedTo, new
      <4> QED
        BY <4>1, <4>2
    <3>4. ASSUME NEW k \in 1..size(f)
          PROVE  b.data[b.pos + Len(cells) + k - 1] = old[k]
      <4>1. f.pos + Len(cells) + k - 1 \in 0..(Len(cells) + f.size - 1)
        BY <1>1, <1>2, SMTT(30)
      <4>2. /\ f.pos + Len(cells) + k - 1 >= f.pos + Len(cells)
            /\ (f.pos + Len(cells) + k - 1) - (f.pos + Len(cells)) < Len(old)
            /\ (f.pos + Len(cells) + k - 1) - (f.pos + Len(cells)) + 1 = k
        BY <1>1, <1>2, <1>3
      <4>3. b.data[f.pos + Len(cells) + k - 1] = old[k]
        BY <3>3, <4>1, <4>2
      <4> QED
        BY <3>2, <4>3
    <3>5. b = [data |-> b.data, pos |-> b.pos, size |-> b.size, originalSize |-> b.originalSize]
      BY <3>1, <3>2
    <3>6. DOMAIN b.data = 0..(b.originalSize - 1)
      BY <3>2, <3>3, <1>1
    <3> QED
      BY <1>1, <1>2, <3>2, <3>4, <3>5, <3>6
  <2>2. CASE ~(Len(cells) > f.pos)
    <3>1. b = [f EXCEPT !.pos = f.pos - Len(cells)]
      BY <2>2
    <3> HIDE DEF b
    <3>2. b = [data |-> f.data, pos |-> f.pos - Len(cells), size |-> f.size, originalSize |-> f.originalSize]
      BY <3>1 DEF IsFrame
    <3>3. b.data = f.data /\ b.pos = f.pos - Len(cells) /\ b.size = f.size /\ b.originalSize = f.originalSize
      BY <3>2, Record4
    <3>4. ASSUME NEW k \in 1..size(f)
          PROVE  b.data[b.pos + Len(cells) + k - 1] = old[k]
      <4>1. (f.pos - Len(cells)) + Len(cells) + k - 1 = f.pos + k - 1
        BY <1>1, <1>2
      <4> QED
        BY <1>3, <3>3, <4>1
    <3>5. DOMAIN b.data = 0..(b.originalSize - 1)
      BY <3>3 DEF IsFrame
    <3>6. b.pos \in Nat /\ b.size - b.pos = Len(cells) + size(f)
      BY <1>1, <1>2, <2>2, <3>3
    <3> QED
      BY <1>1, <3>2, <3>3, <3>4, <3>5, <3>6
  <2> QED
    BY <2>1, <2>2
<1> HIDE DEF b, g
<1>6. g = [data |-> Copied(b.data, b.pos, cells), pos |-> b.pos, size |-> b.size, originalSize |-> b.originalSize]
  BY <1>4, <1>5
<1>7. g.data = Copied(b.data, b.pos, cells) /\ g.pos = b.pos /\ g.size = b.size /\ g.originalSize = b.originalSize
  BY <1>6, Record4
<1>8. g.data = [i \in 0..(b.originalSize - 1) |->
                  IF i >= b.pos /\ i - b.pos < Len(cells) THEN cells[i - b.pos + 1] ELSE b.data[i]]
  BY <1>5, <1>7 DEF Copied
<1>9. IsFrame(g)
  <2>1. b.pos <= b.size
    BY <1>1, <1>2, <1>5
  <2>2. g.data = [i \in 0..(g.originalSize - 1) |-> g.data[i]]
    BY <1>7, <1>8
  <2> QED
    BY <1>5, <1>6, <1>7, <2>1, <2>2 DEF IsFrame
<1>10. size(g) = Len(cells) + Len(old)
  BY <1>3, <1>5, <1>7 DEF size
<1>11. content(g) = [k \in 1..(Len(cells) + Len(old)) |-> g.data[b.pos + k - 1]]
  BY <1>7, <1>10 DEF content
<1>12. ASSUME NEW k \in 1..(Len(cells) + Len(old))
       PROVE  g.data[b.pos + k - 1] = IF k <= Len(cells) THEN cells[k] ELSE old[k - Len(cells)]
  <2>1. b.pos + k - 1 \in 0..(b.originalSize - 1)
    BY <1>1, <1>2, <1>3, <1>5, SMTT(30)
  <2>2. CASE k <= Len(cells)
    <3>1. b.pos + k - 1 >= b.pos /\ (b.pos + k - 1) - b.pos < Len(cells) /\ (b.pos + k - 1) - b.pos + 1 = k
      BY <1>1, <1>5, <2>2, SMTT(30)
    <3> QED
      BY <1>8, <2>1, <2>2, <3>1
  <2>3. CASE ~(k <= Len(cells))
    <3>1. ~((b.pos + k - 1) - b.pos < Len(cells))
      BY <1>1, <1>5, <2>3
    <3>2. g.data[b.pos + k - 1] = b.data[b.pos + k - 1]
      BY <1>8, <2>1, <3>1
    <3>3. k - Len(cells) \in 1..size(f) /\ b.pos + Len(cells) + (k - Len(cells)) - 1 = b.pos + k - 1
      <4>1. PICK n \in Nat, m \in Nat, p \in Nat : n = Len(cells) /\ m = size(f) /\ p = b.pos
        BY <1>1, <1>2, <1>5
      <4>2. k \in 1..(n + m) /\ ~(k <= n)
        BY <1>3, <2>3, <4>1
      <4>3. k - n \in 1..m /\ p + n + (k - n) - 1 = p + k - 1
        BY <4>2
      <4> QED
        BY <4>1, <4>3
    <3>4. b.data[b.pos + Len(cells) + (k - Len(cells)) - 1] = old[k - Len(cells)]
      BY <1>5, <3>3
    <3> QED
      BY <2>3, <3>2, <3>3, <3>4
  <2> QED
    BY <2>2, <2>3
<1>13. content(g) = cells \o old
  <2>1. /\ cells \o old \in Seq(S) /\ Len(cells \o old) = Len(cells) + Len(old)
        /\ \A k \in 1..(Len(cells) + Len(old)) :
              (cells \o old)[k] = IF k <= Len(cells) THEN cells[k] ELSE old[k - Len(cells)]
    BY ConcatProperties DEF old
  <2>2. cells \o old = [k \in 1..(Len(cells) + Len(old)) |-> (cells \o old)[k]]
    BY <2>1, LenProperties
  <2> QED
    BY <1>11, <1>12, <2>1, <2>2
<1> QED
  BY <1>9, <1>13 DEF g, old

-----------------------------------------------------------------------------
(* The datagrams that are sent.                                            *)

\* A tag in the datagram; one that is too long leaves no trace.
Written(value, id) == IF Fits(value) THEN <<id, Len(value)>> \o value ELSE <<>>

\* A sequence is a concatenation when it agrees with both parts.
LEMMA Joined ==
  ASSUME NEW S, NEW s \in Seq(S), NEW t \in Seq(S), NEW u \in Seq(S), Len(u) = Len(s) + Len(t),
         \A i \in 1..Len(s) : u[i] = s[i],
         \A i \in 1..Len(t) : u[Len(s) + i] = t[i]
  PROVE  s \o t = u
<1>1. Len(s) \in Nat /\ Len(t) \in Nat
  BY LenProperties
<1>2. s \o t \in Seq(S) /\ Len(s \o t) = Len(s) + Len(t)
  BY ConcatProperties
<1>3. ASSUME NEW i \in 1..Len(u)
      PROVE  (s \o t)[i] = u[i]
  <2>1. (s \o t)[i] = IF i <= Len(s) THEN s[i] ELSE t[i - Len(s)]
    BY ConcatProperties
  <2>2. CASE i <= Len(s)
    BY <1>1, <2>1, <2>2
  <2>3. CASE ~(i <= Len(s))
    <3>1. i - Len(s) \in 1..Len(t) /\ Len(s) + (i - Len(s)) = i
      BY <1>1, <2>3
    <3> QED
      BY <2>1, <2>3, <3>1
  <2> QED
    BY <2>2, <2>3
<1> QED
  BY <1>2, <1>3, SeqEqual

\* Two fields, one behind the other.
LEMMA Joins2 ==
  ASSUME NEW S, NEW x \in S, NEW y \in S
  PROVE  <<x>> \o <<y>> = <<x, y>>
<1> DEFINE s == <<x>>
           t == <<y>>
           u == <<x, y>>
<1>1. s \in Seq(S) /\ t \in Seq(S) /\ u \in Seq(S)
  OBVIOUS
<1>2. Len(s) = 1 /\ Len(t) = 1 /\ Len(u) = 2
  OBVIOUS
<1>3. u[1] = s[1] /\ u[1 + 1] = t[1]
  OBVIOUS
<1> HIDE DEF s, t, u
<1>4. /\ \A i \in 1..Len(s) : u[i] = s[i]
      /\ \A i \in 1..Len(t) : u[Len(s) + i] = t[i]
  BY <1>2, <1>3
<1>5. Len(u) = Len(s) + Len(t)
  BY <1>2
<1>6. s \o t = u
  BY <1>1, <1>4, <1>5, Joined
<1> QED
  BY <1>6 DEF s, t, u

\* A field and two more.
LEMMA Joins3 ==
  ASSUME NEW S, NEW x \in S, NEW y \in S, NEW z \in S
  PROVE  <<x>> \o <<y, z>> = <<x, y, z>>
<1> DEFINE s == <<x>>
           t == <<y, z>>
           u == <<x, y, z>>
<1>1. s \in Seq(S) /\ t \in Seq(S) /\ u \in Seq(S)
  OBVIOUS
<1>2. Len(s) = 1 /\ Len(t) = 2 /\ Len(u) = 3
  OBVIOUS
<1>3. u[1] = s[1] /\ u[1 + 1] = t[1] /\ u[1 + 2] = t[2]
  OBVIOUS
<1> HIDE DEF s, t, u
<1>4. /\ \A i \in 1..Len(s) : u[i] = s[i]
      /\ \A i \in 1..Len(t) : u[Len(s) + i] = t[i]
  BY <1>2, <1>3
<1>5. Len(u) = Len(s) + Len(t)
  BY <1>2
<1>6. s \o t = u
  BY <1>1, <1>4, <1>5, Joined
<1> QED
  BY <1>6 DEF s, t, u

\* The header and the two fields behind it.
LEMMA Joins5 ==
  ASSUME NEW S, NEW x \in S, NEW y \in S, NEW z \in S, NEW v \in S, NEW w \in S
  PROVE  <<x, y, z>> \o <<v, w>> = <<x, y, z, v, w>>
<1> DEFINE s == <<x, y, z>>
           t == <<v, w>>
           u == <<x, y, z, v, w>>
<1>1. s \in Seq(S) /\ t \in Seq(S) /\ u \in Seq(S)
  OBVIOUS
<1>2. Len(s) = 3 /\ Len(t) = 2 /\ Len(u) = 5
  OBVIOUS
<1>3. u[1] = s[1] /\ u[2] = s[2] /\ u[3] = s[3] /\ u[3 + 1] = t[1] /\ u[3 + 2] = t[2]
  OBVIOUS
<1> HIDE DEF s, t, u
<1>4. /\ \A i \in 1..Len(s) : u[i] = s[i]
      /\ \A i \in 1..Len(t) : u[Len(s) + i] = t[i]
  BY <1>2, <1>3
<1>5. Len(u) = Len(s) + Len(t)
  BY <1>2
<1>6. s \o t = u
  BY <1>1, <1>4, <1>5, Joined
<1> QED
  BY <1>6 DEF s, t, u

\* Joining a pair to the front, and joining the front to the rest.
LEMMA Regroups ==
  ASSUME NEW S, NEW h \in Seq(S), NEW a \in Seq(S), NEW t \in Seq(S)
  PROVE  h \o a \in Seq(S) /\ h \o (a \o t) = (h \o a) \o t
<1>1. h \o a \in Seq(S)
  BY ConcatProperties
<1>2. (h \o a) \o t = h \o (a \o t)
  BY ConcatAssociative
<1> QED
  BY <1>1, <1>2

\* Two fields in front of a sequence.
LEMMA Pairs ==
  ASSUME NEW S, NEW x \in S, NEW y \in S, NEW s \in Seq(S)
  PROVE  <<x>> \o (<<y>> \o s) = <<x, y>> \o s
<1>1. <<x>> \in Seq(S) /\ <<y>> \in Seq(S)
  OBVIOUS
<1>2. (<<x>> \o <<y>>) \o s = <<x>> \o (<<y>> \o s)
  BY <1>1, ConcatAssociative
<1> QED
  BY <1>2, Joins2

\* The frame g is f with the cells in front.
InFront(S, f, g, cells) ==
    IsFrame(g) /\ content(g) = cells \o content(f) /\ cells \in Seq(S) /\ content(g) \in Seq(S)

\* PrependUdpTag writes the length, and in front of it the kind.
LEMMA WritesTag ==
  ASSUME NEW S, Nat \subseteq S, NEW f, IsFrame(f), content(f) \in Seq(S), NEW value \in Seq(S), NEW id \in S
  PROVE  InFront(S, f, PrependUdpTag(f, value, id), Written(value, id))
<1>1. CASE ~Fits(value)
  <2>1. Written(value, id) = <<>> /\ PrependUdpTag(f, value, id) = f
    BY <1>1 DEF Written, PrependUdpTag
  <2> QED
    BY <2>1, ConcatEmptySeq, EmptySeq DEF InFront
<1>2. CASE Fits(value)
  <2>1. Len(value) \in S
    BY LenProperties
  <2>2. <<id>> \in Seq(S) /\ <<Len(value)>> \in Seq(S) /\ <<id, Len(value)>> \in Seq(S)
    BY <2>1
  <2> DEFINE f1 == prepend(f, value)
             f2 == prepend(f1, <<Len(value)>>)
             f3 == prepend(f2, <<id>>)
  <2>3. PrependUdpTag(f, value, id) = f3 /\ Written(value, id) = <<id, Len(value)>> \o value
    BY <1>2 DEF PrependUdpTag, Written
  <2> HIDE DEF f1, f2, f3
  <2>4. IsFrame(f1) /\ content(f1) = value \o content(f)
    BY Prepends DEF f1
  <2>5. content(f1) \in Seq(S)
    BY <2>4, ConcatProperties
  <2>6. IsFrame(f2) /\ content(f2) = <<Len(value)>> \o content(f1)
    BY <2>2, <2>4, <2>5, Prepends DEF f2
  <2>7. content(f2) \in Seq(S)
    BY <2>2, <2>5, <2>6, ConcatProperties
  <2>8. IsFrame(f3) /\ content(f3) = <<id>> \o content(f2)
    BY <2>2, <2>6, <2>7, Prepends DEF f3
  <2>9. content(f3) = <<id, Len(value)>> \o (value \o content(f))
    BY <2>1, <2>4, <2>5, <2>6, <2>8, Pairs, SMTT(30)
  <2>10. <<id, Len(value)>> \o value \in Seq(S)
    BY <2>2, ConcatProperties
  <2>11. (<<id, Len(value)>> \o value) \o content(f) = <<id, Len(value)>> \o (value \o content(f))
    BY <2>2, ConcatAssociative
  <2>12. content(f3) \in Seq(S)
    BY <2>2, <2>7, <2>8, ConcatProperties
  <2> QED
    BY <2>3, <2>8, <2>9, <2>10, <2>11, <2>12 DEF InFront
<1> QED
  BY <1>1, <1>2

\* One field more in front.
LEMMA PrependsField ==
  ASSUME NEW S, NEW f, IsFrame(f), content(f) \in Seq(S), NEW x \in S
  PROVE  /\ IsFrame(prepend(f, <<x>>))
         /\ content(prepend(f, <<x>>)) = <<x>> \o content(f)
         /\ content(prepend(f, <<x>>)) \in Seq(S)
<1>1. <<x>> \in Seq(S)
  OBVIOUS
<1>2. IsFrame(prepend(f, <<x>>)) /\ content(prepend(f, <<x>>)) = <<x>> \o content(f)
  BY <1>1, Prepends
<1>3. <<x>> \o content(f) \in Seq(S)
  BY <1>1, ConcatProperties
<1> QED
  BY <1>2, <1>3

\* The count of tags and the AmsAddr, and what SendRecv puts in front of them.
Headed(f, n, a, serviceId) == PrependHeader(prepend(prepend(f, <<n>>), <<a>>), serviceId)
HeadCells(serviceId, a, n) == <<Cookie, InvokeId, serviceId, a, n>>

\* The header is in front of what the frame held.
LEMMA WritesHeader ==
  ASSUME NEW S, InvokeId \in S, Cookie \in S, NEW f, IsFrame(f), content(f) \in Seq(S),
         NEW n \in S, NEW a \in S, NEW serviceId \in S
  PROVE  /\ IsFrame(Headed(f, n, a, serviceId))
         /\ content(Headed(f, n, a, serviceId)) = HeadCells(serviceId, a, n) \o content(f)
         /\ HeadCells(serviceId, a, n) \in Seq(S)
<1> DEFINE f1 == prepend(f, <<n>>)
           f2 == prepend(f1, <<a>>)
           f3 == prepend(f2, <<serviceId>>)
           f4 == prepend(f3, <<InvokeId>>)
           f5 == prepend(f4, <<Cookie>>)
           front == <<Cookie>>
           middle == <<InvokeId, serviceId>>
           back == <<a, n>>
<1>1. Headed(f, n, a, serviceId) = f5
  BY DEF Headed, PrependHeader
<1> HIDE DEF f1, f2, f3, f4, f5
<1>2. IsFrame(f1) /\ content(f1) = <<n>> \o content(f) /\ content(f1) \in Seq(S)
  BY PrependsField DEF f1
<1>3. IsFrame(f2) /\ content(f2) = <<a>> \o content(f1) /\ content(f2) \in Seq(S)
  BY <1>2, PrependsField DEF f2
<1>4. IsFrame(f3) /\ content(f3) = <<serviceId>> \o content(f2) /\ content(f3) \in Seq(S)
  BY <1>3, PrependsField DEF f3
<1>5. IsFrame(f4) /\ content(f4) = <<InvokeId>> \o content(f3) /\ content(f4) \in Seq(S)
  BY <1>4, PrependsField DEF f4
<1>6. IsFrame(f5) /\ content(f5) = <<Cookie>> \o content(f4)
  BY <1>5, PrependsField DEF f5
<1>7. <<a>> \o (<<n>> \o content(f)) = back \o content(f)
  <2> DEFINE sa == <<a>>
             sn == <<n>>
  <2>1. sa \in Seq(S) /\ sn \in Seq(S)
    OBVIOUS
  <2>2. sa \o sn = back
    BY Joins2
  <2> HIDE DEF sa, sn, back
  <2>3. sa \o (sn \o content(f)) = (sa \o sn) \o content(f)
    BY <2>1, Regroups, SMTT(30)
  <2>4. sa \o (sn \o content(f)) = back \o content(f)
    BY <2>2, <2>3
  <2> QED
    BY <2>4 DEF sa, sn
<1>8. <<InvokeId>> \o (<<serviceId>> \o content(f2)) = <<InvokeId, serviceId>> \o content(f2)
  BY <1>3, Pairs
<1>9. content(f5) = front \o (middle \o (back \o content(f)))
  BY <1>2, <1>3, <1>4, <1>5, <1>6, <1>7, <1>8
<1>10. front \in Seq(S) /\ middle \in Seq(S) /\ back \in Seq(S)
  OBVIOUS
<1>11. front \o middle = <<Cookie, InvokeId, serviceId>>
  BY Joins3
<1>12. <<Cookie, InvokeId, serviceId>> \o back = HeadCells(serviceId, a, n)
  BY Joins5 DEF HeadCells
<1>13. HeadCells(serviceId, a, n) \in Seq(S)
  BY DEF HeadCells
<1> HIDE DEF front, middle, back
<1>14. front \o middle \in Seq(S) /\ back \o content(f) \in Seq(S)
  BY <1>10, ConcatProperties
<1>15. front \o (middle \o (back \o content(f))) = (front \o middle) \o (back \o content(f))
  <2>1. PICK u \in Seq(S) : u = back \o content(f)
    BY <1>14
  <2>2. front \o (middle \o u) = (front \o middle) \o u
    BY <1>10, Regroups, SMTT(30)
  <2> QED
    BY <2>1, <2>2
<1>16. (front \o middle) \o (back \o content(f)) = ((front \o middle) \o back) \o content(f)
  BY <1>10, <1>14, ConcatAssociative, SMTT(30)
<1>17. content(f5) = HeadCells(serviceId, a, n) \o content(f)
  BY <1>9, <1>11, <1>12, <1>15, <1>16
<1> QED
  BY <1>1, <1>6, <1>13, <1>17

\* The fields that may stand in a request.
Cells(ip) ==
    {Cookie, "1", "Administrator", ip, LocalNetId(ip)} \cup Int \cup {RouteName[k] : k \in DOMAIN RouteName}

\* Every tag of a request is made of such fields.
LEMMA TagValues ==
  ASSUME NEW ip
  PROVE  \A k \in 1..5 : Tags(ip)[k].value \in Seq(Cells(ip)) /\ Tags(ip)[k].id \in Cells(ip)
<1> DEFINE S == Cells(ip)
<1>1. RouteName \in Seq(S)
  BY RouteAssumption, SeqMonotonic DEF Cells
<1>2. ip \in S /\ LocalNetId(ip) \in S /\ "1" \in S /\ "Administrator" \in S
  BY DEF Cells
<1>3. COMPUTERNAME \in S /\ PASSWORD \in S /\ USERNAME \in S /\ NETID \in S /\ ROUTENAME \in S
  BY DEF COMPUTERNAME, PASSWORD, USERNAME, NETID, ROUTENAME, Cells
<1> HIDE DEF S
<1>4. IpText(ip) \in Seq(S) /\ <<LocalNetId(ip)>> \in Seq(S) /\ <<"1">> \in Seq(S) /\ <<"Administrator">> \in Seq(S)
  BY <1>2 DEF IpText
<1>5. Tags(ip)[1].value \in Seq(S) /\ Tags(ip)[1].id \in S
  BY <1>3, <1>4 DEF Tags
<1>6. Tags(ip)[2].value \in Seq(S) /\ Tags(ip)[2].id \in S
  BY <1>3, <1>4 DEF Tags
<1>7. Tags(ip)[3].value \in Seq(S) /\ Tags(ip)[3].id \in S
  BY <1>3, <1>4 DEF Tags
<1>8. Tags(ip)[4].value \in Seq(S) /\ Tags(ip)[4].id \in S
  BY <1>3, <1>4 DEF Tags
<1>9. Tags(ip)[5].value \in Seq(S) /\ Tags(ip)[5].id \in S
  BY <1>1, <1>3, <1>4 DEF Tags
<1> QED
  BY <1>5, <1>6, <1>7, <1>8, <1>9 DEF S

\* The k-th tag of a request, in a frame and in a datagram.
Tagged(ip, f, k) == PrependUdpTag(f, Tags(ip)[k].value, Tags(ip)[k].id)
WrittenTag(ip, k) == Written(Tags(ip)[k].value, Tags(ip)[k].id)

\* One tag more in front of the frame of a request.
LEMMA WritesTagOf ==
  ASSUME NEW ip, NEW f, IsFrame(f), content(f) \in Seq(Cells(ip)), NEW k \in 1..5
  PROVE  InFront(Cells(ip), f, Tagged(ip, f, k), WrittenTag(ip, k))
<1>1. Nat \subseteq Cells(ip)
  BY DEF Cells
<1>2. Tags(ip)[k].value \in Seq(Cells(ip)) /\ Tags(ip)[k].id \in Cells(ip)
  BY TagValues
<1> QED
  BY <1>1, <1>2, WritesTag DEF Tagged, WrittenTag

\* Six sequences, one behind the other: the order in which they are joined does not matter.
AllIn(S, h, a, b, c, d, e) ==
    h \in Seq(S) /\ a \in Seq(S) /\ b \in Seq(S) /\ c \in Seq(S) /\ d \in Seq(S) /\ e \in Seq(S)

FromTheRight(h, a, b, c, d, e) == h \o (a \o (b \o (c \o (d \o e))))
FromTheLeft(h, a, b, c, d, e) == h \o a \o b \o c \o d \o e

\* The two ways to join six sequences give the same one.
LEMMA JoinsSix ==
  ASSUME NEW S, NEW h, NEW a, NEW b, NEW c, NEW d, NEW e, AllIn(S, h, a, b, c, d, e)
  PROVE  FromTheRight(h, a, b, c, d, e) = FromTheLeft(h, a, b, c, d, e)
<1> DEFINE t4 == d \o e
           t3 == c \o t4
           t2 == b \o t3
           h1 == h \o a
           h2 == h1 \o b
           h3 == h2 \o c
<1>1. h \in Seq(S)
  BY DEF AllIn
<1>2. a \in Seq(S)
  BY DEF AllIn
<1>3. b \in Seq(S)
  BY DEF AllIn
<1>4. c \in Seq(S)
  BY DEF AllIn
<1>5. d \in Seq(S)
  BY DEF AllIn
<1>6. e \in Seq(S)
  BY DEF AllIn
<1> HIDE DEF t4, t3, t2, h1, h2, h3
<1>7. t4 \in Seq(S)
  BY <1>5, <1>6, Regroups DEF t4
<1>8. t3 \in Seq(S)
  BY <1>7, <1>4, Regroups DEF t3
<1>9. t2 \in Seq(S)
  BY <1>8, <1>3, Regroups DEF t2
<1>10. h1 \in Seq(S) /\ h \o (a \o t2) = h1 \o t2
  BY <1>1, <1>2, <1>9, Regroups, SMTT(30) DEF h1
<1>11. h2 \in Seq(S) /\ h1 \o (b \o t3) = h2 \o t3
  BY <1>8, <1>3, <1>10, Regroups, SMTT(30) DEF h2
<1>12. h3 \in Seq(S) /\ h2 \o (c \o t4) = h3 \o t4
  BY <1>7, <1>4, <1>11, Regroups, SMTT(30) DEF h3
<1>13. h3 \o (d \o e) = (h3 \o d) \o e
  BY <1>5, <1>6, <1>12, Regroups, SMTT(30)
<1>14. h \o (a \o t2) = (h3 \o d) \o e
  BY <1>10, <1>11, <1>12, <1>13 DEF t2, t3, t4
<1> QED
  BY <1>14 DEF t2, t3, t4, h1, h2, h3, FromTheRight, FromTheLeft

\* What AddRemoteRoute sends.
RouteHead(ip) == HeadCells(ADDROUTE, LocalNetId(ip), tagCount(Tags(ip)))
RouteRequest(ip) ==
    RouteHead(ip) \o WrittenTag(ip, 5) \o WrittenTag(ip, 4) \o WrittenTag(ip, 3) \o WrittenTag(ip, 2) \o WrittenTag(ip, 1)

\* There are five tags, and those that are not too long are counted.
LEMMA CountsTags ==
  ASSUME NEW ip
  PROVE  DOMAIN Tags(ip) = 1..5 /\ tagCount(Tags(ip)) \in Nat
<1>1. DOMAIN Tags(ip) = 1..5
  BY DEF Tags
<1>2. IsFiniteSet(1..5)
  BY FS_Interval, 1 \in Int, 5 \in Int
<1>3. {k \in DOMAIN Tags(ip) : Fits(Tags(ip)[k].value)} \subseteq 1..5
  BY <1>1
<1>4. IsFiniteSet({k \in DOMAIN Tags(ip) : Fits(Tags(ip)[k].value)})
  BY <1>2, <1>3, FS_Subset
<1> QED
  BY <1>1, <1>4, FS_CardinalityType DEF tagCount

\* The frame of AddRemoteRoute holds that request.
LEMMA WritesRequest ==
  ASSUME NEW ip
  PROVE  /\ IsFrame(AddRouteFrame(ip)) /\ content(AddRouteFrame(ip)) = RouteRequest(ip)
         /\ RouteRequest(ip)[3] = ADDROUTE /\ RouteRequest(ip)[4] = LocalNetId(ip)
<1> DEFINE S == Cells(ip)
           w(k) == WrittenTag(ip, k)
           n == tagCount(Tags(ip))
           f0 == FrameOf(FrameCells)
           f1 == Tagged(ip, f0, 1)
           f2 == Tagged(ip, f1, 2)
           f3 == Tagged(ip, f2, 3)
           f4 == Tagged(ip, f3, 4)
           f5 == Tagged(ip, f4, 5)
           head == RouteHead(ip)
<1>1. InvokeId \in Int /\ ADDROUTE \in Int
  BY DEF InvokeId, ADDROUTE
<1>2. Cookie \in S /\ InvokeId \in S /\ ADDROUTE \in S /\ LocalNetId(ip) \in S /\ n \in S
  BY <1>1, CountsTags DEF Cells
<1>3. AddRouteFrame(ip) = Headed(f5, n, LocalNetId(ip), ADDROUTE)
  BY DEF AddRouteFrame, Tagged, Headed
<1>4. IsFrame(f0) /\ content(f0) = <<>> /\ content(f0) \in Seq(S)
  BY NewFrame, RouteAssumption, EmptySeq
<1> HIDE DEF S, f0, f1, f2, f3, f4, f5, n
<1>5. InFront(S, f0, f1, w(1))
  BY <1>4, WritesTagOf, 1 \in 1..5 DEF S, f1
<1>6. InFront(S, f1, f2, w(2))
  BY <1>5, WritesTagOf, 2 \in 1..5 DEF S, f2, InFront
<1>7. InFront(S, f2, f3, w(3))
  BY <1>6, WritesTagOf, 3 \in 1..5 DEF S, f3, InFront
<1>8. InFront(S, f3, f4, w(4))
  BY <1>7, WritesTagOf, 4 \in 1..5 DEF S, f4, InFront
<1>9. InFront(S, f4, f5, w(5))
  BY <1>8, WritesTagOf, 5 \in 1..5 DEF S, f5, InFront
<1>10. /\ IsFrame(AddRouteFrame(ip))
       /\ content(AddRouteFrame(ip)) = head \o content(f5)
       /\ head \in Seq(S)
  <2>1. /\ IsFrame(Headed(f5, n, LocalNetId(ip), ADDROUTE))
        /\ content(Headed(f5, n, LocalNetId(ip), ADDROUTE)) = HeadCells(ADDROUTE, LocalNetId(ip), n) \o content(f5)
        /\ HeadCells(ADDROUTE, LocalNetId(ip), n) \in Seq(S)
    BY <1>2, <1>9, WritesHeader DEF InFront
  <2>2. head = HeadCells(ADDROUTE, LocalNetId(ip), n)
    BY DEF RouteHead, n
  <2> QED
    BY <1>3, <2>1, <2>2
<1>11. head[3] = ADDROUTE /\ head[4] = LocalNetId(ip) /\ Len(head) = 5
  BY DEF RouteHead, HeadCells
<1>12. w(1) \in Seq(S) /\ w(2) \in Seq(S) /\ w(3) \in Seq(S) /\ w(4) \in Seq(S) /\ w(5) \in Seq(S)
  BY <1>5, <1>6, <1>7, <1>8, <1>9 DEF InFront
<1> HIDE DEF head, w
<1>13. content(f1) = w(1)
  BY <1>4, <1>5, <1>12, ConcatEmptySeq DEF InFront
<1>14. content(f5) = w(5) \o (w(4) \o (w(3) \o (w(2) \o w(1))))
  BY <1>6, <1>7, <1>8, <1>9, <1>13 DEF InFront
<1>15. head \o content(f5) = head \o w(5) \o w(4) \o w(3) \o w(2) \o w(1)
  <2>1. AllIn(S, head, w(5), w(4), w(3), w(2), w(1))
    BY <1>10, <1>12 DEF AllIn
  <2>2. FromTheRight(head, w(5), w(4), w(3), w(2), w(1)) = FromTheLeft(head, w(5), w(4), w(3), w(2), w(1))
    BY <2>1, JoinsSix
  <2> QED
    BY <1>14, <2>2 DEF FromTheRight, FromTheLeft
<1>16. content(AddRouteFrame(ip)) = RouteRequest(ip)
  BY <1>10, <1>15 DEF RouteRequest, head, w
<1>17. \A i \in 1..(Len(head) + Len(content(f5))) :
          (head \o content(f5))[i] = IF i <= Len(head) THEN head[i] ELSE content(f5)[i - Len(head)]
  BY <1>9, <1>10, ConcatProperties DEF InFront
<1>18. Len(content(f5)) \in Nat
  BY <1>9, LenProperties DEF InFront
<1>19. (head \o content(f5))[3] = head[3] /\ (head \o content(f5))[4] = head[4]
  <2>1. 3 \in 1..(Len(head) + Len(content(f5))) /\ 4 \in 1..(Len(head) + Len(content(f5)))
    BY <1>11, <1>18
  <2> QED
    <3>1. (head \o content(f5))[3] = IF 3 <= Len(head) THEN head[3] ELSE content(f5)[3 - Len(head)]
      BY <1>17, <2>1
    <3>2. (head \o content(f5))[4] = IF 4 <= Len(head) THEN head[4] ELSE content(f5)[4 - Len(head)]
      BY <1>17, <2>1
    <3> QED
      BY <1>11, <3>1, <3>2
<1> QED
  BY <1>10, <1>11, <1>16, <1>19

\* What GetRemoteAddress sends.
ServerInfoRequest == HeadCells(SERVERINFO, "no address", 0)

\* The frame of GetRemoteAddress holds that request.
LEMMA WritesInquiry ==
  IsFrame(ServerInfoFrame) /\ content(ServerInfoFrame) = ServerInfoRequest /\ ServerInfoRequest[3] = SERVERINFO
<1> DEFINE S == {Cookie, "no address"} \cup Int
           f == FrameOf(FrameCells \div 2)
<1>1. InvokeId \in Int /\ SERVERINFO \in Int
  BY DEF InvokeId, SERVERINFO
<1>2. IsFrame(f) /\ content(f) = <<>> /\ content(f) \in Seq(S)
  <2>1. FrameCells \div 2 \in Nat
    BY RouteAssumption
  <2> QED
    BY <2>1, NewFrame, EmptySeq
<1>3. ServerInfoFrame = Headed(f, 0, "no address", SERVERINFO)
  BY DEF ServerInfoFrame, Headed
<1>4. Cookie \in S /\ "no address" \in S /\ InvokeId \in S /\ SERVERINFO \in S /\ 0 \in S
  BY <1>1
<1> HIDE DEF S, f
<1>5. /\ IsFrame(ServerInfoFrame)
      /\ content(ServerInfoFrame) = ServerInfoRequest \o content(f)
      /\ ServerInfoRequest \in Seq(S)
  <2>1. /\ IsFrame(Headed(f, 0, "no address", SERVERINFO))
        /\ content(Headed(f, 0, "no address", SERVERINFO)) = HeadCells(SERVERINFO, "no address", 0) \o content(f)
        /\ HeadCells(SERVERINFO, "no address", 0) \in Seq(S)
    BY <1>2, <1>4, WritesHeader
  <2> QED
    BY <1>3, <2>1 DEF ServerInfoRequest
<1>6. ServerInfoRequest[3] = SERVERINFO
  BY DEF ServerInfoRequest, HeadCells
<1> QED
  BY <1>2, <1>5, <1>6, ConcatEmptySeq


-----------------------------------------------------------------------------
(* The answers that are received.                                          *)

\* A frame from which the first p cells have been read.
At(f, p) == [data |-> f.data, pos |-> p, size |-> f.size, originalSize |-> f.originalSize]

\* A frame that holds a datagram and nothing else.
Holds(f, cells) ==
    /\ f = At(f, 0) /\ f.size = Len(cells)
    /\ \A k \in 1..Len(cells) : (k - 1) \in DOMAIN f.data /\ f.data[k - 1] = cells[k]

\* A datagram that is not longer than the frame is received whole.
LEMMA ReceivesWhole ==
  ASSUME NEW g, IsFrame(g), NEW S, NEW cells \in Seq(S), Len(cells) <= g.size
  PROVE  Holds(received(g, cells), cells) /\ IsFrame(received(g, cells))
<1> DEFINE f == received(g, cells)
           n == Len(cells)
<1>1. n \in Nat /\ g.size \in Nat /\ g.originalSize \in Nat /\ g.size <= g.originalSize /\ n <= g.size
  BY LenProperties DEF IsFrame
<1>2. Smaller(Len(cells), g.size) = n
  BY <1>1 DEF Smaller
<1>3. SubSeq(cells, 1, n) = cells
  BY SubSeqFull
<1> DEFINE h == [data |-> Copied(g.data, 0, cells), pos |-> g.pos, size |-> g.size, originalSize |-> g.originalSize]
<1>4. [g EXCEPT !.data = Copied(@, 0, SubSeq(cells, 1, Smaller(Len(cells), g.size)))] = h
  <2>1. g = [data |-> g.data, pos |-> g.pos, size |-> g.size, originalSize |-> g.originalSize]
    BY DEF IsFrame
  <2>2. SubSeq(cells, 1, Smaller(Len(cells), g.size)) = cells
    BY <1>2, <1>3
  <2>3. PICK d : d = Copied(g.data, 0, cells)
    OBVIOUS
  <2>4. [g EXCEPT !.data = d] = [data |-> d, pos |-> g.pos, size |-> g.size, originalSize |-> g.originalSize]
    BY <2>1
  <2> QED
    BY <2>2, <2>3, <2>4
<1>5. f = limit(h, n)
  BY <1>2, <1>4 DEF received
<1>6. h.data = Copied(g.data, 0, cells) /\ h.pos = g.pos /\ h.size = g.size /\ h.originalSize = g.originalSize
  BY Record4
<1>7. f = [data |-> Copied(g.data, 0, cells), pos |-> 0, size |-> n, originalSize |-> g.originalSize]
  <2>1. f = [h EXCEPT !.size = Smaller(h.size, n), !.pos = 0]
    BY <1>5 DEF limit
  <2>2. Smaller(h.size, n) = n
    BY <1>1, <1>6 DEF Smaller
  <2> QED
    BY <2>1, <2>2
<1> HIDE DEF f, h
<1>8. f.data = Copied(g.data, 0, cells) /\ f.pos = 0 /\ f.size = n /\ f.originalSize = g.originalSize
  BY <1>7, Record4
<1>9. DOMAIN g.data = 0..(g.originalSize - 1)
  BY DEF IsFrame
<1>10. f.data = [i \in 0..(g.originalSize - 1) |-> IF i >= 0 /\ i - 0 < n THEN cells[i - 0 + 1] ELSE g.data[i]]
  BY <1>8, <1>9 DEF Copied
<1>11. ASSUME NEW k \in 1..n
       PROVE  (k - 1) \in DOMAIN f.data /\ f.data[k - 1] = cells[k]
  <2>1. k - 1 \in 0..(g.originalSize - 1) /\ k - 1 >= 0 /\ (k - 1) - 0 < n /\ (k - 1) - 0 + 1 = k
    BY <1>1
  <2> QED
    BY <1>10, <2>1
<1>12. IsFrame(f)
  <2>1. f.data = [i \in 0..(f.originalSize - 1) |-> f.data[i]]
    BY <1>8, <1>10
  <2> QED
    BY <1>1, <1>7, <1>8, <2>1 DEF IsFrame
<1> QED
  BY <1>7, <1>8, <1>11, <1>12 DEF Holds, At, f

\* Reading on in it, and what is read.
LEMMA Reads ==
  ASSUME NEW f, NEW S, NEW cells \in Seq(S), Holds(f, cells), NEW p \in Nat, p < Len(cells)
  PROVE  /\ Peek(At(f, p)) = cells[p + 1]
         /\ popped(At(f, p)) = At(f, p + 1)
         /\ \A n \in Nat : p + n <= Len(cells) => remove(At(f, p), n) = At(f, p + n)
<1>1. Len(cells) \in Nat /\ f.size = Len(cells)
  BY LenProperties DEF Holds
<1>2. /\ At(f, p).data = f.data /\ At(f, p).pos = p /\ At(f, p).size = f.size
      /\ At(f, p).originalSize = f.originalSize
  BY Record4 DEF At
<1>3. p + 1 \in 1..Len(cells) /\ (p + 1) - 1 = p
  BY <1>1
<1>4. p \in DOMAIN f.data /\ f.data[p] = cells[p + 1]
  BY <1>3 DEF Holds
<1>5. ~(At(f, p).size < 1) /\ At(f, p).size >= 1
  BY <1>1, <1>2
<1>6. Peek(At(f, p)) = cells[p + 1]
  BY <1>2, <1>4, <1>5 DEF Peek, capacity
<1>7. ASSUME NEW n \in Nat, p + n <= Len(cells)
      PROVE  remove(At(f, p), n) = At(f, p + n)
  <2>1. Smaller(At(f, p).pos + n, At(f, p).size) = p + n
    BY <1>1, <1>2, <1>7 DEF Smaller
  <2>2. remove(At(f, p), n) = [At(f, p) EXCEPT !.pos = p + n]
    BY <2>1 DEF remove
  <2> QED
    BY <2>2 DEF At
<1>8. popped(At(f, p)) = At(f, p + 1)
  <2>1. p + 1 <= Len(cells)
    BY <1>1
  <2> QED
    BY <1>7, <2>1 DEF popped
<1> QED
  BY <1>6, <1>7, <1>8

\* The frame at the first and at the second tag.
LEMMA AtTags ==
  ASSUME NEW f, NEW n \in 1..2
  PROVE  AtTag(f, n)[0] = f /\ AtTag(f, n)[1] = SkipTag(f)
<1> DEFINE step(at) == [k \in 0..n |-> IF k = 0 THEN f ELSE SkipTag(at[k - 1])]
           w == [k \in 0..n |-> IF k = 0 THEN f ELSE IF k = 1 THEN SkipTag(f) ELSE SkipTag(SkipTag(f))]
<1>1. AtTag(f, n) = CHOOSE at : at = step(at)
  BY DEF AtTag
<1>2. w = step(w)
  <2>1. ASSUME NEW k \in 0..n
        PROVE  w[k] = step(w)[k]
    <3>1. CASE k = 0
      BY <3>1
    <3>2. CASE k = 1
      <4>1. k - 1 = 0 /\ 0 \in 0..n /\ k # 0
        BY <3>2
      <4> QED
        BY <3>2, <4>1
    <3>3. CASE k # 0 /\ k # 1
      <4>1. k - 1 = 1 /\ 1 \in 0..n
        BY <3>3
      <4> QED
        BY <3>3, <4>1
    <3> QED
      BY <3>1, <3>2, <3>3
  <2> QED
    BY <2>1
<1>3. AtTag(f, n) = step(AtTag(f, n))
  BY <1>1, <1>2
<1> HIDE DEF w
<1>4. 0 \in 0..n /\ 1 \in 0..n /\ 1 - 1 = 0
  OBVIOUS
<1> QED
  BY <1>3, <1>4

\* The code in the answer of a target that sends the result alone.
LEMMA ReadsResult ==
  ASSUME NEW f, NEW S, NEW cells \in Seq(S), Holds(f, cells), Len(cells) = 8,
         cells[5] = 1, cells[6] = RESULT, cells[7] = 1
  PROVE  AddRouteStatus(f) = cells[8]
<1>1. f = At(f, 0) /\ capacity(f) = 8
  BY DEF Holds, capacity
<1>2. /\ \A p \in Nat : p < 8 => Peek(At(f, p)) = cells[p + 1] /\ popped(At(f, p)) = At(f, p + 1)
      /\ remove(At(f, 0), 4) = At(f, 4)
  <2>1. ASSUME NEW p \in Nat, p < 8
        PROVE  Peek(At(f, p)) = cells[p + 1] /\ popped(At(f, p)) = At(f, p + 1)
    BY <2>1, Reads
  <2>2. remove(At(f, 0), 4) = At(f, 0 + 4)
    <3>1. \A n \in Nat : 0 + n <= 8 => remove(At(f, 0), n) = At(f, 0 + n)
      BY Reads
    <3> QED
      BY <3>1
  <2> QED
    BY <2>1, <2>2
<1>3. Peek(At(f, 4)) = 1 /\ popped(At(f, 4)) = At(f, 5)
  BY <1>2
<1>4. Peek(At(f, 5)) = RESULT /\ popped(At(f, 5)) = At(f, 6)
  BY <1>2
<1>5. Peek(At(f, 6)) = 1 /\ popped(At(f, 6)) = At(f, 7)
  BY <1>2
<1>6. Peek(At(f, 7)) = cells[8]
  BY <1>2
<1>7. AddRouteStatus(f) = ResponseCode(At(f, 5), 1)
  BY <1>1, <1>2, <1>3 DEF AddRouteStatus
<1> DEFINE at == AtTag(At(f, 5), 1)
           results == {k \in 0..(1 - 1) : IsResult(Peek(at[k]))}
<1>8. at[0] = At(f, 5)
  BY AtTags
<1> HIDE DEF at
<1>9. results = {0}
  BY <1>4, <1>8 DEF IsResult
<1> HIDE DEF results
<1>10. (CHOOSE k \in results : \A j \in results : k <= j) = 0
  BY <1>9
<1> QED
  BY <1>4, <1>5, <1>6, <1>7, <1>8, <1>9, <1>10 DEF ResponseCode, at, results

\* The code in the answer of a target that sends another tag first.
LEMMA ReadsResultBehindTag ==
  ASSUME NEW f, NEW S, NEW cells \in Seq(S), Holds(f, cells), Len(cells) = 11,
         cells[5] = 2, cells[6] = 3, cells[7] = 1, cells[9] = RESULT, cells[10] = 1
  PROVE  AddRouteStatus(f) = cells[11]
<1>1. f = At(f, 0) /\ capacity(f) = 11
  BY DEF Holds, capacity
<1>2. /\ \A p \in Nat : p < 11 => Peek(At(f, p)) = cells[p + 1] /\ popped(At(f, p)) = At(f, p + 1)
      /\ remove(At(f, 0), 4) = At(f, 4)
      /\ remove(At(f, 7), 1) = At(f, 8)
  <2>1. ASSUME NEW p \in Nat, p < 11
        PROVE  Peek(At(f, p)) = cells[p + 1] /\ popped(At(f, p)) = At(f, p + 1)
    BY <2>1, Reads
  <2>2. remove(At(f, 0), 4) = At(f, 0 + 4)
    <3>1. \A n \in Nat : 0 + n <= 11 => remove(At(f, 0), n) = At(f, 0 + n)
      BY Reads
    <3> QED
      BY <3>1
  <2>3. remove(At(f, 7), 1) = At(f, 7 + 1)
    <3>1. ASSUME NEW p \in Nat, p < 11
          PROVE  \A n \in Nat : p + n <= 11 => remove(At(f, p), n) = At(f, p + n)
      BY <3>1, Reads
    <3> QED
      BY <3>1
  <2> QED
    BY <2>1, <2>2, <2>3
<1>3. Peek(At(f, 4)) = 2 /\ popped(At(f, 4)) = At(f, 5)
  BY <1>2
<1>4. Peek(At(f, 5)) = 3 /\ popped(At(f, 5)) = At(f, 6)
  BY <1>2
<1>5. Peek(At(f, 6)) = 1 /\ popped(At(f, 6)) = At(f, 7)
  BY <1>2
<1>6. remove(At(f, 7), 1) = At(f, 8)
  BY <1>2
<1>7. Peek(At(f, 8)) = RESULT /\ popped(At(f, 8)) = At(f, 9)
  BY <1>2
<1>8. Peek(At(f, 9)) = 1 /\ popped(At(f, 9)) = At(f, 10)
  BY <1>2
<1>9. Peek(At(f, 10)) = cells[11]
  BY <1>2
<1>10. SkipTag(At(f, 5)) = At(f, 8)
  BY <1>4, <1>5, <1>6 DEF SkipTag
<1>11. AddRouteStatus(f) = ResponseCode(At(f, 5), 2)
  BY <1>1, <1>2, <1>3 DEF AddRouteStatus
<1> DEFINE at == AtTag(At(f, 5), 2)
           results == {k \in 0..(2 - 1) : IsResult(Peek(at[k]))}
<1>12. at[0] = At(f, 5) /\ at[1] = At(f, 8)
  BY <1>10, AtTags
<1> HIDE DEF at
<1>13. results = {1}
  <2>1. ~IsResult(Peek(at[0])) /\ IsResult(Peek(at[1]))
    BY <1>4, <1>7, <1>12 DEF IsResult, RESULT
  <2> QED
    BY <2>1
<1> HIDE DEF results
<1>14. (CHOOSE k \in results : \A j \in results : k <= j) = 1
  BY <1>13
<1> QED
  BY <1>7, <1>8, <1>9, <1>11, <1>12, <1>13, <1>14 DEF ResponseCode, at, results

\* What a target answers to GetRemoteAddress, and to AddRemoteRoute.
AnswerHead(h, serviceId) == <<Cookie, InvokeId, RESPONSE + serviceId, h.netId>>
ResultOf(h, code) == IF h.extraTag THEN <<2, 3, 1, "NOERR", RESULT, 1, code>> ELSE <<1, RESULT, 1, code>>
ToldCells(h) == AnswerHead(h, SERVERINFO) \o <<0>>
EnteredCells(h, code) == AnswerHead(h, ADDROUTE) \o ResultOf(h, code)

AnswerFields(h, code) == {Cookie, h.netId, "NOERR", code} \cup Int

\* Where the fields behind the header of an answer stand.
LEMMA BehindHead ==
  ASSUME NEW S, NEW s \in Seq(S), NEW t \in Seq(S), Len(s) = 4
  PROVE  /\ s \o t \in Seq(S) /\ Len(s \o t) = 4 + Len(t)
         /\ \A k \in 1..4 : (s \o t)[k] = s[k]
         /\ \A k \in 1..Len(t) : (s \o t)[4 + k] = t[k]
<1>1. Len(t) \in Nat /\ s \o t \in Seq(S) /\ Len(s \o t) = 4 + Len(t)
  <2>1. s \o t \in Seq(S) /\ Len(s \o t) = Len(s) + Len(t)
    BY ConcatProperties
  <2>2. Len(t) \in Nat
    BY LenProperties
  <2> QED
    BY <2>1, <2>2
<1>2. \A i \in 1..(4 + Len(t)) : (s \o t)[i] = IF i <= 4 THEN s[i] ELSE t[i - 4]
  <2>1. \A i \in 1..(Len(s) + Len(t)) : (s \o t)[i] = IF i <= Len(s) THEN s[i] ELSE t[i - Len(s)]
    BY ConcatProperties
  <2> QED
    BY <2>1
<1>3. ASSUME NEW k \in 1..4
      PROVE  (s \o t)[k] = s[k]
  BY <1>1, <1>2
<1>4. ASSUME NEW k \in 1..Len(t)
      PROVE  (s \o t)[4 + k] = t[k]
  <2>1. 4 + k \in 1..(4 + Len(t)) /\ ~(4 + k <= 4) /\ (4 + k) - 4 = k
    BY <1>1
  <2> QED
    BY <1>2, <2>1
<1> QED
  BY <1>1, <1>3, <1>4

\* The header of an answer.
LEMMA HeadFields ==
  ASSUME NEW h, NEW code, NEW serviceId \in Int
  PROVE  LET s == AnswerHead(h, serviceId)
         IN /\ s \in Seq(AnswerFields(h, code)) /\ Len(s) = 4
            /\ s[1] = Cookie /\ s[2] = InvokeId /\ s[3] = RESPONSE + serviceId /\ s[4] = h.netId
<1>1. InvokeId \in Int /\ RESPONSE + serviceId \in Int
  BY DEF InvokeId, RESPONSE
<1>2. /\ Cookie \in AnswerFields(h, code) /\ InvokeId \in AnswerFields(h, code)
      /\ RESPONSE + serviceId \in AnswerFields(h, code) /\ h.netId \in AnswerFields(h, code)
  BY <1>1 DEF AnswerFields
<1> QED
  BY <1>2 DEF AnswerHead

\* The answer that tells the NetId.
LEMMA ToldFields ==
  ASSUME NEW h
  PROVE  LET c == ToldCells(h)
         IN /\ c \in Seq(AnswerFields(h, "NOERR")) /\ Len(c) = 5
            /\ c[1] = Cookie /\ c[2] = InvokeId /\ c[3] = RESPONSE + SERVERINFO /\ c[4] = h.netId
<1> DEFINE S == AnswerFields(h, "NOERR")
           s == AnswerHead(h, SERVERINFO)
           t == <<0>>
<1>1. SERVERINFO \in Int /\ 0 \in S
  BY DEF SERVERINFO, AnswerFields
<1>2. s \in Seq(S) /\ Len(s) = 4
  BY <1>1, HeadFields
<1>3. s[1] = Cookie /\ s[2] = InvokeId /\ s[3] = RESPONSE + SERVERINFO /\ s[4] = h.netId
  BY <1>1, HeadFields
<1> HIDE DEF s, S
<1>4. t \in Seq(S) /\ Len(t) = 1
  BY <1>1
<1> HIDE DEF t
<1>5. s \o t \in Seq(S) /\ Len(s \o t) = 4 + Len(t) /\ \A k \in 1..4 : (s \o t)[k] = s[k]
  BY <1>2, <1>4, BehindHead
<1>6. ToldCells(h) = s \o t
  BY DEF ToldCells, s, t
<1>7. Len(s \o t) = 5
  BY <1>4, <1>5
<1>8. (s \o t)[1] = s[1] /\ (s \o t)[2] = s[2] /\ (s \o t)[3] = s[3] /\ (s \o t)[4] = s[4]
  BY <1>5
<1> QED
  BY <1>3, <1>5, <1>6, <1>7, <1>8 DEF S

\* The answer that carries the result, with a tag in front of it or without one.
LEMMA EnteredFields ==
  ASSUME NEW h, NEW code
  PROVE  LET c == EnteredCells(h, code)
             n == IF h.extraTag THEN 11 ELSE 8
         IN /\ c \in Seq(AnswerFields(h, code)) /\ Len(c) = n
            /\ c[1] = Cookie /\ c[2] = InvokeId /\ c[3] = RESPONSE + ADDROUTE /\ c[n] = code
            /\ IF h.extraTag THEN c[5] = 2 /\ c[6] = 3 /\ c[7] = 1 /\ c[9] = RESULT /\ c[10] = 1
               ELSE c[5] = 1 /\ c[6] = RESULT /\ c[7] = 1
<1> DEFINE S == AnswerFields(h, code)
           s == AnswerHead(h, ADDROUTE)
           t == ResultOf(h, code)
           c == s \o t
<1>1. ADDROUTE \in Int /\ RESULT \in Int
  BY DEF ADDROUTE, RESULT
<1>2. s \in Seq(S) /\ Len(s) = 4 /\ s[1] = Cookie /\ s[2] = InvokeId /\ s[3] = RESPONSE + ADDROUTE
  BY <1>1, HeadFields
<1>3. 1 \in S /\ 2 \in S /\ 3 \in S /\ RESULT \in S /\ "NOERR" \in S /\ code \in S
  BY <1>1 DEF AnswerFields
<1> HIDE DEF s, S
<1>4. EnteredCells(h, code) = c
  BY DEF EnteredCells, s
<1>5. CASE h.extraTag
  <2>1. t = <<2, 3, 1, "NOERR", RESULT, 1, code>>
    BY <1>5 DEF ResultOf
  <2>2. t \in Seq(S) /\ Len(t) = 7
    BY <1>3, <2>1
  <2>3. t[1] = 2 /\ t[2] = 3 /\ t[3] = 1 /\ t[5] = RESULT /\ t[6] = 1 /\ t[7] = code
    BY <2>1
  <2> HIDE DEF t
  <2>4. c \in Seq(S) /\ Len(c) = 4 + 7
    <3>1. c \in Seq(S) /\ Len(c) = 4 + Len(t)
      BY <1>2, <2>2, BehindHead
    <3> QED
      BY <2>2, <3>1
  <2>5. \A k \in 1..4 : c[k] = s[k]
    BY <1>2, <2>2, BehindHead
  <2>6. \A k \in 1..7 : c[4 + k] = t[k]
    <3>1. Len(s) = 4 /\ s \in Seq(S) /\ t \in Seq(S)
      BY <1>2, <2>2
    <3>2. \A k \in 1..Len(t) : (s \o t)[4 + k] = t[k]
      BY <3>1, BehindHead, SMTT(30)
    <3> QED
      BY <2>2, <3>2
  <2> HIDE DEF c
  <2>7. c[1] = s[1] /\ c[2] = s[2] /\ c[3] = s[3]
    BY <2>5
  <2>8. c[4 + 1] = t[1] /\ c[4 + 2] = t[2] /\ c[4 + 3] = t[3] /\ c[4 + 5] = t[5] /\ c[4 + 6] = t[6] /\ c[4 + 7] = t[7]
    BY <2>6
  <2>9. c[5] = 2 /\ c[6] = 3 /\ c[7] = 1 /\ c[9] = RESULT /\ c[10] = 1 /\ c[11] = code
    BY <2>3, <2>8
  <2> QED
    BY <1>2, <1>4, <1>5, <2>4, <2>7, <2>9 DEF S
<1>6. CASE ~h.extraTag
  <2>1. t = <<1, RESULT, 1, code>>
    BY <1>6 DEF ResultOf
  <2>2. t \in Seq(S) /\ Len(t) = 4
    BY <1>3, <2>1
  <2>3. t[1] = 1 /\ t[2] = RESULT /\ t[3] = 1 /\ t[4] = code
    BY <2>1
  <2> HIDE DEF t
  <2>4. c \in Seq(S) /\ Len(c) = 4 + 4
    BY <1>2, <2>2, BehindHead
  <2>5. \A k \in 1..4 : c[k] = s[k]
    BY <1>2, <2>2, BehindHead
  <2>6. \A k \in 1..4 : c[4 + k] = t[k]
    BY <1>2, <2>2, BehindHead
  <2> HIDE DEF c
  <2>7. c[1] = s[1] /\ c[2] = s[2] /\ c[3] = s[3]
    BY <2>5
  <2>8. c[4 + 1] = t[1] /\ c[4 + 2] = t[2] /\ c[4 + 3] = t[3] /\ c[4 + 4] = t[4]
    BY <2>6
  <2>9. c[5] = 1 /\ c[6] = RESULT /\ c[7] = 1 /\ c[8] = code
    BY <2>3, <2>8
  <2> QED
    BY <1>2, <1>4, <1>6, <2>4, <2>7, <2>9 DEF S
<1> QED
  BY <1>5, <1>6

-----------------------------------------------------------------------------
(* The inductive invariant.                                                *)

\* A request is one of the two that are built here, and goes to the target it was built for.
RequestsInv ==
    \A r \in requests :
        /\ r.to \in Hosts
        /\ \/ r.cells = ServerInfoRequest
           \/ r.cells = RouteRequest(getLocalIpForTarget(r.to))

Asked(h, p) == \E r \in requests : r.from = p /\ r.to = h

\* An answer is that of a target that was asked from the port it goes to, and an accepted route has
\* been entered.
AnswersInv ==
    \A a \in answers : \E h \in Hosts :
        /\ Asked(h, a.to)
        /\ \/ a.cells = ToldCells(h)
           \/ a.cells = EnteredCells(h, Refusal)
           \/ a.cells = EnteredCells(h, "NOERR") /\ WayBack(h) \in remoteRoutes

Told(n) == n # None /\ \E h \in Hosts : n = h.netId
SomeWayBack == \E h \in Hosts : WayBack(h) \in remoteRoutes

ThreadOk(t) ==
    /\ host[t] \in Hosts
    /\ IsFrame(frame[t])
    /\ netId[t] = None \/ Told(netId[t])
    /\ pc[t] = "send" =>
         frame[t] = IF netId[t] = None THEN ServerInfoFrame ELSE AddRouteFrame(getLocalIpForTarget(host[t]))
    /\ pc[t] = "receive" => frame[t].size >= ResponseCells
    /\ pc[t] = "add" => Told(netId[t]) /\ SomeWayBack
ThreadsInv == \A t \in Threads : ThreadOk(t)

\* A local route bears the NetId that some target has told, and some target has entered the way back
\* to the local NetId that belongs to its address.
LocalRoutesInv ==
    \A r \in localRoutes : r.host \in Hosts /\ Told(r.netId) /\ SomeWayBack

FunctionsInv ==
    /\ pc = [t \in Threads |-> pc[t]]
    /\ host = [t \in Threads |-> host[t]]
    /\ netId = [t \in Threads |-> netId[t]]
    /\ frame = [t \in Threads |-> frame[t]]

RouteInv == FunctionsInv /\ RequestsInv /\ AnswersInv /\ ThreadsInv /\ LocalRoutesInv

\* The invariant holds at first.
LEMMA InitRoute == Init => RouteInv
<1> SUFFICES ASSUME Init
             PROVE  RouteInv
  OBVIOUS
<1>1. FunctionsInv
  BY DEF Init, FunctionsInv
<1>2. RequestsInv /\ AnswersInv /\ LocalRoutesInv
  BY DEF Init, RequestsInv, AnswersInv, LocalRoutesInv
<1>3. ASSUME NEW t \in Threads
      PROVE  ThreadOk(t)
  <2>1. pc[t] = "idle" /\ netId[t] = None /\ host[t] \in Hosts /\ frame[t] = FrameOf(0)
    BY DEF Init
  <2>2. IsFrame(frame[t])
    BY <2>1, NewFrame
  <2> QED
    BY <2>1, <2>2 DEF ThreadOk
<1> QED
  BY <1>1, <1>2, <1>3 DEF RouteInv, ThreadsInv

\* A thread that takes no part in a step, and routes that are only added at the targets.
LEMMA ThreadKeeps ==
  ASSUME NEW t, ThreadOk(t), pc'[t] = pc[t], host'[t] = host[t], netId'[t] = netId[t], frame'[t] = frame[t],
         remoteRoutes \subseteq remoteRoutes'
  PROVE  ThreadOk(t)'
<1>1. SomeWayBack => SomeWayBack'
  BY DEF SomeWayBack, WayBack
<1>2. Told(netId[t]) => Told(netId[t])'
  BY DEF Told
<1> QED
  BY <1>1, <1>2 DEF ThreadOk

\* A step of one thread, seen by all of them.
LEMMA OthersKeep ==
  ASSUME ThreadsInv, NEW t \in Threads, ThreadOk(t)', remoteRoutes \subseteq remoteRoutes',
         \A u \in Threads : u # t =>
            pc'[u] = pc[u] /\ host'[u] = host[u] /\ netId'[u] = netId[u] /\ frame'[u] = frame[u]
  PROVE  ThreadsInv'
<1>1. ASSUME NEW u \in Threads, u # t
      PROVE  ThreadOk(u)'
  <2>1. ThreadOk(u) /\ pc'[u] = pc[u] /\ host'[u] = host[u] /\ netId'[u] = netId[u] /\ frame'[u] = frame[u]
    BY <1>1 DEF ThreadsInv
  <2> QED
    BY <2>1, ThreadKeeps
<1> QED
  BY <1>1 DEF ThreadsInv

\* What is kept while no datagram and no route is added.
LEMMA StoresKeep ==
  ASSUME RequestsInv, AnswersInv, LocalRoutesInv, UNCHANGED <<requests, answers, remoteRoutes, localRoutes>>
  PROVE  RequestsInv' /\ AnswersInv' /\ LocalRoutesInv'
<1>1. SomeWayBack => SomeWayBack'
  BY DEF SomeWayBack, WayBack
<1>2. RequestsInv'
  BY DEF RequestsInv
<1>3. AnswersInv'
  BY DEF AnswersInv, WayBack, Asked
<1>4. LocalRoutesInv'
  BY <1>1 DEF LocalRoutesInv, Told
<1> QED
  BY <1>2, <1>3, <1>4

\* A call that returns: its NetId is kept, or is one that a target has told.
LEMMA Returns ==
  ASSUME FunctionsInv, ThreadsInv, NEW t \in Threads, NEW code, Return(t, code), host' = host,
         remoteRoutes' = remoteRoutes, NEW n, n = None \/ Told(n), netId' = [netId EXCEPT ![t] = n]
  PROVE  FunctionsInv' /\ ThreadsInv'
<1>1. pc' = [pc EXCEPT ![t] = "idle"] /\ frame' = [frame EXCEPT ![t] = FrameOf(0)]
  BY DEF Return, Goto
<1>2. FunctionsInv'
  BY <1>1 DEF FunctionsInv
<1>3. pc'[t] = "idle" /\ frame'[t] = FrameOf(0) /\ netId'[t] = n /\ host'[t] = host[t]
  BY <1>1 DEF FunctionsInv
<1>4. IsFrame(frame'[t])
  BY <1>3, NewFrame
<1>5. host[t] \in Hosts
  BY DEF ThreadsInv, ThreadOk
<1>6. Told(n) => Told(n)'
  BY DEF Told
<1>7. ThreadOk(t)'
  BY <1>3, <1>4, <1>5, <1>6 DEF ThreadOk, Told
<1>8. \A u \in Threads : u # t =>
         pc'[u] = pc[u] /\ host'[u] = host[u] /\ netId'[u] = netId[u] /\ frame'[u] = frame[u]
  BY <1>1 DEF FunctionsInv
<1> QED
  BY <1>2, <1>7, <1>8, OthersKeep

\* A call that returns and changes nothing else.
LEMMA ReturnsOnly ==
  ASSUME RouteInv, NEW t \in Threads, NEW code, Return(t, code), UNCHANGED <<locals, network>>
  PROVE  FunctionsInv' /\ ThreadsInv'
<1>1. host' = host /\ remoteRoutes' = remoteRoutes /\ netId' = netId
  BY DEF locals, network
<1>2. FunctionsInv /\ ThreadsInv
  BY DEF RouteInv
<1>3. netId[t] = None \/ Told(netId[t])
  BY <1>2 DEF ThreadsInv, ThreadOk
<1>4. netId' = [netId EXCEPT ![t] = netId[t]]
  BY <1>1, <1>2 DEF FunctionsInv
<1>5. PICK n : n = netId[t]
  OBVIOUS
<1>6. (n = None \/ Told(n)) /\ netId' = [netId EXCEPT ![t] = n]
  BY <1>3, <1>4, <1>5
<1> QED
  BY <1>1, <1>2, <1>6, Returns

\* InitRouting or GetDeviceNetId is called.
LEMMA CallStep ==
  ASSUME RouteInv, NEW t \in Threads, NEW kind, NEW h \in Hosts, Call(t, kind, h)
  PROVE  RouteInv'
<1>1. /\ pc' = [pc EXCEPT ![t] = "send"] /\ host' = [host EXCEPT ![t] = h] /\ netId' = [netId EXCEPT ![t] = None]
      /\ frame' = [frame EXCEPT ![t] = ServerInfoFrame]
      /\ UNCHANGED <<requests, answers, remoteRoutes, localRoutes>>
  BY DEF Call, Goto, network
<1>2. FunctionsInv /\ ThreadsInv /\ RequestsInv /\ AnswersInv /\ LocalRoutesInv
  BY DEF RouteInv
<1>3. FunctionsInv'
  BY <1>1, <1>2 DEF FunctionsInv
<1>4. pc'[t] = "send" /\ host'[t] = h /\ netId'[t] = None /\ frame'[t] = ServerInfoFrame
  BY <1>1, <1>2 DEF FunctionsInv
<1>5. IsFrame(frame'[t])
  BY <1>4, WritesInquiry
<1>6. ThreadOk(t)'
  BY <1>4, <1>5 DEF ThreadOk
<1>7. \A u \in Threads : u # t =>
         pc'[u] = pc[u] /\ host'[u] = host[u] /\ netId'[u] = netId[u] /\ frame'[u] = frame[u]
  BY <1>1, <1>2 DEF FunctionsInv
<1>8. ThreadsInv'
  BY <1>1, <1>2, <1>6, <1>7, OthersKeep
<1>9. RequestsInv' /\ AnswersInv' /\ LocalRoutesInv'
  BY <1>1, <1>2, StoresKeep
<1> QED
  BY <1>3, <1>8, <1>9 DEF RouteInv

\* A frame that is reset has at least the room that was asked for.
LEMMA Resets ==
  ASSUME NEW f, IsFrame(f), NEW n \in Nat
  PROVE  IsFrame(reset(f, n)) /\ reset(f, n).size >= n
<1>1. CASE n > f.originalSize
  <2>1. reset(f, n) = FrameOf(n)
    BY <1>1 DEF reset
  <2> QED
    BY <2>1, NewFrame
<1>2. CASE ~(n > f.originalSize)
  <2>1. f.originalSize \in Nat /\ f = [data |-> f.data, pos |-> f.pos, size |-> f.size, originalSize |-> f.originalSize]
        /\ f.data = [i \in 0..(f.originalSize - 1) |-> f.data[i]]
    BY DEF IsFrame
  <2>2. reset(f, n) = [f EXCEPT !.size = f.originalSize, !.pos = f.originalSize]
    BY <1>2 DEF reset
  <2> DEFINE g == [data |-> f.data, pos |-> f.originalSize, size |-> f.originalSize, originalSize |-> f.originalSize]
  <2>3. reset(f, n) = g
    BY <2>1, <2>2
  <2>4. g.data = f.data /\ g.pos = f.originalSize /\ g.size = f.originalSize /\ g.originalSize = f.originalSize
    BY Record4
  <2>5. g = [data |-> g.data, pos |-> g.pos, size |-> g.size, originalSize |-> g.originalSize]
    BY <2>4
  <2>6. f.originalSize >= n
    BY <1>2, <2>1
  <2> HIDE DEF g
  <2>7. g.data = [i \in 0..(g.originalSize - 1) |-> g.data[i]]
    BY <2>1, <2>4
  <2>8. IsFrame(g)
    BY <2>1, <2>4, <2>5, <2>7 DEF IsFrame
  <2> QED
    BY <2>3, <2>4, <2>6, <2>8
<1> QED
  BY <1>1, <1>2

\* SendRecv sends its frame.
LEMMA SendStep ==
  ASSUME RouteInv, NEW t \in Threads, NEW p, Send(t, p)
  PROVE  RouteInv'
<1>1. /\ pc[t] = "send" /\ pc' = [pc EXCEPT ![t] = "receive"] /\ host' = host /\ netId' = netId
      /\ frame' = [frame EXCEPT ![t] = reset(@, ResponseCells)]
      /\ requests' = requests \cup {Datagram(t, p)}
      /\ UNCHANGED <<answers, remoteRoutes, localRoutes>>
  BY DEF Send, Goto, locals
<1>2. FunctionsInv /\ ThreadsInv /\ RequestsInv /\ AnswersInv /\ LocalRoutesInv
  BY DEF RouteInv
<1>3. FunctionsInv'
  BY <1>1, <1>2 DEF FunctionsInv
<1>4. pc'[t] = "receive" /\ frame'[t] = reset(frame[t], ResponseCells)
  BY <1>1, <1>2 DEF FunctionsInv
<1>5. /\ host[t] \in Hosts /\ IsFrame(frame[t]) /\ (netId[t] = None \/ Told(netId[t]))
      /\ frame[t] = IF netId[t] = None THEN ServerInfoFrame ELSE AddRouteFrame(getLocalIpForTarget(host[t]))
  BY <1>1, <1>2 DEF ThreadsInv, ThreadOk
<1>6. IsFrame(frame'[t]) /\ frame'[t].size >= ResponseCells
  <2>1. PICK f : f = frame[t]
    OBVIOUS
  <2>2. IsFrame(reset(f, ResponseCells)) /\ reset(f, ResponseCells).size >= ResponseCells
    BY <1>5, <2>1, Resets, RouteAssumption
  <2> QED
    BY <1>4, <2>1, <2>2
<1>7. Told(netId[t]) => Told(netId[t])'
  BY <1>1 DEF Told
<1>8. ThreadOk(t)'
  BY <1>1, <1>4, <1>5, <1>6, <1>7 DEF ThreadOk
<1>9. \A u \in Threads : u # t =>
         pc'[u] = pc[u] /\ host'[u] = host[u] /\ netId'[u] = netId[u] /\ frame'[u] = frame[u]
  BY <1>1, <1>2 DEF FunctionsInv
<1>10. ThreadsInv'
  BY <1>1, <1>2, <1>8, <1>9, OthersKeep
<1>11. \/ content(frame[t]) = ServerInfoRequest
       \/ content(frame[t]) = RouteRequest(getLocalIpForTarget(host[t]))
  BY <1>5, WritesInquiry, WritesRequest
<1>12. Datagram(t, p).to = host[t] /\ Datagram(t, p).cells = content(frame[t])
  BY DEF Datagram
<1>13. RequestsInv'
  <2>1. PICK d : d = Datagram(t, p)
    OBVIOUS
  <2>2. d.to \in Hosts /\ (d.cells = ServerInfoRequest \/ d.cells = RouteRequest(getLocalIpForTarget(d.to)))
    BY <1>5, <1>11, <1>12, <2>1
  <2>3. requests' = requests \cup {d}
    BY <1>1, <2>1
  <2> QED
    BY <1>2, <2>2, <2>3 DEF RequestsInv
<1>14. AnswersInv'
  <2>1. \A h, q : Asked(h, q) => Asked(h, q)'
    BY <1>1 DEF Asked
  <2> QED
    BY <1>1, <1>2, <2>1 DEF AnswersInv, WayBack
<1>15. LocalRoutesInv'
  <2>1. SomeWayBack => SomeWayBack'
    BY <1>1 DEF SomeWayBack, WayBack
  <2> QED
    BY <1>1, <1>2, <2>1 DEF LocalRoutesInv, Told
<1> QED
  BY <1>3, <1>10, <1>13, <1>14, <1>15 DEF RouteInv

\* An exception, a timeout or an error ends the call.
LEMMA LeavesStep ==
  ASSUME RouteInv, NEW t \in Threads,
         UnknownHost(t) \/ NoSocket(t) \/ SelectTimesOut(t) \/ ReadFails(t)
  PROVE  RouteInv'
<1>1. \E code : Return(t, code) /\ UNCHANGED <<locals, network, localRoutes>>
  BY DEF UnknownHost, NoSocket, SelectTimesOut, ReadFails, Throws, Fails
<1>2. PICK code : Return(t, code) /\ UNCHANGED <<locals, network, localRoutes>>
  BY <1>1
<1>3. FunctionsInv' /\ ThreadsInv'
  BY <1>2, ReturnsOnly
<1>4. RequestsInv' /\ AnswersInv' /\ LocalRoutesInv'
  BY <1>2, StoresKeep DEF RouteInv, network
<1> QED
  BY <1>3, <1>4 DEF RouteInv

\* The local route is added, or not.
LEMMA AddLocalRouteStep ==
  ASSUME RouteInv, NEW t \in Threads, NEW code, AddLocalRoute(t, code)
  PROVE  RouteInv'
<1>1. /\ pc[t] = "add" /\ Return(t, code) /\ UNCHANGED <<locals, network>>
      /\ localRoutes' = IF code = "NOERR" THEN localRoutes \cup {[netId |-> netId[t], host |-> host[t]]}
                        ELSE localRoutes
  BY DEF AddLocalRoute
<1>2. FunctionsInv' /\ ThreadsInv'
  BY <1>1, ReturnsOnly
<1>3. RequestsInv /\ AnswersInv /\ ThreadsInv /\ LocalRoutesInv
  BY DEF RouteInv
<1>4. RequestsInv' /\ AnswersInv'
  BY <1>1, <1>3 DEF network, RequestsInv, AnswersInv, WayBack, Asked
<1>5. host[t] \in Hosts /\ Told(netId[t]) /\ SomeWayBack
  BY <1>1, <1>3 DEF ThreadsInv, ThreadOk
<1>6. SomeWayBack'
  BY <1>1, <1>5 DEF SomeWayBack, WayBack, network
<1>7. ASSUME NEW r \in localRoutes'
      PROVE  r.host \in Hosts /\ Told(r.netId)
  <2>1. CASE r \in localRoutes
    BY <1>3, <2>1 DEF LocalRoutesInv
  <2>2. CASE r = [netId |-> netId[t], host |-> host[t]]
    <3>1. r.netId = netId[t] /\ r.host = host[t]
      BY <2>2
    <3> QED
      BY <1>5, <3>1
  <2> QED
    BY <1>1, <2>1, <2>2
<1>8. LocalRoutesInv'
  BY <1>6, <1>7 DEF LocalRoutesInv, Told
<1> QED
  BY <1>2, <1>4, <1>8 DEF RouteInv

\* The local route is deleted.
LEMMA ShutdownStep ==
  ASSUME RouteInv, NEW t, NEW r, ShutdownRouting(t, r)
  PROVE  RouteInv'
<1>1. /\ UNCHANGED <<pc, host, netId, frame, requests, answers, remoteRoutes>>
      /\ localRoutes' \subseteq localRoutes
  BY DEF ShutdownRouting, network
<1>2. FunctionsInv'
  BY <1>1 DEF RouteInv, FunctionsInv
<1>3. ASSUME NEW u \in Threads
      PROVE  ThreadOk(u)'
  BY <1>1, ThreadKeeps DEF RouteInv, ThreadsInv
<1>4. RequestsInv' /\ AnswersInv'
  BY <1>1 DEF RouteInv, RequestsInv, AnswersInv, WayBack, Asked
<1>5. SomeWayBack => SomeWayBack'
  BY <1>1 DEF SomeWayBack, WayBack
<1>6. LocalRoutesInv'
  BY <1>1, <1>5 DEF RouteInv, LocalRoutesInv, Told
<1> QED
  BY <1>2, <1>3, <1>4, <1>6 DEF RouteInv, ThreadsInv

-----------------------------------------------------------------------------
(* The targets.                                                            *)

\* What a target does leaves the threads and their routes alone.
LEMMA ServesKeep ==
  ASSUME RouteInv, UNCHANGED <<pc, locals, frame, requests, localRoutes>>, remoteRoutes \subseteq remoteRoutes'
  PROVE  FunctionsInv' /\ ThreadsInv' /\ RequestsInv' /\ LocalRoutesInv'
<1>1. UNCHANGED <<host, netId>>
  BY DEF locals
<1>2. FunctionsInv' /\ RequestsInv'
  BY <1>1 DEF RouteInv, FunctionsInv, RequestsInv
<1>3. ASSUME NEW u \in Threads
      PROVE  ThreadOk(u)'
  BY <1>1, ThreadKeeps DEF RouteInv, ThreadsInv
<1>4. SomeWayBack => SomeWayBack'
  BY DEF SomeWayBack, WayBack
<1>5. LocalRoutesInv'
  BY <1>4 DEF RouteInv, LocalRoutesInv, Told
<1> QED
  BY <1>2, <1>3, <1>5 DEF ThreadsInv

\* One answer more.
LEMMA AnswersGrow ==
  ASSUME AnswersInv, remoteRoutes \subseteq remoteRoutes', UNCHANGED requests,
         NEW a, answers' = answers \cup {a}, NEW h \in Hosts, Asked(h, a.to),
         \/ a.cells = ToldCells(h)
         \/ a.cells = EnteredCells(h, Refusal)
         \/ a.cells = EnteredCells(h, "NOERR") /\ WayBack(h) \in remoteRoutes'
  PROVE  AnswersInv'
BY DEF AnswersInv, WayBack, Asked

\* A target tells its NetId.
LEMMA TellsNetIdStep ==
  ASSUME RouteInv, NEW r \in requests, TellsNetId(r)
  PROVE  RouteInv'
<1>0. \A extra : Asked(r.to, Answer(r, extra).to)
  BY DEF Asked, Answer
<1>1. /\ r.cells[3] = SERVERINFO /\ answers' = answers \cup {Answer(r, <<0>>)}
      /\ UNCHANGED <<pc, locals, frame, requests, remoteRoutes, localRoutes>>
  BY DEF TellsNetId
<1>2. r.to \in Hosts
  BY DEF RouteInv, RequestsInv
<1>3. Answer(r, <<0>>).cells = ToldCells(r.to)
  BY <1>1 DEF Answer, ToldCells, AnswerHead
<1>4. PICK a : a = Answer(r, <<0>>)
  OBVIOUS
<1>5. AnswersInv'
  BY <1>0, <1>1, <1>2, <1>3, <1>4, AnswersGrow DEF RouteInv
<1> QED
  BY <1>1, <1>5, ServesKeep DEF RouteInv

\* Only the request to enter a route bears that service, and it carries the local NetId.
LEMMA RouteRequests ==
  ASSUME RequestsInv, NEW r \in requests, r.cells[3] = ADDROUTE
  PROVE  r.to \in Hosts /\ r.cells = RouteRequest(getLocalIpForTarget(r.to))
         /\ r.cells[4] = LocalNetId(getLocalIpForTarget(r.to))
<1>1. r.cells # ServerInfoRequest
  BY WritesInquiry DEF SERVERINFO, ADDROUTE
<1>2. r.to \in Hosts /\ r.cells = RouteRequest(getLocalIpForTarget(r.to))
  BY <1>1 DEF RequestsInv
<1> QED
  BY <1>2, WritesRequest

\* A target enters the way back.
LEMMA EntersRouteStep ==
  ASSUME RouteInv, NEW r \in requests, EntersRoute(r)
  PROVE  RouteInv'
<1>0. \A extra : Asked(r.to, Answer(r, extra).to)
  BY DEF Asked, Answer
<1>1. /\ r.cells[3] = ADDROUTE /\ answers' = answers \cup {Answer(r, ResultTags(r, "NOERR"))}
      /\ remoteRoutes' = remoteRoutes \cup {[at |-> r.to, netId |-> r.cells[4]]}
      /\ UNCHANGED <<pc, locals, frame, requests, localRoutes>>
  BY DEF EntersRoute
<1>2. r.to \in Hosts /\ r.cells[4] = LocalNetId(getLocalIpForTarget(r.to))
  BY <1>1, RouteRequests DEF RouteInv
<1>3. Answer(r, ResultTags(r, "NOERR")).cells = EnteredCells(r.to, "NOERR")
  BY <1>1 DEF Answer, EnteredCells, AnswerHead, ResultTags, ResultOf
<1>4. WayBack(r.to) \in remoteRoutes'
  BY <1>1, <1>2 DEF WayBack
<1>5. PICK a : a = Answer(r, ResultTags(r, "NOERR"))
  OBVIOUS
<1>6. AnswersInv'
  BY <1>0, <1>1, <1>2, <1>3, <1>4, <1>5, AnswersGrow DEF RouteInv
<1> QED
  BY <1>1, <1>6, ServesKeep DEF RouteInv

\* A target refuses it.
LEMMA RefusesRouteStep ==
  ASSUME RouteInv, NEW r \in requests, RefusesRoute(r)
  PROVE  RouteInv'
<1>0. \A extra : Asked(r.to, Answer(r, extra).to)
  BY DEF Asked, Answer
<1>1. /\ r.cells[3] = ADDROUTE /\ answers' = answers \cup {Answer(r, ResultTags(r, Refusal))}
      /\ UNCHANGED <<pc, locals, frame, requests, remoteRoutes, localRoutes>>
  BY DEF RefusesRoute
<1>2. r.to \in Hosts
  BY <1>1, RouteRequests DEF RouteInv
<1>3. Answer(r, ResultTags(r, Refusal)).cells = EnteredCells(r.to, Refusal)
  BY <1>1 DEF Answer, EnteredCells, AnswerHead, ResultTags, ResultOf
<1>4. PICK a : a = Answer(r, ResultTags(r, Refusal))
  OBVIOUS
<1>5. AnswersInv'
  BY <1>0, <1>1, <1>2, <1>3, <1>4, AnswersGrow DEF RouteInv
<1> QED
  BY <1>1, <1>5, ServesKeep DEF RouteInv

-----------------------------------------------------------------------------
(* An answer is received.                                                  *)

\* A received frame holds the cells of the datagram.
LEMMA HoldsContent ==
  ASSUME NEW f, NEW S, NEW cells \in Seq(S), Holds(f, cells)
  PROVE  content(f) = cells
<1>1. f.pos = 0 /\ f.size = Len(cells)
  BY Record4 DEF Holds, At
<1>2. size(f) = Len(cells)
  BY <1>1, LenProperties DEF size
<1>3. content(f) = [k \in 1..Len(cells) |-> f.data[0 + k - 1]]
  BY <1>1, <1>2 DEF content
<1>4. ASSUME NEW k \in 1..Len(cells)
      PROVE  f.data[0 + k - 1] = cells[k]
  <2>1. 0 + k - 1 = k - 1
    OBVIOUS
  <2> QED
    BY <2>1 DEF Holds
<1>5. cells = [k \in 1..Len(cells) |-> cells[k]]
  BY LenProperties
<1> QED
  BY <1>3, <1>4, <1>5

\* A header that SendRecv lets pass names the service that was asked for.
LEMMA HeaderNames ==
  ASSUME NEW f, NEW S, NEW cells \in Seq(S), Len(cells) >= 3, Holds(f, cells), NEW serviceId,
         HeaderStatus(f, serviceId) = "NOERR"
  PROVE  cells[3] = RESPONSE + serviceId
<1>1. content(f) = cells /\ capacity(f) = Len(cells)
  BY HoldsContent DEF Holds, capacity
<1>2. Len(cells) \in Nat
  BY LenProperties
<1>3. SubSeq(cells, 1, 3) = <<Cookie, InvokeId, RESPONSE + serviceId>>
  <2>1. ~(capacity(f) < 3) /\ capacity(f) >= 3
    BY <1>1, <1>2
  <2> QED
    BY <1>1, <2>1 DEF HeaderStatus
<1>4. SubSeq(cells, 1, 3)[3] = cells[3]
  <2>1. 1 \in 1..Len(cells) + 1 /\ 3 \in 1 - 1 .. Len(cells) /\ 3 \in 1..3 - 1 + 1
    BY <1>2
  <2>2. \A i \in 1..3 - 1 + 1 : SubSeq(cells, 1, 3)[i] = cells[1 + i - 1]
    BY <2>1, SubSeqProperties
  <2>3. 1 + 3 - 1 = 3
    OBVIOUS
  <2> QED
    BY <2>1, <2>2, <2>3
<1>5. PICK h : h = <<Cookie, InvokeId, RESPONSE + serviceId>>
  OBVIOUS
<1>6. h[3] = RESPONSE + serviceId
  BY <1>5
<1>7. SubSeq(cells, 1, 3) = h
  BY <1>3, <1>5
<1>8. SubSeq(cells, 1, 3)[3] = h[3]
  BY <1>7
<1> QED
  BY <1>4, <1>6, <1>8

\* What a thread has before it when it takes a datagram that some target sent.
LEMMA TakesAnswer ==
  ASSUME RouteInv, NEW t \in Threads, pc[t] = "receive", NEW a \in answers
  PROVE  LET f == received(frame[t], a.cells)
         IN /\ IsFrame(f)
            /\ \E h \in Hosts :
                 /\ Asked(h, a.to)
                 /\ \/ a.cells = ToldCells(h) /\ Holds(f, a.cells)
                    \/ a.cells = EnteredCells(h, Refusal) /\ Holds(f, a.cells)
                    \/ a.cells = EnteredCells(h, "NOERR") /\ Holds(f, a.cells) /\ WayBack(h) \in remoteRoutes
<1>1. PICK g : g = frame[t]
  OBVIOUS
<1>2. IsFrame(g) /\ g.size >= ResponseCells /\ g.size \in Nat
  BY <1>1 DEF RouteInv, ThreadsInv, ThreadOk, IsFrame
<1>3. PICK h \in Hosts :
        /\ Asked(h, a.to)
        /\ \/ a.cells = ToldCells(h)
           \/ a.cells = EnteredCells(h, Refusal)
           \/ a.cells = EnteredCells(h, "NOERR") /\ WayBack(h) \in remoteRoutes
  BY DEF RouteInv, AnswersInv
<1>4. ResponseCells \in Nat /\ ResponseCells >= 11
  BY RouteAssumption
<1>5. \E S : a.cells \in Seq(S) /\ Len(a.cells) <= 11 /\ Len(a.cells) \in Nat
  <2>1. CASE a.cells = ToldCells(h)
    <3>1. a.cells \in Seq(AnswerFields(h, "NOERR")) /\ Len(a.cells) = 5
      BY <2>1, ToldFields
    <3> QED
      BY <3>1
  <2>2. ASSUME NEW code, a.cells = EnteredCells(h, code)
        PROVE  \E S : a.cells \in Seq(S) /\ Len(a.cells) <= 11 /\ Len(a.cells) \in Nat
    <3>1. a.cells \in Seq(AnswerFields(h, code)) /\ Len(a.cells) = IF h.extraTag THEN 11 ELSE 8
      BY <2>2, EnteredFields
    <3> QED
      BY <3>1
  <2> QED
    BY <1>3, <2>1, <2>2
<1>6. PICK S : a.cells \in Seq(S) /\ Len(a.cells) <= 11 /\ Len(a.cells) \in Nat
  BY <1>5
<1>7. Len(a.cells) <= g.size
  BY <1>2, <1>4, <1>6
<1>8. Holds(received(g, a.cells), a.cells) /\ IsFrame(received(g, a.cells))
  BY <1>2, <1>6, <1>7, ReceivesWhole
<1> QED
  BY <1>1, <1>3, <1>8

\* The answer to GetRemoteAddress: the NetId in it is that of a target that was asked from this port.
LEMMA TellsHost ==
  ASSUME RouteInv, NEW t \in Threads, pc[t] = "receive", NEW a \in answers,
         HeaderStatus(received(frame[t], a.cells), SERVERINFO) = "NOERR"
  PROVE  \E h \in Hosts :
            h.netId # None /\ Asked(h, a.to) /\ content(received(frame[t], a.cells))[4] = h.netId
<1>1. PICK f : f = received(frame[t], a.cells)
  OBVIOUS
<1>2. PICK h \in Hosts :
        /\ Asked(h, a.to)
        /\ \/ a.cells = ToldCells(h) /\ Holds(f, a.cells)
           \/ \E code : a.cells = EnteredCells(h, code) /\ Holds(f, a.cells)
  BY <1>1, TakesAnswer
<1>3. CASE a.cells = ToldCells(h)
  <2>1. a.cells \in Seq(AnswerFields(h, "NOERR")) /\ Holds(f, a.cells)
    BY <1>2, <1>3, ToldFields
  <2>2. content(f) = a.cells
    BY <2>1, HoldsContent
  <2>3. content(f)[4] = h.netId
    BY <1>3, <2>2, ToldFields
  <2>4. h.netId # None
    BY RouteAssumption DEF None
  <2> QED
    BY <1>1, <1>2, <2>3, <2>4
<1>4. ASSUME NEW code, a.cells = EnteredCells(h, code), Holds(f, a.cells)
      PROVE  FALSE
  <2>1. a.cells \in Seq(AnswerFields(h, code)) /\ Len(a.cells) >= 3 /\ a.cells[3] = RESPONSE + ADDROUTE
    BY <1>4, EnteredFields
  <2>2. HeaderStatus(f, SERVERINFO) = "NOERR"
    BY <1>1
  <2>3. a.cells[3] = RESPONSE + SERVERINFO
    BY <1>4, <2>1, <2>2, HeaderNames
  <2> QED
    BY <2>1, <2>3 DEF RESPONSE, SERVERINFO, ADDROUTE
<1> QED
  BY <1>2, <1>3, <1>4

\* The answer to AddRemoteRoute: NOERR is read only where a target that was asked from this port has
\* entered the route.
LEMMA EnteredSomewhere ==
  ASSUME RouteInv, NEW t \in Threads, pc[t] = "receive", NEW a \in answers,
         HeaderStatus(received(frame[t], a.cells), ADDROUTE) = "NOERR",
         AddRouteStatus(received(frame[t], a.cells)) = "NOERR"
  PROVE  \E h \in Hosts : Asked(h, a.to) /\ WayBack(h) \in remoteRoutes
<1>1. PICK f : f = received(frame[t], a.cells)
  OBVIOUS
<1>2. PICK h \in Hosts :
        /\ Asked(h, a.to)
        /\ \/ a.cells = ToldCells(h) /\ Holds(f, a.cells)
           \/ a.cells = EnteredCells(h, Refusal) /\ Holds(f, a.cells)
           \/ a.cells = EnteredCells(h, "NOERR") /\ Holds(f, a.cells) /\ WayBack(h) \in remoteRoutes
  BY <1>1, TakesAnswer
<1>3. CASE a.cells = ToldCells(h) /\ Holds(f, a.cells)
  <2>1. a.cells \in Seq(AnswerFields(h, "NOERR")) /\ Len(a.cells) >= 3 /\ a.cells[3] = RESPONSE + SERVERINFO
    BY <1>3, ToldFields
  <2>2. HeaderStatus(f, ADDROUTE) = "NOERR"
    BY <1>1
  <2>3. a.cells[3] = RESPONSE + ADDROUTE
    BY <1>3, <2>1, <2>2, HeaderNames
  <2> QED
    BY <2>1, <2>3 DEF RESPONSE, SERVERINFO, ADDROUTE
<1>4. ASSUME NEW code, a.cells = EnteredCells(h, code), Holds(f, a.cells)
      PROVE  AddRouteStatus(f) = code
  <2>1. a.cells \in Seq(AnswerFields(h, code))
    BY <1>4, EnteredFields
  <2>2. CASE h.extraTag
    <3>1. /\ Len(a.cells) = 11 /\ a.cells[5] = 2 /\ a.cells[6] = 3 /\ a.cells[7] = 1
          /\ a.cells[9] = RESULT /\ a.cells[10] = 1 /\ a.cells[11] = code
      BY <1>4, <2>2, EnteredFields
    <3> QED
      BY <1>4, <2>1, <3>1, ReadsResultBehindTag
  <2>3. CASE ~h.extraTag
    <3>1. /\ Len(a.cells) = 8 /\ a.cells[5] = 1 /\ a.cells[6] = RESULT /\ a.cells[7] = 1
          /\ a.cells[8] = code
      BY <1>4, <2>3, EnteredFields, SMTT(30)
    <3> QED
      BY <1>4, <2>1, <3>1, ReadsResult
  <2> QED
    BY <2>2, <2>3
<1>5. AddRouteStatus(f) = "NOERR"
  BY <1>1
<1>6. ~(a.cells = EnteredCells(h, Refusal) /\ Holds(f, a.cells))
  BY <1>4, <1>5, RouteAssumption
<1> QED
  BY <1>2, <1>3, <1>6

\* GetRemoteAddress returns: the request to enter the way back is built, or the call ends.
LEMMA GotNetIdStep ==
  ASSUME RouteInv, NEW t \in Threads, NEW f, Told(content(f)[4]), GotNetId(t, f),
         UNCHANGED <<calls, op, host, network, localRoutes>>
  PROVE  FunctionsInv' /\ ThreadsInv'
<1> DEFINE n == content(f)[4]
           ip == getLocalIpForTarget(host[t])
<1>1. netId' = [netId EXCEPT ![t] = n] /\ host' = host /\ remoteRoutes' = remoteRoutes
  BY DEF GotNetId, network
<1>2. FunctionsInv /\ ThreadsInv /\ Told(n)
  BY DEF RouteInv
<1>3. CASE op[t] = "init" /\ ip # NoIp
  <2>1. frame' = [frame EXCEPT ![t] = AddRouteFrame(ip)] /\ pc' = [pc EXCEPT ![t] = "send"]
    BY <1>3 DEF GotNetId, Goto
  <2> HIDE DEF n
  <2>2. FunctionsInv'
    BY <1>1, <1>2, <2>1 DEF FunctionsInv
  <2>3. pc'[t] = "send" /\ frame'[t] = AddRouteFrame(ip) /\ netId'[t] = n /\ host'[t] = host[t]
    BY <1>1, <1>2, <2>1 DEF FunctionsInv
  <2>4. IsFrame(frame'[t])
    BY <2>3, WritesRequest
  <2>5. host[t] \in Hosts
    BY <1>2 DEF ThreadsInv, ThreadOk
  <2>6. n # None /\ Told(netId[t])'
    BY <1>2, <2>3 DEF Told
  <2>7. ThreadOk(t)'
    BY <2>3, <2>4, <2>5, <2>6 DEF ThreadOk
  <2>8. \A u \in Threads : u # t =>
           pc'[u] = pc[u] /\ host'[u] = host[u] /\ netId'[u] = netId[u] /\ frame'[u] = frame[u]
    BY <1>1, <1>2, <2>1 DEF FunctionsInv
  <2> QED
    BY <1>1, <1>2, <2>2, <2>7, <2>8, OthersKeep
<1>4. CASE ~(op[t] = "init" /\ ip # NoIp)
  <2>1. PICK code : Return(t, code)
    BY <1>4 DEF GotNetId
  <2> HIDE DEF n
  <2> QED
    BY <1>1, <1>2, <2>1, Returns
<1> QED
  BY <1>3, <1>4

\* AddRemoteRoute returns: the local route comes next, or the call ends.
LEMMA GotResultStep ==
  ASSUME RouteInv, NEW t \in Threads, pc[t] = "receive", NEW code, GotResult(t, code), Told(netId[t]),
         code = "NOERR" => SomeWayBack, UNCHANGED <<calls, op, host, network, localRoutes>>
  PROVE  FunctionsInv' /\ ThreadsInv'
<1>1. netId' = netId /\ host' = host /\ remoteRoutes' = remoteRoutes
  BY DEF GotResult, network
<1>2. FunctionsInv /\ ThreadsInv
  BY DEF RouteInv
<1>3. CASE code = "NOERR"
  <2>1. pc' = [pc EXCEPT ![t] = "add"] /\ frame' = frame
    BY <1>3 DEF GotResult, Goto
  <2>2. FunctionsInv'
    BY <1>1, <1>2, <2>1 DEF FunctionsInv
  <2>3. pc'[t] = "add"
    BY <1>2, <2>1 DEF FunctionsInv
  <2>4. SomeWayBack'
    BY <1>1, <1>3 DEF SomeWayBack, WayBack
  <2>5. Told(netId[t])'
    BY <1>1 DEF Told
  <2>6. host[t] \in Hosts /\ IsFrame(frame[t])
    BY <1>2 DEF ThreadsInv, ThreadOk
  <2>7. IsFrame(frame'[t])
    BY <2>1, <2>6
  <2>8. ThreadOk(t)'
    BY <1>1, <2>3, <2>4, <2>5, <2>6, <2>7 DEF ThreadOk
  <2>9. \A u \in Threads : u # t =>
           pc'[u] = pc[u] /\ host'[u] = host[u] /\ netId'[u] = netId[u] /\ frame'[u] = frame[u]
    BY <1>1, <1>2, <2>1 DEF FunctionsInv
  <2> QED
    BY <1>1, <1>2, <2>2, <2>8, <2>9, OthersKeep
<1>4. CASE code # "NOERR"
  <2>1. Return(t, code)
    BY <1>4 DEF GotResult
  <2>2. UNCHANGED <<locals, network>>
    BY <1>1 DEF locals
  <2> QED
    BY <2>1, <2>2, ReturnsOnly
<1> QED
  BY <1>3, <1>4

\* A datagram is taken from the port.
LEMMA ReceiveStep ==
  ASSUME RouteInv, NEW t \in Threads, NEW a, Receive(t, a)
  PROVE  RouteInv'
<1> DEFINE f == received(frame[t], a.cells)
           status == HeaderStatus(f, SentService(t))
<1>1. /\ pc[t] = "receive" /\ a \in answers
      /\ UNCHANGED <<calls, op, host, network, localRoutes>>
      /\ \/ status = "NOERR" /\ SentService(t) = SERVERINFO /\ GotNetId(t, f)
         \/ status = "NOERR" /\ SentService(t) = ADDROUTE /\ GotResult(t, AddRouteStatus(f))
         \/ status # "NOERR" /\ Return(t, status) /\ UNCHANGED netId
  BY DEF Receive
<1>2. CASE status = "NOERR" /\ SentService(t) = SERVERINFO /\ GotNetId(t, f)
  <2>1. Told(content(f)[4])
    BY <1>1, <1>2, TellsHost DEF Told
  <2> HIDE DEF f
  <2> QED
    BY <1>1, <1>2, <2>1, GotNetIdStep, StoresKeep DEF RouteInv, network
<1>3. CASE status = "NOERR" /\ SentService(t) = ADDROUTE /\ GotResult(t, AddRouteStatus(f))
  <2>1. Told(netId[t])
    BY <1>3 DEF SentService, SERVERINFO, ADDROUTE, RouteInv, ThreadsInv, ThreadOk
  <2>2. AddRouteStatus(f) = "NOERR" => SomeWayBack
    BY <1>1, <1>3, EnteredSomewhere DEF SomeWayBack
  <2> HIDE DEF f
  <2>3. FunctionsInv' /\ ThreadsInv'
    BY <1>1, <1>3, <2>1, <2>2, GotResultStep
  <2> QED
    BY <1>1, <2>3, StoresKeep DEF RouteInv, network
<1>4. CASE status # "NOERR" /\ Return(t, status) /\ UNCHANGED netId
  <2>1. UNCHANGED <<locals, network>>
    BY <1>1, <1>4 DEF locals
  <2> HIDE DEF status
  <2>2. FunctionsInv' /\ ThreadsInv'
    BY <1>4, <2>1, ReturnsOnly
  <2> QED
    BY <1>1, <2>2, StoresKeep DEF RouteInv, network
<1> QED
  BY <1>1, <1>2, <1>3, <1>4

-----------------------------------------------------------------------------
(* The theorems.                                                           *)

\* Every step keeps the invariant.
LEMMA NextRoute == RouteInv /\ [Next]_vars => RouteInv'
<1> SUFFICES ASSUME RouteInv, [Next]_vars
             PROVE  RouteInv'
  OBVIOUS
<1>1. CASE Serves
  BY <1>1, TellsNetIdStep, EntersRouteStep, RefusesRouteStep DEF Serves
<1>2. CASE Calls
  BY <1>2, CallStep DEF Calls
<1>3. CASE Sends
  BY <1>3, SendStep DEF Sends
<1>4. CASE Exceptions
  BY <1>4, LeavesStep DEF Exceptions
<1>5. CASE TimesOut
  BY <1>5, LeavesStep DEF TimesOut
<1>6. CASE ReadErrors
  BY <1>6, LeavesStep DEF ReadErrors
<1>7. CASE Receives
  BY <1>7, ReceiveStep DEF Receives
<1>8. CASE AddsRoute
  BY <1>8, AddLocalRouteStep DEF AddsRoute
<1>9. CASE Shutdowns
  BY <1>9, ShutdownStep DEF Shutdowns
<1>10. CASE UNCHANGED vars
  <2>1. UNCHANGED <<pc, locals, frame, requests, localRoutes>> /\ UNCHANGED <<answers, remoteRoutes>>
    BY <1>10 DEF vars, network
  <2>2. AnswersInv'
    BY <2>1 DEF RouteInv, AnswersInv, WayBack, Asked
  <2> QED
    BY <2>1, <2>2, ServesKeep DEF RouteInv
<1> QED
  BY <1>1, <1>2, <1>3, <1>4, <1>5, <1>6, <1>7, <1>8, <1>9, <1>10 DEF Next

\* The invariant holds in every state.
THEOREM RoutesInvariant == Spec => []RouteInv
BY InitRoute, NextRoute, PTL DEF Spec

\* Every datagram sent to enter a route is the header, as many tags as it counts, and these tags, each
\* with its own length, however often the frame had to grow and whatever was left out as too long
\* (Frame::prepend, PrependUdpTag, tagCount).
THEOREM RequestsAreWellFormed == Spec => []RequestWellFormed
<1>1. ASSUME RouteInv, NEW r \in requests, r.cells[3] = ADDROUTE
      PROVE  LET ip == getLocalIpForTarget(r.to)
                 value(k) == Tags(ip)[k].value
                 kept(k) == Len(value(k)) < LongestText
                 written(k) == IF kept(k) THEN <<Tags(ip)[k].id, Len(value(k))>> \o value(k) ELSE <<>>
             IN r.cells = <<Cookie, InvokeId, ADDROUTE, LocalNetId(ip), Cardinality({k \in 1..5 : kept(k)})>>
                          \o written(5) \o written(4) \o written(3) \o written(2) \o written(1)
  <2> DEFINE ip == getLocalIpForTarget(r.to)
             value(k) == Tags(ip)[k].value
             kept(k) == Len(value(k)) < LongestText
             written(k) == IF kept(k) THEN <<Tags(ip)[k].id, Len(value(k))>> \o value(k) ELSE <<>>
             head == <<Cookie, InvokeId, ADDROUTE, LocalNetId(ip), Cardinality({k \in 1..5 : kept(k)})>>
  <2>1. r.cells = RouteRequest(ip)
    BY <1>1, RouteRequests DEF RouteInv
  <2> HIDE DEF ip
  <2>2. ASSUME NEW k \in 1..5
        PROVE  Fits(Tags(ip)[k].value) <=> kept(k)
    <3>1. Len(Tags(ip)[k].value) \in Nat
      BY TagValues, LenProperties
    <3> QED
      BY <3>1, RouteAssumption DEF Fits
  <2>3. ASSUME NEW k \in 1..5
        PROVE  WrittenTag(ip, k) = written(k)
    BY <2>2 DEF WrittenTag, Written
  <2>4. {k \in DOMAIN Tags(ip) : Fits(Tags(ip)[k].value)} = {k \in 1..5 : kept(k)}
    BY <2>2, CountsTags
  <2>5. RouteHead(ip) = head
    BY <2>4 DEF RouteHead, HeadCells, tagCount
  <2> HIDE DEF value, kept, written, head
  <2>6. /\ WrittenTag(ip, 1) = written(1) /\ WrittenTag(ip, 2) = written(2) /\ WrittenTag(ip, 3) = written(3)
        /\ WrittenTag(ip, 4) = written(4) /\ WrittenTag(ip, 5) = written(5)
    BY <2>3
  <2>7. r.cells = head \o written(5) \o written(4) \o written(3) \o written(2) \o written(1)
    BY <2>1, <2>5, <2>6 DEF RouteRequest
  <2> QED
    BY <2>7 DEF ip, value, kept, written, head
<1>2. RouteInv => RequestWellFormed
  BY <1>1 DEF RequestWellFormed
<1> QED
  BY <1>2, RoutesInvariant, PTL

\* However many targets there are: a local route bears a NetId that one of them has told, and one of
\* them has entered the way back to the local NetId of its address (the checks of SendRecv, of the
\* result tag, and the order of the steps of InitRouting).
THEOREM LocalRoutesAreAnswered == Spec => []LocalRoutesInv
<1>1. RouteInv => LocalRoutesInv
  BY DEF RouteInv
<1> QED
  BY <1>1, RoutesInvariant, PTL

\* The step of a thread that takes a datagram: what it goes on with is of a target that was asked
\* from its port.
LEMMA ReceivesFromAsked ==
  ASSUME RouteInv, NEW t \in Threads, NEW a, Receive(t, a)
  PROVE  /\ netId'[t] # netId[t] => \E h \in Hosts : Asked(h, port[t]) /\ netId'[t] = h.netId
         /\ pc'[t] = "add" => \E h \in Hosts : Asked(h, port[t]) /\ WayBack(h) \in remoteRoutes
<1> DEFINE f == received(frame[t], a.cells)
           status == HeaderStatus(f, SentService(t))
<1>1. /\ pc[t] = "receive" /\ a \in answers /\ a.to = port[t]
      /\ \/ status = "NOERR" /\ SentService(t) = SERVERINFO /\ GotNetId(t, f)
         \/ status = "NOERR" /\ SentService(t) = ADDROUTE /\ GotResult(t, AddRouteStatus(f))
         \/ status # "NOERR" /\ Return(t, status) /\ UNCHANGED netId
  BY DEF Receive
<1>2. FunctionsInv
  BY DEF RouteInv
<1>3. ASSUME NEW code, Return(t, code)
      PROVE  pc'[t] = "idle"
  BY <1>2, <1>3 DEF Return, Goto, FunctionsInv
<1>4. CASE status = "NOERR" /\ SentService(t) = SERVERINFO /\ GotNetId(t, f)
  <2>1. \E h \in Hosts : Asked(h, port[t]) /\ content(f)[4] = h.netId
    BY <1>1, <1>4, TellsHost
  <2> HIDE DEF f
  <2>2. netId' = [netId EXCEPT ![t] = content(f)[4]]
        /\ (pc' = [pc EXCEPT ![t] = "send"] \/ \E code : Return(t, code))
    BY <1>4 DEF GotNetId, Goto
  <2>3. netId'[t] = content(f)[4] /\ pc'[t] # "add"
    BY <1>2, <1>3, <2>2 DEF FunctionsInv
  <2> QED
    BY <2>1, <2>3
<1>5. CASE status = "NOERR" /\ SentService(t) = ADDROUTE /\ GotResult(t, AddRouteStatus(f))
  <2>1. AddRouteStatus(f) = "NOERR" => \E h \in Hosts : Asked(h, port[t]) /\ WayBack(h) \in remoteRoutes
    BY <1>1, <1>5, EnteredSomewhere
  <2> HIDE DEF f
  <2>2. netId' = netId /\ (AddRouteStatus(f) = "NOERR" \/ Return(t, AddRouteStatus(f)))
    BY <1>5 DEF GotResult
  <2> QED
    BY <1>3, <2>1, <2>2
<1>6. CASE status # "NOERR" /\ Return(t, status) /\ UNCHANGED netId
  BY <1>3, <1>6
<1> QED
  BY <1>1, <1>4, <1>5, <1>6

\* A step of another thread leaves this one where it is.
LEMMA OtherThread ==
  ASSUME FunctionsInv, NEW t \in Threads, NEW u, t # u, pc[t] = "receive",
         NEW x, pc' = [pc EXCEPT ![u] = x], NEW y, netId' = [netId EXCEPT ![u] = y] \/ netId' = netId
  PROVE  netId'[t] = netId[t] /\ pc'[t] = "receive"
BY DEF FunctionsInv

\* Any number of targets, threads and ports: the NetId an exchange goes on with and the consent it adds
\* its route on are those of its own target, unless another target was asked from the port it has
\* now (SendRecv looks at cookie, invoke id and service, not at the sender).
THEOREM AnswersAreOfTarget == Spec => AnsweredByTarget
<1>1. ASSUME RouteInv, [Next]_vars, NEW t \in Threads, pc[t] = "receive", AskedOnly(t)
      PROVE  /\ netId'[t] # netId[t] => netId'[t] = host[t].netId
             /\ pc'[t] = "add" => WayBack(host[t]) \in remoteRoutes
  <2>1. \A h : Asked(h, port[t]) => h = host[t]
    BY <1>1 DEF AskedOnly, Asked
  <2>2. FunctionsInv
    BY <1>1 DEF RouteInv
  <2>3. CASE Receives
    <3>1. PICK u \in Threads, a \in answers : Receive(u, a)
      BY <2>3 DEF Receives
    <3>2. CASE u = t
      <4>1. /\ netId'[t] # netId[t] => \E h \in Hosts : Asked(h, port[t]) /\ netId'[t] = h.netId
            /\ pc'[t] = "add" => \E h \in Hosts : Asked(h, port[t]) /\ WayBack(h) \in remoteRoutes
        BY <1>1, <3>1, <3>2, ReceivesFromAsked
      <4> QED
        BY <2>1, <4>1
    <3>3. CASE u # t
      <4>1. PICK x : pc' = [pc EXCEPT ![u] = x]
        BY <3>1 DEF Receive, GotNetId, GotResult, Return, Goto
      <4>2. \E y : netId' = [netId EXCEPT ![u] = y] \/ netId' = netId
        BY <3>1 DEF Receive, GotNetId, GotResult
      <4>3. PICK y : netId' = [netId EXCEPT ![u] = y] \/ netId' = netId
        BY <4>2
      <4>4. netId'[t] = netId[t] /\ pc'[t] = "receive"
        BY <1>1, <2>2, <3>3, <4>1, <4>3, OtherThread
      <4> QED
        BY <4>4
    <3> QED
      BY <3>2, <3>3
  <2>4. CASE Serves \/ UNCHANGED vars
    BY <1>1, <2>4 DEF Serves, TellsNetId, EntersRoute, RefusesRoute, vars, locals
  <2>5. CASE Calls
    <3>1. PICK u \in Threads, kind \in {"init", "netid"}, h \in Hosts : Call(u, kind, h)
      BY <2>5 DEF Calls
    <3>2. pc[u] = "idle" /\ pc' = [pc EXCEPT ![u] = "send"] /\ netId' = [netId EXCEPT ![u] = None]
      BY <3>1 DEF Call, Goto
    <3> QED
      BY <1>1, <2>2, <3>2, OtherThread
  <2>6. CASE Sends
    <3>1. PICK u \in Threads, p \in EphemeralPorts : Send(u, p)
      BY <2>6 DEF Sends
    <3>2. pc[u] = "send" /\ pc' = [pc EXCEPT ![u] = "receive"] /\ netId' = netId
      BY <3>1 DEF Send, Goto, locals
    <3> QED
      BY <1>1, <2>2, <3>2, OtherThread
  <2>7. CASE Exceptions \/ TimesOut \/ ReadErrors \/ AddsRoute
    <3>1. \E u \in Threads : \E code : Return(u, code) /\ UNCHANGED locals
      BY <2>7 DEF Exceptions, UnknownHost, NoSocket, Throws, TimesOut, SelectTimesOut, ReadErrors, ReadFails,
                  Fails, AddsRoute, AddLocalRoute
    <3>2. PICK u \in Threads : pc' = [pc EXCEPT ![u] = "idle"] /\ netId' = netId
      BY <3>1 DEF Return, Goto, locals
    <3> QED
      BY <1>1, <2>2, <3>2 DEF FunctionsInv
  <2>8. CASE Shutdowns
    BY <1>1, <2>8 DEF Shutdowns, ShutdownRouting
  <2> QED
    BY <1>1, <2>3, <2>4, <2>5, <2>6, <2>7, <2>8 DEF Next
<1>2. RouteInv /\ [Next]_vars =>
        [\A t \in Threads : pc[t] = "receive" /\ AskedOnly(t) =>
           /\ netId'[t] # netId[t] => netId'[t] = host[t].netId
           /\ pc'[t] = "add" => WayBack(host[t]) \in remoteRoutes]_vars
  BY <1>1
<1> QED
  BY <1>2, RoutesInvariant, PTL DEF Spec, AnsweredByTarget
=============================================================================
