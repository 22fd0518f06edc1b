---------------------- MODULE BroadcastDiscoveryProofs ----------------------
(***************************************************************************)
(* Proofs about BroadcastDiscovery, for any devices, adapters and calls:   *)
(* the list has one entry for each device heard that has an address of its *)
(* own and no two for any, and each entry says what one reply of that      *)
(* device said, although every datagram is read into the buffer the        *)
(* earlier ones were in.                                                   *)
(***************************************************************************)
EXTENDS BroadcastDiscovery, SequenceTheorems, TLAPS

\* A datagram as the assumptions allow it: its tags are a sequence and its source is a host.
IsDatagram(p) ==
    /\ p.ip \in 1..Global
    /\ p.count \in Nat
    /\ p.tags \in Seq(Range(p.tags))

\* The buffer and the list are sequences, and only datagrams were heard.
ShapeInv ==
    /\ buffer \in Seq(Range(buffer))
    /\ allFound \in Seq(Range(allFound))
    /\ \A p \in heard : IsDatagram(p)

\* Every entry is made of one reply that was heard, whose tags had all arrived.
Sourced(e) ==
    \E p \in heard : /\ p.netId = e.netId /\ p.ip = e.ipv4HostOrder
                     /\ p.count <= Len(p.tags)
                     /\ e = Said(p)

\* Every reply that was heard has an entry, or stands behind one.
Listed(p) == \E i \in DOMAIN allFound : allFound[i].netId = p.netId \/ allFound[i].ipv4HostOrder = p.ip

\* Two entries are two devices by both marks.
Differ(a, b) == a.netId # b.netId /\ a.ipv4HostOrder # b.ipv4HostOrder

DiscoveryInv ==
    /\ ShapeInv
    /\ \A i \in DOMAIN allFound : Sourced(allFound[i])
    /\ \A p \in heard : Listed(p)
    /\ \A i, j \in DOMAIN allFound : i # j => Differ(allFound[i], allFound[j])

-----------------------------------------------------------------------------
\* A function on an initial segment of the numbers is a sequence of its own values.
LEMMA OwnValues ==
    ASSUME NEW S, NEW s \in Seq(S)
    PROVE  s \in Seq(Range(s))
BY DEF Range

\* An element appended to a sequence stands last, and the others stay where they are.
LEMMA Appended ==
    ASSUME NEW S, NEW s \in Seq(S), NEW e
    PROVE  /\ Append(s, e) \in Seq(Range(Append(s, e)))
           /\ DOMAIN Append(s, e) = DOMAIN s \cup {Len(s) + 1}
           /\ Len(s) + 1 \notin DOMAIN s
           /\ \A i \in DOMAIN s : Append(s, e)[i] = s[i]
           /\ Append(s, e)[Len(s) + 1] = e
<1>1. s \in Seq(S \cup {e}) /\ e \in S \cup {e}
    OBVIOUS
<1>2. Append(s, e) \in Seq(S \cup {e})
    BY <1>1
<1>3. Append(s, e) \in Seq(Range(Append(s, e)))
    BY <1>2, OwnValues
<1>. QED
    BY <1>1, <1>3

\* Two sequences that begin with the same n elements have the same front of length n.
LEMMA SameFront ==
    ASSUME NEW S, NEW s \in Seq(S), NEW t \in Seq(S), NEW n \in Nat,
           n <= Len(s), n <= Len(t), \A i \in 1..n : s[i] = t[i]
    PROVE  SubSeq(s, 1, n) = SubSeq(t, 1, n)
<1>1. (\A i \in 1..n : s[i] \in S) /\ (\A i \in 1..n : t[i] \in S)
    OBVIOUS
<1>2. /\ SubSeq(s, 1, n) \in Seq(S) /\ Len(SubSeq(s, 1, n)) = n
      /\ \A i \in 1..n : SubSeq(s, 1, n)[i] = s[i]
    BY <1>1, SubSeqProperties
<1>3. /\ SubSeq(t, 1, n) \in Seq(S) /\ Len(SubSeq(t, 1, n)) = n
      /\ \A i \in 1..n : SubSeq(t, 1, n)[i] = t[i]
    BY <1>1, SubSeqProperties
<1>. QED
    BY <1>2, <1>3, SeqEqual

\* A datagram leaves its tags, as far as the buffer holds them, at the front of the buffer.
LEMMA ReceivedFront ==
    ASSUME BufferTags \in Nat,
           NEW S, NEW buf \in Seq(S), NEW tags \in Seq(S), NEW n \in Nat,
           n <= (IF Len(tags) < BufferTags THEN Len(tags) ELSE BufferTags)
    PROVE  /\ Received(buf, tags) \in Seq(Range(Received(buf, tags)))
           /\ SubSeq(Received(buf, tags), 1, n) = SubSeq(tags, 1, n)
           /\ n <= Len(tags)
<1>1. PICK len : len = IF Len(tags) < BufferTags THEN Len(tags) ELSE BufferTags
    OBVIOUS
<1>2. PICK front : front = SubSeq(tags, 1, len)
    OBVIOUS
<1>3. PICK rest : rest = SubSeq(buf, len + 1, Len(buf))
    OBVIOUS
<1>4. len \in Nat /\ len <= Len(tags) /\ n <= len
    BY <1>1
<1>5. front \in Seq(S) /\ Len(front) = len /\ \A i \in 1..len : front[i] = tags[i]
  <2>1. \A i \in 1..len : tags[i] \in S
    BY <1>4
  <2>. QED
    BY <1>2, <1>4, <2>1, SubSeqProperties
<1>6. rest \in Seq(S)
    BY <1>3, <1>4
<1>7. Received(buf, tags) = front \o rest
    BY <1>1, <1>2, <1>3 DEF Received
<1>8. /\ front \o rest \in Seq(S)
      /\ Len(front \o rest) = Len(front) + Len(rest)
      /\ \A i \in 1..Len(front) : (front \o rest)[i] = front[i]
  <2>1. Len(front) \in Nat /\ Len(rest) \in Nat
    BY <1>5, <1>6
  <2>2. /\ front \o rest \in Seq(S)
        /\ Len(front \o rest) = Len(front) + Len(rest)
        /\ \A i \in 1..Len(front) + Len(rest) :
               (front \o rest)[i] = IF i <= Len(front) THEN front[i] ELSE rest[i - Len(front)]
    BY <1>5, <1>6, ConcatProperties
  <2>. QED
    BY <2>1, <2>2
<1>9. n <= Len(front \o rest) /\ \A i \in 1..n : (front \o rest)[i] = tags[i]
    BY <1>4, <1>5, <1>6, <1>8
<1>10. SubSeq(front \o rest, 1, n) = SubSeq(tags, 1, n)
    BY <1>4, <1>8, <1>9, SameFront
<1>11. front \o rest \in Seq(Range(front \o rest))
    BY <1>8, OwnValues
<1>12. n <= Len(tags)
    BY <1>4
<1>. QED
    BY <1>7, <1>10, <1>11, <1>12, Zenon

\* Whatever may arrive at the socket is such a datagram.
LEMMA ArrivingDatagrams ==
    ASSUME DiscoveryAssumption, NEW p \in Arriving
    PROVE  IsDatagram(p)
<1>1. CASE p \in Noise
    BY <1>1 DEF DiscoveryAssumption, IsDatagram
<1>2. ASSUME NEW d \in Devices, NEW s \in d.at, p = Reply(d, s)
      PROVE  IsDatagram(p)
  <2>1. p.ip = s.ip /\ p.count = d.count /\ p.tags = d.tags
    BY <1>2 DEF Reply
  <2>. QED
    BY <2>1 DEF DiscoveryAssumption, IsDatagram
<1>. QED
    BY <1>1, <1>2 DEF Arriving

-----------------------------------------------------------------------------
LEMMA DiscoveryInit ==
    ASSUME Init
    PROVE  DiscoveryInv
<1>1. <<>> \in Seq(Range(<<>>))
    OBVIOUS
<1>. QED
    BY <1>1 DEF Init, DiscoveryInv, ShapeInv

\* A datagram that is no reply, or of a device that is listed, leaves the list as it is.
LEMMA ListKeeps ==
    ASSUME DiscoveryInv, UNCHANGED allFound, buffer' \in Seq(Range(buffer)'),
           heard \subseteq heard',
           \A p \in heard' : IsDatagram(p) /\ Listed(p)
    PROVE  DiscoveryInv'
<1>1. ShapeInv'
    BY DEF DiscoveryInv, ShapeInv
<1>2. \A i \in DOMAIN allFound : Sourced(allFound[i])'
    BY DEF DiscoveryInv, Sourced
<1>3. \A p \in heard' : Listed(p)'
    BY DEF Listed
<1>. QED
    BY <1>1, <1>2, <1>3 DEF DiscoveryInv

\* A reply of a device that is not listed adds its entry.
LEMMA ListGrows ==
    ASSUME DiscoveryInv, NEW p, NEW info,
           allFound' = Append(allFound, info), buffer' \in Seq(Range(buffer)'),
           heard' = heard \cup {p}, IsDatagram(p),
           info = Said(p), p.count <= Len(p.tags),
           ~IsDuplicateDevice(allFound, info)
    PROVE  DiscoveryInv'
<1>. DEFINE last == Len(allFound) + 1
<1>1. /\ allFound' \in Seq(Range(allFound)')
      /\ DOMAIN allFound' = DOMAIN allFound \cup {last}
      /\ last \notin DOMAIN allFound
      /\ \A i \in DOMAIN allFound : allFound'[i] = allFound[i]
      /\ allFound'[last] = info
  <2>1. allFound \in Seq(Range(allFound))
    BY DEF DiscoveryInv, ShapeInv
  <2>2. PICK S : allFound \in Seq(S)
    BY <2>1, Zenon
  <2>3. PICK longer : longer = Append(allFound, info)
    OBVIOUS
  <2>4. /\ longer \in Seq(Range(longer))
        /\ DOMAIN longer = DOMAIN allFound \cup {last}
        /\ last \notin DOMAIN allFound
        /\ \A i \in DOMAIN allFound : longer[i] = allFound[i]
        /\ longer[last] = info
    BY <2>2, <2>3, Appended
  <2>5. allFound' = longer
    BY <2>3
  <2>. QED
    BY <2>4, <2>5, Zenon DEF Range
<1>2. info.netId = p.netId /\ info.ipv4HostOrder = p.ip
    BY DEF Said, ParseServerInfoPayload
<1>3. ShapeInv'
    BY <1>1 DEF DiscoveryInv, ShapeInv
<1>4. \A i \in DOMAIN allFound' : Sourced(allFound[i])'
  <2>1. \A e : Sourced(e) => Sourced(e)'
    BY DEF Sourced
  <2>2. Sourced(info)'
    BY <1>2 DEF Sourced
  <2>. QED
    BY <1>1, <2>1, <2>2 DEF DiscoveryInv
<1>5. \A q \in heard' : Listed(q)'
  <2>1. Listed(p)'
    BY <1>1, <1>2 DEF Listed
  <2>2. \A q \in heard : Listed(q)'
    BY <1>1 DEF DiscoveryInv, Listed
  <2>. QED
    BY <2>1, <2>2
<1>6. \A i, j \in DOMAIN allFound' : i # j => Differ(allFound'[i], allFound'[j])
  <2>1. \A i \in DOMAIN allFound : Differ(allFound[i], info)
    <3>. SUFFICES ASSUME NEW i \in DOMAIN allFound
                  PROVE  Differ(allFound[i], info)
      OBVIOUS
    <3>1. ~SameDevice(allFound[i], info)
      BY DEF IsDuplicateDevice
    <3>2. allFound[i].ipv4HostOrder # 0
      <4>1. PICK q \in heard : q.ip = allFound[i].ipv4HostOrder
        BY DEF DiscoveryInv, Sourced
      <4>2. q.ip \in 1..Global
        BY DEF DiscoveryInv, ShapeInv, IsDatagram
      <4>3. q.ip # 0
        BY <4>2
      <4>. QED
        BY <4>1, <4>3
    <3>. QED
      BY <3>1, <3>2 DEF SameDevice, Differ
  <2>. QED
    BY <1>1, <2>1 DEF DiscoveryInv, Differ
<1>. QED
    BY <1>3, <1>4, <1>5, <1>6 DEF DiscoveryInv

LEMMA DiscoveryNext ==
    ASSUME DiscoveryAssumption, DiscoveryInv, [Next]_vars
    PROVE  DiscoveryInv'
<1>1. CASE Collects
  <2>1. PICK p \in Arriving : Receive(p)
    BY <1>1 DEF Collects
  <2>2. IsDatagram(p)
    BY <2>1, ArrivingDatagrams
  <2>3. buffer' = Received(buffer, p.tags)
    BY <2>1 DEF Receive
  <2>4. PICK S : buffer \in Seq(S) /\ p.tags \in Seq(S)
    <3>1. /\ buffer \in Seq(Range(buffer) \cup Range(p.tags))
          /\ p.tags \in Seq(Range(buffer) \cup Range(p.tags))
      BY <2>2, SeqMonotonic DEF DiscoveryInv, ShapeInv, IsDatagram
    <3>. QED
      BY <3>1
  <2>5. BufferTags \in Nat
    BY DEF DiscoveryAssumption
  <2>6. Len(p.tags) \in Nat /\ p.count \in Nat
    BY <2>2, <2>4 DEF IsDatagram
  <2>7. buffer' \in Seq(Range(buffer)')
    <3>1. 0 <= (IF Len(p.tags) < BufferTags THEN Len(p.tags) ELSE BufferTags)
      BY <2>5, <2>6
    <3>2. Received(buffer, p.tags) \in Seq(Range(Received(buffer, p.tags)))
      BY <2>4, <2>5, <3>1, ReceivedFront
    <3>. QED
      BY <2>3, <3>2, Zenon DEF Range
  <2>. DEFINE info == ParseServerInfoPayload(p, buffer')
              taken == p.head = "reply" /\ PayloadComplete(p, buffer')
  <2>8. /\ heard' = IF taken THEN heard \cup {p} ELSE heard
        /\ allFound' = IF taken /\ ~IsDuplicateDevice(allFound, info)
                           THEN Append(allFound, info) ELSE allFound
    BY <2>1, <2>3 DEF Receive
  <2>9. ASSUME taken
        PROVE  info = Said(p) /\ p.count <= Len(p.tags)
    <3>1. p.count <= (IF Len(p.tags) < BufferTags THEN Len(p.tags) ELSE BufferTags)
      BY <2>9 DEF PayloadComplete
    <3>2. SubSeq(Received(buffer, p.tags), 1, p.count) = SubSeq(p.tags, 1, p.count)
      BY <2>4, <2>5, <2>6, <3>1, ReceivedFront
    <3>3. p.count <= Len(p.tags)
      BY <2>4, <2>5, <2>6, <3>1, ReceivedFront
    <3>. QED
      BY <2>3, <3>2, <3>3 DEF Said, ParseServerInfoPayload
  <2>10. CASE ~taken
    <3>1. UNCHANGED <<allFound, heard>>
      BY <2>8, <2>10
    <3>. QED
      BY <2>7, <3>1, ListKeeps DEF DiscoveryInv, ShapeInv
  <2>11. CASE taken /\ IsDuplicateDevice(allFound, info)
    <3>1. UNCHANGED allFound /\ heard' = heard \cup {p}
      BY <2>8, <2>11
    <3>2. info.netId = p.netId /\ info.ipv4HostOrder = p.ip
      BY DEF ParseServerInfoPayload
    <3>3. Listed(p)
      BY <2>11, <3>2 DEF IsDuplicateDevice, SameDevice, Listed
    <3>. QED
      BY <2>2, <2>7, <3>1, <3>3, ListKeeps DEF DiscoveryInv, ShapeInv
  <2>12. CASE taken /\ ~IsDuplicateDevice(allFound, info)
    <3>1. allFound' = Append(allFound, info) /\ heard' = heard \cup {p}
      BY <2>8, <2>12
    <3>. QED
      BY <2>2, <2>7, <2>9, <2>12, <3>1, ListGrows
  <2>. QED
    BY <2>10, <2>11, <2>12
<1>2. ASSUME UNCHANGED <<buffer, allFound, heard>>
      PROVE  DiscoveryInv'
    BY <1>2, ListKeeps, Zenon DEF DiscoveryInv, ShapeInv, Range
<1>3. CASE RefuseTarget
    BY <1>2, <1>3 DEF RefuseTarget
<1>4. CASE RefuseArray
    BY <1>2, <1>4 DEF RefuseArray
<1>5. CASE ResolveFails
    BY <1>2, <1>5 DEF ResolveFails, Unresolved
<1>6. CASE SendFails
    BY <1>2, <1>6 DEF SendFails, Unresolved
<1>7. CASE Sends
    BY <1>2, <1>7 DEF Sends, Send
<1>8. CASE Tick
    BY <1>2, <1>8 DEF Tick
<1>9. CASE DeadlinePasses
    BY <1>2, <1>9 DEF DeadlinePasses, Finish
<1>10. CASE SelectFails
    BY <1>2, <1>10 DEF SelectFails, Finish
<1>11. CASE UNCHANGED vars
    BY <1>2, <1>11 DEF vars
<1>. QED
    BY <1>1, <1>3, <1>4, <1>5, <1>6, <1>7, <1>8, <1>9, <1>10, <1>11 DEF Next

LEMMA DiscoveryInvariant == Spec => []DiscoveryInv
<1>1. Init => DiscoveryInv
    BY DiscoveryInit
<1>2. DiscoveryInv /\ [Next]_vars => DiscoveryInv'
    BY DiscoveryNext, DiscoveryAssumption
<1>. QED
    BY <1>1, <1>2, PTL DEF Spec

-----------------------------------------------------------------------------
\* No device is in the list twice, and one that has answered from addresses no other device has
\* answered from is there (the loop of BroadcastDiscovery::Discover and IsDuplicateDevice), for any
\* devices and any loss, repetition and order of their replies.
THEOREM LoneDevicesAreListedOnce == Spec => []LoneDeviceOnce
<1>1. DiscoveryInv => LoneDeviceOnce
  <2>. SUFFICES ASSUME DiscoveryInv
                PROVE  LoneDeviceOnce
    OBVIOUS
  <2>1. ASSUME NEW p \in heard, Alone(p)
        PROVE  \E i \in DOMAIN allFound : allFound[i].netId = p.netId
    <3>1. PICK i \in DOMAIN allFound : allFound[i].netId = p.netId \/ allFound[i].ipv4HostOrder = p.ip
      BY DEF DiscoveryInv, Listed
    <3>2. PICK r \in heard : r.netId = allFound[i].netId /\ r.ip = allFound[i].ipv4HostOrder
      BY DEF DiscoveryInv, Sourced
    <3>3. CASE allFound[i].ipv4HostOrder = p.ip
      BY <2>1, <3>2, <3>3 DEF Alone
    <3>. QED
      BY <3>1, <3>3
  <2>2. \A i, j \in DOMAIN allFound : i # j => allFound[i].netId # allFound[j].netId
    BY DEF DiscoveryInv, Differ
  <2>. QED
    BY <2>1, <2>2 DEF LoneDeviceOnce
<1>. QED
    BY <1>1, DiscoveryInvariant, PTL

\* An entry says what one reply of its device said in its own bytes, never what an earlier and
\* longer datagram left behind in the buffer (the bounds checks of ParseServerInfoPayload), for
\* any tags and any size of the buffer.
THEOREM EntriesAreOwn == Spec => []OwnInfo
<1>1. DiscoveryInv => OwnInfo
    BY DEF DiscoveryInv, Sourced, OwnInfo
<1>. QED
    BY <1>1, DiscoveryInvariant, PTL
=============================================================================
