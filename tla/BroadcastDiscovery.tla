------------------------ MODULE BroadcastDiscovery ------------------------
(***************************************************************************)
(* backend/BroadcastDiscovery.cpp and the DiscoverDevices of both backends *)
(* which call it: a SERVERINFO request goes by UDP to the address asked    *)
(* for and, for 255.255.255.255, to the broadcast address of every         *)
(* adapter; then replies are collected until a deadline.                   *)
(*                                                                         *)
(* UDP loses, repeats and reorders: any device that was asked may answer   *)
(* at any time, from any of its interfaces, any number of times or never.  *)
(* Addresses have Width bits; Global is the one of all ones.               *)
(***************************************************************************)
EXTENDS Integers, Sequences, FiniteSets, SequencesExt

CONSTANTS
    Width,
    Adapters,      \* of this host: [up, family, ip, prefix, masked]
    Devices,       \* sets of records [netId, at, count, tags]; at is a set of [ip, prefix]
    Noise,         \* datagrams from others: [ip, netId, head, count, tags]
    Resolves,      \* for each name a caller may pass, the addresses getaddrinfo gives
    Requests,      \* the arguments of calls: [target, timeout, array, cap]
    DefaultTime,   \* 2000 ms, in ticks
    BufferTags,    \* how many tags the buffer of 2048 bytes holds
    CallerCount    \* what *pDeviceCount holds before the call

VARIABLES
    pc,        \* where Discover is
    args,      \* its arguments
    left,      \* ticks until the deadline
    reached,   \* the addresses the request went to
    buffer,    \* the tags in the receive buffer; a datagram overwrites its own length
    allFound,
    count,     \* *pDeviceCount
    bytes,     \* *pBytesRequired, in entries
    out,       \* the caller's array
    ret,
    heard      \* history: the replies taken from the socket

vars == <<pc, args, left, reached, buffer, allFound, count, bytes, out, ret, heard>>

Global == 2 ^ Width - 1

ASSUME DiscoveryAssumption ==
    /\ Width \in Nat \ {0}
    /\ \A a \in Adapters : a.ip \in 0..Global /\ a.prefix \in Nat
    /\ \A d \in Devices :
           /\ d.at # {}
           /\ \A s \in d.at : s.ip \in 1..Global /\ s.prefix \in 0..Width
           /\ d.count \in Nat /\ d.tags \in Seq(Range(d.tags))
    \* No host sends from the address 0.
    /\ \A n \in Noise : n.ip \in 1..Global /\ n.count \in Nat /\ n.tags \in Seq(Range(n.tags))
    /\ DefaultTime \in Nat \ {0}
    /\ BufferTags \in Nat
    /\ \A r \in Requests : r.timeout \in Nat /\ r.cap \in Nat

-----------------------------------------------------------------------------
\* TLV tags.  A value is a text, a number of len bytes, or an OSVERSIONINFO structure.
Text(id, t) == [id |-> id, form |-> "text", text |-> t, num |-> 0, len |-> 1]
Number(id, n, len) == [id |-> id, form |-> "number", text |-> "", num |-> n, len |-> len]
OsInfo(id, release, build) ==
    [id |-> id, form |-> "osinfo", text |-> release, num |-> build, len |-> 276]

NoOs == [name |-> "", build |-> 0]
Hex == "hex"

\* A number read as a character string: its bytes, two by two when the high ones are 0.
PrintableByte(b) == b \in 9..13 \/ b \in 32..126
LooksLikeUtf16Le(v) == v.len % 2 = 0 /\ (v.len > 2 \/ v.num < 256)
IsMostlyPrintableAscii(v) ==
    \/ v.form = "text" /\ v.text # ""
    \/ /\ v.form = "number"
       /\ PrintableByte(v.num % 256)
       /\ LooksLikeUtf16Le(v) \/ v.num < 256 \/ PrintableByte(v.num \div 256)

\* The number a platform id or a build is read from: a structure begins with its length.
ReadLe32(v) == IF v.form = "osinfo" THEN v.len ELSE v.num
ReadLe16(v) == ReadLe32(v) % 65536

\* The platform id after TryReadPlatformId, which leaves the old one when it returns false.
TryReadPlatformId(v, old) ==
    CASE v.form # "text" /\ v.len \in {1, 2} -> v.num
      [] v.form # "text" /\ v.len >= 4 -> ReadLe32(v)
      [] OTHER -> old

\* The build number, likewise: four bytes in one range, or else the first two in another.
TryReadBuildNumber(v, old) ==
    CASE v.form # "text" /\ v.len >= 4 /\ ReadLe32(v) \in 1000..200000 -> ReadLe32(v)
      [] v.form # "text" /\ v.len >= 2 /\ ReadLe16(v) \in 100..65535 -> ReadLe16(v)
      [] OTHER -> old

\* Releases of Windows that an OSVERSIONINFO names; others are not accepted.
GetWindowsNameByVersion ==
    {"Windows 10", "Windows 8.1", "Windows 8", "Windows 7", "Windows Vista", "Windows XP"}

TryParseOsVersionInfoTag(v) == v.form = "osinfo" /\ v.text \in GetWindowsNameByVersion

GetPlatformName(p) ==
    CASE p = 30 -> "Windows XP/CE"
      [] p = 40 -> "Windows 7"
      [] p = 50 -> "Windows 10"
      [] p = 60 -> "Windows 11/Server 2022"
      [] p = 100 -> "Linux"
      [] OTHER -> ""

\* No build is 0, which stands for none.
ComposeOsVersionText(platform, build) ==
    CASE GetPlatformName(platform) # "" -> [name |-> GetPlatformName(platform), build |-> build]
      [] build # 0 -> [name |-> "Build", build |-> build]
      [] OTHER -> NoOs

\* Tag 4: text, an OSVERSIONINFO, or a platform id kept as text in hexadecimal.
ServiceTag(s, v) ==
    CASE IsMostlyPrintableAscii(v) -> [s EXCEPT !.serviceText = v]
      [] ~IsMostlyPrintableAscii(v) /\ TryParseOsVersionInfoTag(v) ->
           [s EXCEPT !.serviceText = Text(4, ""),
                     !.osVersion = [name |-> v.text, build |-> v.num],
                     !.build = IF v.num > 0 THEN v.num ELSE @]
      [] OTHER -> [s EXCEPT !.serviceText = Text(4, Hex),
                            !.platform = TryReadPlatformId(v, @)]

\* One turn of the loop over the tags.
ReadTag(s, v) ==
    LET t == [s EXCEPT !.rawTagMask = IF v.id < 32 THEN @ \cup {v.id} ELSE @]
    IN CASE v.id = 5 -> [t EXCEPT !.deviceName = v]
         [] v.id = 4 -> ServiceTag(t, v)
         [] v.id = 3 -> IF v.len >= 4 THEN [t EXCEPT !.runtimeVersion = v] ELSE t
         [] v.id = 18 -> [t EXCEPT !.fingerprint = v]
         [] v.id = 20 -> [t EXCEPT !.platform = TryReadPlatformId(v, @),
                                   !.build = TryReadBuildNumber(v, @)]
         [] v.id = 15 -> [t EXCEPT !.osVersion = [name |-> v.text, build |-> 0]]
         [] OTHER -> t

\* The fields that tags fill, all zero.
BlankInfo ==
    [deviceName |-> Text(5, ""), serviceText |-> Text(4, ""), fingerprint |-> Text(18, ""),
     runtimeVersion |-> Text(3, ""), osVersion |-> NoOs, rawTagMask |-> {}, platform |-> 0, build |-> 0]

\* The loop over the tags, and the text composed when none of them gave one.
ReadTags(tags) ==
    LET read == FoldLeft(ReadTag, BlankInfo, tags)
    IN [read EXCEPT !.osVersion =
           IF @.name = "" THEN ComposeOsVersionText(read.platform, read.build) ELSE @]

\* The tags a datagram leaves in the buffer: what it does not overwrite stays.
Received(buf, tags) ==
    LET len == IF Len(tags) < BufferTags THEN Len(tags) ELSE BufferTags
    IN SubSeq(tags, 1, len) \o SubSeq(buf, len + 1, Len(buf))

\* A mutation: the loop believes the count of tags and reads on in the buffer.
ReadsOldBytes(p, buf) == p.count <= Len(buf)
\* The loop finds each tag it was promised within the bytes that arrived.
PayloadComplete(p, buf) == p.count <= (IF Len(p.tags) < BufferTags THEN Len(p.tags) ELSE BufferTags)

\* ParseServerInfoPayload, of the first p.count tags in buf.
\* The address is the one the datagram came from, the NetId stands before the tags.
ParseServerInfoPayload(p, buf) ==
    [netId |-> p.netId, ipv4HostOrder |-> p.ip, told |-> ReadTags(SubSeq(buf, 1, p.count))]

\* A mutation: entries are compared by the address only.
SameAddress(a, b) == a.ipv4HostOrder # 0 /\ a.ipv4HostOrder = b.ipv4HostOrder
\* The comparison of IsDuplicateDevice.
SameDevice(a, b) == \/ a.netId = b.netId
                    \/ a.ipv4HostOrder # 0 /\ a.ipv4HostOrder = b.ipv4HostOrder
IsDuplicateDevice(items, info) == \E i \in DOMAIN items : SameDevice(items[i], info)

-----------------------------------------------------------------------------
\* BuildDirectedBroadcastTargets: ip | ~mask of each adapter that is up.
BroadcastOf(ip, prefix) ==
    LET hosts == 2 ^ (Width - (IF prefix > Width THEN Width ELSE prefix))
    IN (ip \div hosts) * hosts + hosts - 1
BuildDirectedBroadcastTargets ==
    {BroadcastOf(a.ip, a.prefix) : a \in {b \in Adapters : b.up /\ b.family = "inet" /\ b.masked}}

IsGlobalBroadcast(target) == target = "255.255.255.255"
Targets(target) ==
    Resolves[target] \cup (IF IsGlobalBroadcast(target) THEN BuildDirectedBroadcastTargets ELSE {})

\* External: whom a datagram to an address reaches, and what may arrive at the socket.
Reaches(to, s) == to \in {Global, s.ip, BroadcastOf(s.ip, s.prefix)}
Reply(d, s) == [ip |-> s.ip, netId |-> d.netId, head |-> "reply", count |-> d.count, tags |-> d.tags]
Arriving ==
    Noise \cup UNION {{Reply(d, s) : s \in {t \in d.at : \E to \in reached : Reaches(to, t)}} : d \in Devices}

-----------------------------------------------------------------------------
Init ==
    /\ pc = "idle"
    /\ args \in Requests
    /\ left = 0
    /\ reached = {}
    /\ buffer = <<>>
    /\ allFound = <<>>
    /\ count = CallerCount
    /\ bytes = 0
    /\ out = [i \in 1..args.cap |-> "unwritten"]
    /\ ret = "none"
    /\ heard = {}

\* DiscoverDevices sets *pBytesRequired after Discover, whatever that returned.
Return(code) ==
    /\ pc' = "done"
    /\ ret' = code
    /\ bytes' = count'

\* DiscoverDevices refuses without a target, Discover without an array for its capacity.
RefuseTarget ==
    /\ pc = "idle" /\ args.target = "null"
    /\ pc' = "done" /\ ret' = "INVALIDPARM"
    /\ UNCHANGED <<args, left, reached, buffer, allFound, count, bytes, out, heard>>

NoRoomFor(a) == ~a.array /\ a.cap # 0

RefuseArray ==
    /\ pc = "idle" /\ args.target # "null" /\ NoRoomFor(args)
    /\ count' = count
    /\ Return("INVALIDPARM")
    /\ UNCHANGED <<args, left, reached, buffer, allFound, out, heard>>

Accepted == pc = "idle" /\ args.target # "null" /\ ~NoRoomFor(args)

\* The socket library, getaddrinfo or socket() fails.
Unresolved(code) ==
    /\ Accepted
    /\ code = "INVALIDPARM" \/ Resolves[args.target] # {}
    /\ count' = 0
    /\ Return(code)
    /\ UNCHANGED <<args, left, reached, buffer, allFound, out, heard>>

Window(a) == IF a.timeout > 0 THEN a.timeout ELSE DefaultTime

\* sendto to each address; those of ok succeed.  The deadline runs from here.
Send(ok) ==
    /\ Resolves[args.target] # {}
    /\ ok # {}
    /\ reached' = ok
    /\ count' = 0
    /\ left' = Window(args)
    /\ pc' = "collect"
    /\ UNCHANGED <<args, buffer, allFound, bytes, out, ret, heard>>

SendFails == Unresolved("CLIENT_ERROR")
ResolveFails == Unresolved("INVALIDPARM")

\* A mutation: every datagram starts the window anew.
RestartsWindow(ticks) == Window(args)
\* What select waits for is taken from the deadline, which no datagram moves.
RemainMs(ticks) == ticks

\* select reports a datagram and recvfrom takes it; what is no reply is dropped.
Receive(p) ==
    LET buf == Received(buffer, p.tags)
        taken == p.head = "reply" /\ PayloadComplete(p, buf)
        info == ParseServerInfoPayload(p, buf)
    IN /\ pc = "collect" /\ left > 0
       /\ buffer' = buf
       /\ left' = RemainMs(left)
       /\ heard' = IF taken THEN heard \cup {p} ELSE heard
       /\ allFound' = IF taken /\ ~IsDuplicateDevice(allFound, info) THEN Append(allFound, info) ELSE allFound
       /\ UNCHANGED <<pc, args, reached, count, bytes, out, ret>>

Tick ==
    /\ pc = "collect" /\ left > 0
    /\ left' = left - 1
    /\ UNCHANGED <<pc, args, reached, buffer, allFound, count, bytes, out, ret, heard>>

CopyCount(cap, n) == IF cap < n THEN cap ELSE n

\* The deadline has passed, or select failed, which a signal is enough for.
Finish ==
    /\ pc = "collect"
    /\ count' = Len(allFound)
    /\ out' = [i \in DOMAIN out \cup 1..CopyCount(args.cap, count') |->
                  IF i <= CopyCount(args.cap, count') THEN allFound[i] ELSE out[i]]
    /\ Return(IF count' = 0 THEN "SYNCTIMEOUT" ELSE "NOERR")
    /\ UNCHANGED <<args, left, reached, buffer, allFound, heard>>

DeadlinePasses == left = 0 /\ Finish
SelectFails == left > 0 /\ Finish

Collects == \E p \in Arriving : Receive(p)
Sends == Accepted /\ \E ok \in SUBSET Targets(args.target) : Send(ok)

Next ==
    \/ RefuseTarget
    \/ RefuseArray
    \/ ResolveFails
    \/ SendFails
    \/ Sends
    \/ Collects
    \/ Tick
    \/ DeadlinePasses
    \/ SelectFails

Spec == Init /\ [][Next]_vars

\* Time passes, and the thread of the caller runs.
Fairness == WF_vars(Tick) /\ WF_vars(DeadlinePasses)
FairSpec == Spec /\ Fairness

-----------------------------------------------------------------------------
\* What a reply says by itself.
Said(p) == ParseServerInfoPayload(p, p.tags)

\* Whether no other device has answered from an address of the one that sent p.
Alone(p) == \A q, r \in heard : q.netId = p.netId /\ r.ip = q.ip => r.netId = p.netId

\* No device is listed twice, and one that shares no address with another is listed once it has
\* been heard, whatever the order and the repetition of the replies and however many interfaces
\* they come from (the loop with IsDuplicateDevice, BroadcastDiscovery.cpp:537).
LoneDeviceOnce ==
    /\ \A i, j \in DOMAIN allFound : i # j => allFound[i].netId # allFound[j].netId
    /\ \A p \in heard : Alone(p) => \E i \in DOMAIN allFound : allFound[i].netId = p.netId

\* "Collects the information of all responding devices within the timeout window"
\* (AdsLiteAPI.h:59, README.md:116).  This does not hold of two devices behind one address.
EveryDeviceListed ==
    \A p \in heard : \E i \in DOMAIN allFound : allFound[i].netId = p.netId

\* What an entry says of a device comes from one reply of that device, never from the bytes an
\* earlier, longer datagram left in the buffer (the bounds checks of ParseServerInfoPayload).
OwnInfo ==
    \A i \in DOMAIN allFound : \E p \in heard :
        /\ p.netId = allFound[i].netId /\ p.ip = allFound[i].ipv4HostOrder
        /\ p.count <= Len(p.tags)
        /\ allFound[i] = Said(p)

\* The call returns although datagrams never stop arriving (the deadline of Discover).
DiscoverReturns == (pc = "collect") ~> (pc = "done")

=============================================================================
