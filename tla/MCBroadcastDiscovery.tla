----------------------- MODULE MCBroadcastDiscovery -----------------------
\* A host with two adapters that are up and one that is down; addresses of four bits.
EXTENDS BroadcastDiscovery, TLC

Adapter(up, ip, prefix) == [up |-> up, family |-> "inet", ip |-> ip, prefix |-> prefix, masked |-> TRUE]
HostAdapters == {Adapter(TRUE, 1, 2), Adapter(TRUE, 9, 1), Adapter(FALSE, 5, 2)}

At(ip, prefix) == [ip |-> ip, prefix |-> prefix]
Device(netId, at, tags) == [netId |-> netId, at |-> at, count |-> Len(tags), tags |-> tags]

\* One device with two interfaces, two behind one address, and one that no adapter reaches.
SomeDevices == {
    Device("A", {At(2, 2), At(10, 1)}, <<Text(5, "a"), OsInfo(4, "Windows 7", 7601)>>),
    Device("B", {At(3, 2)}, <<Number(4, 30, 4), Number(20, 26100, 4)>>),
    Device("C", {At(3, 2)}, <<Text(4, "c"), Number(20, 50, 4), Text(3, "v")>>),
    Device("D", {At(6, 2)}, <<Text(15, "os"), Text(18, "f"), Number(20, 100, 4)>>)}

\* A datagram that is too short or of another service, one cut within its tags, one without tags,
\* and one longer than the buffer.
Datagram(head, netId, n, tags) ==
    [ip |-> 11, netId |-> netId, head |-> head, count |-> n, tags |-> tags]
Others == {
    Datagram("other", "X", 2, <<Text(5, "x"), Text(18, "y")>>),
    Datagram("reply", "E", 2, <<Number(20, 40, 1)>>),
    Datagram("reply", "F", 0, <<>>),
    Datagram("reply", "G", 4, <<Text(4, "g"), Number(20, 50, 4), Text(18, "h"), Text(5, "g")>>)}

Names == "255.255.255.255" :> {15} @@ "host" :> {2, 6} @@ "nowhere" :> {}

Call(target, timeout, array, cap) ==
    [target |-> target, timeout |-> timeout, array |-> array, cap |-> cap]
SomeCalls == {
    Call("null", 0, TRUE, 1), Call("host", 0, FALSE, 1), Call("host", 2, FALSE, 0),
    Call("nowhere", 0, TRUE, 1), Call("255.255.255.255", 0, TRUE, 2), Call("255.255.255.255", 1, TRUE, 5)}

=============================================================================
