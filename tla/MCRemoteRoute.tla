--------------------------- MODULE MCRemoteRoute ---------------------------
\* A target in the network of the third adapter and one in that of the second; the first is down.
EXTENDS RemoteRoute, TLC

CONSTANTS t1, t2, p1, p2

TwoThreads == {t1, t2}
TwoPorts == {p1, p2}

Adapter(up, ip, prefix) == [up |-> up, family |-> "inet", masked |-> TRUE, ip |-> ip, prefix |-> prefix]
HostAdapters == <<Adapter(FALSE, 9, 2), Adapter(TRUE, 3, 2), Adapter(TRUE, 8, 1), Adapter(TRUE, 10, 2)>>

Target(name, ip, id, extra) == [name |-> name, ip |-> ip, netId |-> id, extraTag |-> extra]
Plc == Target("plc", 9, "N", TRUE)
TwoTargets == {Plc, Target("drive", 2, "M", FALSE)}
LongName == <<"p", "c">>
=============================================================================
