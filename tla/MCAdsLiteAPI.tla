---------------------------- MODULE MCAdsLiteAPI ----------------------------
\* Two targets, two ports; each client's calls are chosen to meet the other's.
EXTENDS AdsLiteAPI

CONSTANTS c1, c2

TwoClients == {c1, c2}
TwoTargets == {"plc1", "plc2"}
Platforms == "plc1" :> 1 @@ "plc2" :> 2

Master(id, config) == [id |-> id, config |-> config]
Tables == {<<>>, <<Master(2, "a")>>, <<Master(3, "b"), Master(2, "b")>>,
           <<Master(1, "c"), Master(3, "c"), Master(2, "c")>>}

Machine(windows, built, mode, listener) ==
    [windows |-> windows, built |-> built, mode |-> mode, listener |-> listener]
Machines ==
    {Machine(FALSE, FALSE, "auto", "ads"), Machine(TRUE, TRUE, "twincat", "other.exe"),
     Machine(TRUE, TRUE, "auto", "tcatsyssrv.exe")}

C(op, addr, arg, length) == CallOf(op, addr, arg, length, {})
N(op, null) == CallOf(op, "plc1", "x", 0, null)
P(op) == CallOf(op, "plc1", None, 0, {})
Route(d) == C("initRouting", d, None, 0)
TheCalls ==
    c1 :> <<{P("portOpen")},
            {Route("plc1")},
            {C("readByName", "plc1", "x", 1), C("listECat", "plc1", None, 2),
             C("platformId", "plc1", None, 0), C("systemId", "plc1", None, 1),
             C("setTimeout", "plc1", None, 9)},
            {P("shutdownRouting"), P("portClose"), P("writeControl"),
             C("asyncRead", "plc1", "x", 1), N("read", {"data"}), N("readByName", {"data"})},
            {C("systemId", "plc1", None, 1), P("getTimeout")}>>
    @@ c2 :> <<{P("portOpen"), Route("plc2")},
               {C("getHandle", "plc1", "y", 1), C("writeByName", "plc1", "y", 1),
                C("systemId", "plc2", None, 1), C("platformId", "plc2", None, 0), 
                P("startProcess"), P("portOpen")},
               {C("releaseHandle", "plc1", None, 0), C("writeByHandle", "plc1", None, 1),
                C("write", "plc1", "x", 1), C("readWrite", "plc1", "x", 1), P("readState"),
                P("portOpen"), P("getLocalAddress"), C("setLocalAddress", None, "1.2.3.4.5.6", 0)}>>
=============================================================================
