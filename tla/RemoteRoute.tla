---------------------------- MODULE RemoteRoute ----------------------------
(***************************************************************************)
(* AdsLiteInitRouting and AdsLiteGetDeviceNetId: UDP exchanges with port   *)
(* 48899 of the target that read its NetId (GetRemoteAddress) and enter    *)
(* the way back to this host (AddRemoteRoute), and the local route then    *)
(* added (standalone/AdsLiteLib.cpp, Frame, the UDP side of Sockets.cpp,   *)
(* NetworkUtils.cpp and InitRouting of both backends).                     *)
(*                                                                         *)
(* A socket is bound to an ephemeral port and not connected: it takes what *)
(* anybody sends to that port, an answer to an earlier exchange of another *)
(* socket included.  Datagrams are lost, repeated and late.                *)
(***************************************************************************)
EXTENDS Frame, FiniteSets

CONSTANTS
    Threads,
    Hosts,          \* targets: [name, ip, netId, extraTag]; ip is -1 where the name is no numeral
    Adapters,       \* of this host, in order: [up, family, masked, ip, prefix]
    Width,          \* of an address, in bits
    RouteName,      \* the name of this computer, a sequence of cells; <<>> when unknown
    LongestText,    \* 65535 bytes
    FrameCells,     \* 256 bytes, the frame of a request
    ResponseCells,  \* 4096 bytes
    EphemeralPorts,
    Refusal,        \* the code of a target that refuses a route
    MaxCalls        \* bound on the calls of a thread

VARIABLES
    pc, calls,      \* of each thread
    op, host,       \* its call, and the target
    frame,          \* its Frame
    port,           \* the port of its socket
    netId,          \* *ams
    ret,
    requests,       \* datagrams sent to targets; one that is lost is never served
    answers,        \* datagrams sent to ports of this host; one that is lost is never received
    remoteRoutes,   \* at the targets: who may be reached where
    localRoutes

locals == <<calls, op, host, netId>>
network == <<requests, answers, remoteRoutes>>
vars == <<pc, locals, frame, port, ret, network, localRoutes>>

ASSUME RouteAssumption ==
    /\ \A h \in Hosts : h.ip \in -1 .. (2 ^ Width - 1)
    /\ \A h \in Hosts : h.netId # "none" /\ h.extraTag \in BOOLEAN
    /\ RouteName \in Seq({RouteName[k] : k \in DOMAIN RouteName})
    /\ FrameCells \in Nat /\ LongestText \in Nat /\ MaxCalls \in Nat
    /\ ResponseCells \in Nat /\ ResponseCells >= 11   \* an answer of a target is not cut short
    /\ Refusal # "NOERR"

None == "none"
NoIp == -1
Cookie == "cookie"
InvokeId == 0
SERVERINFO == 1
ADDROUTE == 6
RESPONSE == 100

-----------------------------------------------------------------------------
\* getLocalIpForTarget: the address of the first adapter whose network has the target's address.
NetOf(ip, prefix) == ip \div 2 ^ (Width - Smaller(prefix, Width))
getLocalIpForTarget(h) ==
    LET fits(a) == /\ a.up /\ a.family = "inet" /\ a.masked
                   /\ NetOf(a.ip, a.prefix) = NetOf(h.ip, a.prefix)
    IN IF h.ip = NoIp THEN NoIp
       ELSE IF \E i \in DOMAIN Adapters : fits(Adapters[i])
            THEN SelectSeq(Adapters, fits)[1].ip
            ELSE NoIp

LocalNetId(ip) == <<ip, 1, 1>>
IpText(ip) == <<ip>>

\* PrependUdpTag and PrependUdpLenTagId: a text that is too long is left out, and not counted.
Fits(value) == Len(value) + 1 <= LongestText
PrependUdpTag(f, value, tagId) ==
    IF Fits(value) THEN prepend(prepend(prepend(f, value), <<Len(value)>>), <<tagId>>) ELSE f

\* UdpTag
PASSWORD == 2
COMPUTERNAME == 5
NETID == 7
ROUTENAME == 12
USERNAME == 13
RESULT == 1

Tags(ip) == <<  \* as AddRemoteRoute prepends them, the last one first in the datagram
    [id |-> COMPUTERNAME, value |-> IpText(ip)],
    [id |-> PASSWORD, value |-> <<"1">>],
    [id |-> USERNAME, value |-> <<"Administrator">>],
    [id |-> NETID, value |-> <<LocalNetId(ip)>>],
    [id |-> ROUTENAME, value |-> IF RouteName = <<>> THEN IpText(ip) ELSE RouteName]>>

\* A mutation: tags that were left out are counted as well.
CountsAll(tags) == Len(tags)
tagCount(tags) == Cardinality({k \in DOMAIN tags : Fits(tags[k].value)})

PrependHeader(f, serviceId) ==
    prepend(prepend(prepend(f, <<serviceId>>), <<InvokeId>>), <<Cookie>>)

\* The frames that AddRemoteRoute and GetRemoteAddress give SendRecv to send.
AddRouteFrame(ip) ==
    LET tagged(f, k) == PrependUdpTag(f, Tags(ip)[k].value, Tags(ip)[k].id)
        all == tagged(tagged(tagged(tagged(tagged(FrameOf(FrameCells), 1), 2), 3), 4), 5)
    IN PrependHeader(prepend(prepend(all, <<tagCount(Tags(ip))>>), <<LocalNetId(ip)>>), ADDROUTE)
ServerInfoFrame ==
    PrependHeader(prepend(prepend(FrameOf(FrameCells \div 2), <<0>>), <<"no address">>), SERVERINFO)

-----------------------------------------------------------------------------
Init ==
    /\ pc = [t \in Threads |-> "idle"]
    /\ calls = [t \in Threads |-> 0]
    /\ op = [t \in Threads |-> None]
    /\ host \in [Threads -> Hosts]
    /\ frame = [t \in Threads |-> FrameOf(0)]
    /\ port = [t \in Threads |-> None]
    /\ netId = [t \in Threads |-> None]
    /\ ret = [t \in Threads |-> None]
    /\ requests = {}
    /\ answers = {}
    /\ remoteRoutes = {}
    /\ localRoutes = {}

Goto(t, to) == pc' = [pc EXCEPT ![t] = to]
Return(t, code) ==
    /\ Goto(t, "idle")
    /\ port' = [port EXCEPT ![t] = None]
    /\ frame' = [frame EXCEPT ![t] = FrameOf(0)]
    /\ ret' = [ret EXCEPT ![t] = code]

\* InitRouting, or GetDeviceNetId (all that TwinCATBackend's InitRouting does as well).
Call(t, kind, h) ==
    /\ pc[t] = "idle" /\ calls[t] < MaxCalls
    /\ calls' = [calls EXCEPT ![t] = @ + 1]
    /\ op' = [op EXCEPT ![t] = kind]
    /\ host' = [host EXCEPT ![t] = h]
    /\ netId' = [netId EXCEPT ![t] = None]
    /\ ret' = [ret EXCEPT ![t] = None]
    /\ frame' = [frame EXCEPT ![t] = ServerInfoFrame]
    /\ Goto(t, "send")
    /\ UNCHANGED <<port, network, localRoutes>>

\* SendRecv: the socket is made, and the frame sent; the result of write is not looked at.
Datagram(t, p) == [to |-> host[t], from |-> p, cells |-> content(frame[t])]

Send(t, p) ==
    /\ pc[t] = "send"
    /\ \A u \in Threads : port[u] # p
    /\ port' = [port EXCEPT ![t] = p]
    /\ requests' = requests \cup {Datagram(t, p)}
    /\ frame' = [frame EXCEPT ![t] = reset(@, ResponseCells)]
    /\ Goto(t, "receive")
    /\ UNCHANGED <<locals, ret, answers, remoteRoutes, localRoutes>>

\* GetListOfAddresses throws runtime_error, the constructor of UdpSocket system_error; InitRouting
\* turns each into a code, GetDeviceNetId lets them pass.
Throws(t, code) ==
    /\ pc[t] = "send"
    /\ Return(t, IF op[t] = "init" THEN code ELSE "exception")
    /\ UNCHANGED <<locals, network, localRoutes>>

UnknownHost(t) == Throws(t, "CLIENT_ERROR")
NoSocket(t) == Throws(t, "W32ERROR")

\* No datagram within the three seconds of SendRecv, or an error of select or recv.
Fails(t, code) ==
    /\ pc[t] = "receive"
    /\ Return(t, code)
    /\ UNCHANGED <<locals, network, localRoutes>>

\* A mutation: select is given no time.
WaitsForAnswer(t) == FALSE
SelectTimesOut(t) == Fails(t, "SYNCTIMEOUT")
ReadFails(t) == Fails(t, "CLIENT_ERROR")

\* The header of a response, as SendRecv checks it: the code it refuses with, or NOERR.
SentService(t) == IF netId[t] = None THEN SERVERINFO ELSE ADDROUTE
HeaderStatus(f, serviceId) ==
    CASE capacity(f) < 3 -> "INVALIDSIZE"
      [] capacity(f) >= 3 /\ SubSeq(content(f), 1, 3) # <<Cookie, InvokeId, RESPONSE + serviceId>> ->
           "INVALIDDATA"
      [] OTHER -> "NOERR"

\* What is left after one tag that is not the result: its value is removed.
SkipTag(f) == remove(popped(popped(f)), Peek(popped(f)))

\* A mutation: the first tag is taken for the result.
IsAnyTag(id) == TRUE
IsResult(id) == id = RESULT

\* AddRemoteRoute's loop over the n tags of the response: the frame at each, and the code in the
\* first one that is a result.
AtTag(f, n) == LET at[k \in 0..n] == IF k = 0 THEN f ELSE SkipTag(at[k - 1]) IN at
ResponseCode(f, n) ==
    LET at == AtTag(f, n)
        results == {k \in 0..(n - 1) : IsResult(Peek(at[k]))}
        first == at[CHOOSE k \in results : \A j \in results : k <= j]
    IN CASE results = {} -> "INVALIDDATA"
         [] results # {} /\ Peek(popped(first)) # 1 -> "INVALIDSIZE"
         [] OTHER -> Peek(popped(popped(first)))

\* What the response to AddRemoteRoute says, the header and the AmsAddr removed.
AddRouteStatus(f) ==
    LET body == remove(f, 4)
    IN IF capacity(f) < 2 THEN "INVALIDSIZE" ELSE ResponseCode(popped(body), Peek(body))

\* GetDeviceNetId has its NetId; InitRouting goes on with the address of this host.
GotNetId(t, f) ==
    LET ip == getLocalIpForTarget(host[t])
    IN /\ netId' = [netId EXCEPT ![t] = content(f)[4]]
       /\ IF op[t] = "init" /\ ip # NoIp
          THEN /\ frame' = [frame EXCEPT ![t] = AddRouteFrame(ip)]
               /\ port' = [port EXCEPT ![t] = None]
               /\ Goto(t, "send")
               /\ UNCHANGED ret
          ELSE Return(t, IF op[t] = "init" THEN "CLIENT_ERROR" ELSE "NOERR")

GotResult(t, code) ==
    /\ IF code = "NOERR" THEN Goto(t, "add") /\ UNCHANGED <<port, frame, ret>> ELSE Return(t, code)
    /\ UNCHANGED netId

\* A datagram is taken from the port, whoever sent it and whatever it answers.
Receive(t, a) ==
    LET f == received(frame[t], a.cells)
        status == HeaderStatus(f, SentService(t))
    IN /\ pc[t] = "receive"
       /\ a \in answers /\ a.to = port[t]
       /\ \/ status = "NOERR" /\ SentService(t) = SERVERINFO /\ GotNetId(t, f)
          \/ status = "NOERR" /\ SentService(t) = ADDROUTE /\ GotResult(t, AddRouteStatus(f))
          \/ status # "NOERR" /\ Return(t, status) /\ UNCHANGED netId
       /\ UNCHANGED <<calls, op, host, network, localRoutes>>

\* AddLocalRoute: AmsRouter adds the route, or it fails to connect or runs out of memory.
AddLocalRoute(t, code) ==
    /\ pc[t] = "add"
    /\ localRoutes' = IF code = "NOERR" THEN localRoutes \cup {[netId |-> netId[t], host |-> host[t]]}
                      ELSE localRoutes
    /\ Return(t, code)
    /\ UNCHANGED <<locals, network>>

\* ShutdownRouting: the target is not told.  The route stays while its connection has other uses.
ShutdownRouting(t, r) ==
    /\ pc[t] = "idle" /\ calls[t] < MaxCalls
    /\ calls' = [calls EXCEPT ![t] = @ + 1]
    /\ localRoutes' \in {localRoutes, localRoutes \ {r}}
    /\ UNCHANGED <<pc, op, host, netId, frame, port, ret, network>>

-----------------------------------------------------------------------------
\* External: a target serves a request that reached it, at any time, as often as it was repeated.
Answer(r, extra) == [to |-> r.from, cells |-> <<Cookie, InvokeId, RESPONSE + r.cells[3], r.to.netId>> \o extra]
\* The result, behind a tag of another kind if the target's version sends one.
ResultTags(r, code) ==
    IF r.to.extraTag THEN <<2, 3, 1, "NOERR", RESULT, 1, code>> ELSE <<1, RESULT, 1, code>>

TellsNetId(r) ==
    /\ r.cells[3] = SERVERINFO
    /\ answers' = answers \cup {Answer(r, <<0>>)}
    /\ UNCHANGED <<pc, locals, frame, port, ret, requests, remoteRoutes, localRoutes>>

EntersRoute(r) ==
    /\ r.cells[3] = ADDROUTE
    /\ remoteRoutes' = remoteRoutes \cup {[at |-> r.to, netId |-> r.cells[4]]}
    /\ answers' = answers \cup {Answer(r, ResultTags(r, "NOERR"))}
    /\ UNCHANGED <<pc, locals, frame, port, ret, requests, localRoutes>>

RefusesRoute(r) ==
    /\ r.cells[3] = ADDROUTE
    /\ answers' = answers \cup {Answer(r, ResultTags(r, Refusal))}
    /\ UNCHANGED <<pc, locals, frame, port, ret, requests, remoteRoutes, localRoutes>>

Serves == \E r \in requests : TellsNetId(r) \/ EntersRoute(r) \/ RefusesRoute(r)

Calls == \E t \in Threads, kind \in {"init", "netid"}, h \in Hosts : Call(t, kind, h)
Sends == \E t \in Threads, p \in EphemeralPorts : Send(t, p)
Exceptions == \E t \in Threads : UnknownHost(t) \/ NoSocket(t)
TimesOut == \E t \in Threads : SelectTimesOut(t)
ReadErrors == \E t \in Threads : ReadFails(t)
Receives == \E t \in Threads : \E a \in answers : Receive(t, a)
AddsRoute == \E t \in Threads, code \in {"NOERR", "NO_MEMORY", "TARGET_PORT"} : AddLocalRoute(t, code)
Shutdowns == \E t \in Threads : \E r \in localRoutes : ShutdownRouting(t, r)

Next ==
    \/ Serves
    \/ Calls
    \/ Sends
    \/ Exceptions
    \/ TimesOut
    \/ ReadErrors
    \/ Receives
    \/ AddsRoute
    \/ Shutdowns

Spec == Init /\ [][Next]_vars

\* The threads run, and select returns after its time; targets and the network promise nothing.
Runs(t) ==
    \/ \E p \in EphemeralPorts : Send(t, p)
    \/ SelectTimesOut(t)
    \/ AddLocalRoute(t, "NOERR")
FairSpec == Spec /\ \A t \in Threads : WF_vars(Runs(t))

-----------------------------------------------------------------------------
\* Every datagram sent to enter a route is what the target's parser expects, wherever the frame had
\* to grow while it was built: the header, as many tags as it counts, in the order of the code, each
\* with its own length (Frame::prepend, PrependUdpTag and tagCount).
RequestWellFormed ==
    \A r \in requests : r.cells[3] = ADDROUTE =>
        LET ip == getLocalIpForTarget(r.to)
            value(k) == Tags(ip)[k].value
            kept(k) == Len(value(k)) < LongestText
            written(k) == IF kept(k) THEN <<Tags(ip)[k].id, Len(value(k))>> \o value(k) ELSE <<>>
        IN r.cells = <<Cookie, InvokeId, ADDROUTE, LocalNetId(ip), Cardinality({k \in 1..5 : kept(k)})>>
                     \o written(5) \o written(4) \o written(3) \o written(2) \o written(1)

\* The route a target enters to lead back to this host.
WayBack(h) == [at |-> h, netId |-> LocalNetId(getLocalIpForTarget(h))]

\* Only its target was ever asked from the port t has now.
AskedOnly(t) == \A r \in requests : r.from = port[t] => r.to = host[t]

\* What an exchange takes for the NetId of its target is that, and what it takes for the consent to
\* its route was given: no refusal, no leftover of a longer answer, no answer of the other service
\* (the checks of SendRecv and of the result tag; the order of the steps of InitRouting).  That
\* holds on a port from which no other target was asked: the sender is not looked at.
AnsweredByTarget ==
    [][\A t \in Threads : pc[t] = "receive" /\ AskedOnly(t) =>
         /\ netId'[t] # netId[t] => netId'[t] = host[t].netId
         /\ pc'[t] = "add" => WayBack(host[t]) \in remoteRoutes]_vars

\* The steps of AdsLiteInitRouting (AdsLiteAPI.h:116): "1. get the AMS NetId of the target device",
\* "3. configure the local routing table", "4. configure the remote routing table".  This does not
\* hold: a late answer of another target passes where AskedOnly is false.
RoutedBothWays ==
    \A r \in localRoutes : r.netId = r.host.netId /\ WayBack(r.host) \in remoteRoutes

\* Every call returns, whatever is lost (the timeout of SendRecv).
ExchangesEnd == \A t \in Threads : (pc[t] # "idle") ~> (pc[t] = "idle")
=============================================================================
