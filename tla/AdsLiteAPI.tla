----------------------------- MODULE AdsLiteAPI -----------------------------
(***************************************************************************)
(* The calls of AdsLiteAPI.cpp that take more than the port table: reads   *)
(* and writes, symbols by handle and by name, the cached ids of the target *)
(* (TargetSystemInfo), the EtherCAT masters (AdsECatService) and processes *)
(* (AdsStartProcessService), over the request functions of AdsLiteLib and  *)
(* of both backends.                                                       *)
(*                                                                         *)
(* A call is a sequence of requests; other clients, and the target itself, *)
(* act between them.  An action is one request and what the call does with *)
(* its answer, up to the next request.  What happens to a request below    *)
(* AdsSyncReadReqEx2 is AmsRouter's and AmsConnection's: here it succeeds, *)
(* is refused, or times out, executed or not.                              *)
(***************************************************************************)
EXTENDS AdsPorts, Sequences, SequencesExt, TLC

CONSTANTS
    Targets,
    Symbols,       \* the names the target's program knows
    NoSymbol,
    Handles,       \* the handles it has to give: numbers
    PlatformId,    \* of each target
    DeviceTables,  \* the EtherCAT masters it may have: sequences of [id, config]
    MaxDevices,    \* 65535
    Calls,         \* bound: of each client, a sequence of sets, the calls its n-th may be
    MaxFaults      \* bound: requests and exchanges that time out, and changes of a configuration

VARIABLES
    target,                      \* each target's [handle, value, devices]
    routes,                      \* the targets with a local route
    targetPlatformId, targetSystemId,
    st,                          \* each client's call, where it is, and its local variables
    held,                        \* <<target, handle>> that the client was given to release
    faults,
    asked,   \* history: the targets of id calls that were in progress since the last Clear
    lost     \* history: <<target, handle>> whose number, or whose release, was lost on the way

apiVars == <<target, routes, targetPlatformId, targetSystemId, st, held, faults, asked, lost>>
vars == <<portVars, calls, ret, apiVars>>

ASSUME APIAssumption ==
    /\ MaxFaults \in Nat /\ MaxDevices \in Nat
    /\ Handles \subseteq Nat \ {0} /\ NoSymbol \notin Symbols
    /\ \A t \in DeviceTables : t \in Seq({t[i] : i \in DOMAIN t})
    /\ \E t \in DeviceTables : t # <<>>

None == "none"
Unknown == 0  \* ADSLITE_PLATFORM_ID_UNKNOWN
SystemId(d) == d

\* A call: its name, *pAddr, the symbol or the length or capacity, the pointers that are null.
CallOf(op, addr, arg, length, null) ==
    [op |-> op, addr |-> addr, arg |-> arg, length |-> length, null |-> null]
NoCall == CallOf(None, None, None, 0, {})

\* A master in the list, of which only the id is known.
Device(id) == [id |-> id, type |-> None, name |-> None, netId |-> None]

Idle(k) == [pc |-> "idle", call |-> k, port |-> 0, handle |-> 0, data |-> None, status |-> "OK",
            count |-> 0, ids |-> <<>>, info |-> Device(0), masters |-> <<>>, seen |-> {}]

Init ==
    /\ PortInit
    /\ calls = [c \in Clients |-> 0]
    /\ ret = [c \in Clients |-> Result(None, None, "OK", None)]
    /\ target = [d \in Targets |-> [handle |-> [h \in Handles |-> NoSymbol],
                                    value |-> [s \in Symbols \cup {"state", "process"} |-> 0],
                                    devices |-> CHOOSE t \in DeviceTables : t # <<>>]]
    /\ routes = {}
    /\ targetPlatformId = Unknown
    /\ targetSystemId = None
    /\ st = [c \in Clients |-> Idle(NoCall)]
    /\ held = [c \in Clients |-> {}]
    /\ faults = 0
    /\ asked = {}
    /\ lost = {}

At(c, pc) == st[c].pc = pc
Call(c) == st[c].call
Addr(c) == Call(c).addr

-----------------------------------------------------------------------------
(***************************************************************************)
(* What a call is refused for before anything is sent.                     *)
(***************************************************************************)
Null(k, pointer) == pointer \in k.null

\* The status of the first test, in the order of the code, that holds.
Refused(tests) ==
    LET hit == {i \in DOMAIN tests : tests[i][1]} IN IF hit = {} THEN "OK" ELSE tests[Min(hit)][2]

\* ASSERT_PORT_AND_AMSADDR, and the request functions of AdsLiteLib.
AssertPortAndAmsAddr(k, p) == <<<<p = 0, "PORTNOTOPEN">>, <<Null(k, "addr"), "NOAMSADDR">>>>

AdsSyncReadReqEx2(k, p) ==
    Refused(AssertPortAndAmsAddr(k, p) \o <<<<Null(k, "data"), "INVALIDPARM">>>>)
AdsSyncWriteReqEx2(k, p) ==
    Refused(AssertPortAndAmsAddr(k, p) \o <<<<Null(k, "data"), "INVALIDPARM">>>>)
AdsSyncReadWriteReqEx2(k, p) ==
    Refused(AssertPortAndAmsAddr(k, p)
            \o <<<<k.length > 0 /\ (Null(k, "out") \/ Null(k, "data")), "INVALIDPARM">>>>)
AdsSyncReadStateReqEx(k, p) ==
    Refused(AssertPortAndAmsAddr(k, p) \o <<<<Null(k, "out"), "INVALIDPARM">>>>)
AdsSyncWriteControlReqEx(k, p) == Refused(AssertPortAndAmsAddr(k, p))

\* The functions of TwinCATBackend before they call TcAdsDll: a read or write of no bytes needs no buffer.
TwinCATRead(k) ==
    Refused(<<<<Null(k, "addr"), "NOAMSADDR">>, <<k.length > 0 /\ Null(k, "data"), "INVALIDPARM">>>>)
TwinCATWrite(k) ==
    Refused(<<<<Null(k, "addr"), "NOAMSADDR">>, <<k.length > 0 /\ Null(k, "data"), "INVALIDPARM">>>>)
TwinCATReadWrite(k) ==
    Refused(<<<<Null(k, "addr"), "NOAMSADDR">>,
              <<k.length > 0 /\ (Null(k, "out") \/ Null(k, "data")), "INVALIDPARM">>>>)
TwinCATReadState(k) ==
    Refused(<<<<Null(k, "addr"), "NOAMSADDR">>, <<Null(k, "out"), "INVALIDPARM">>>>)
TwinCATWriteControl(k) ==
    Refused(<<<<Null(k, "addr"), "NOAMSADDR">>, <<k.length > 0 /\ Null(k, "data"), "INVALIDPARM">>>>)

\* The virtual functions of IAdsBackend.
SyncReadReq(k, p) == IF Standalone THEN AdsSyncReadReqEx2(k, p) ELSE TwinCATRead(k)
SyncWriteReq(k, p) == IF Standalone THEN AdsSyncWriteReqEx2(k, p) ELSE TwinCATWrite(k)
SyncReadWriteReq(k, p) == IF Standalone THEN AdsSyncReadWriteReqEx2(k, p) ELSE TwinCATReadWrite(k)
SyncReadStateReq(k, p) == IF Standalone THEN AdsSyncReadStateReqEx(k, p) ELSE TwinCATReadState(k)
SyncWriteControlReq(k, p) ==
    IF Standalone THEN AdsSyncWriteControlReqEx(k, p) ELSE TwinCATWriteControl(k)

\* The tests of the functions above the backend.
ByNameGuard(k) == Refused(<<<<Null(k, "name") \/ Null(k, "data"), "INVALIDPARM">>,
                            <<k.arg = "too long", "INVALIDDATA">>>>)
ByHandleGuard(k) == Refused(<<<<Null(k, "data"), "INVALIDPARM">>>>)
IdGuard(k) == Refused(<<<<Null(k, "addr") \/ Null(k, "out"), "INVALIDPARM">>,
                        <<k.op = "systemId" /\ k.length = 0, "INVALIDSIZE">>>>)
StartProcessGuard(k) ==
    Refused(<<<<Null(k, "addr") \/ Null(k, "name") \/ k.arg = "", "INVALIDPARM">>>>)
ECatGuard(k) == Refused(<<<<Null(k, "addr") \/ Null(k, "count"), "INVALIDPARM">>>>)

-----------------------------------------------------------------------------
(***************************************************************************)
(* Requests.                                                               *)
(***************************************************************************)
Answer(status, effect, data) == [status |-> status, target |-> effect, data |-> data, fault |-> 0]

\* How the router and the backend turn a request away before it is sent.
Unroutable(c, guard) ==
    Refused(<<<<guard # "OK", guard>>,
              <<Standalone /\ Addr(c) \notin routes, "MISSING_ROUTE">>,
              <<LocalAddressStatus(st[c].port) # "OK", "PORTNOTOPEN">>>>)

\* What may become of a request that the target would give this answer to.
Outcomes(c, guard, answer) ==
    LET s == Unroutable(c, guard)
    IN IF s # "OK" THEN {[answer EXCEPT !.status = s, !.target = target]}
       ELSE {answer} \cup
            IF faults < MaxFaults
            THEN {[answer EXCEPT !.status = "TIMEOUT", !.fault = 1, !.target = e] :
                    e \in {target, answer.target}}
            ELSE {}

Takes(r) == target' = r.target /\ faults' = faults + r.fault

\* The call of c goes on with the local variables s, or returns.
Proceed(c, s) == st' = [st EXCEPT ![c] = s] /\ UNCHANGED <<calls, ret>>
Finish(c, status, value) ==
    /\ st' = [st EXCEPT ![c] = Idle(NoCall)]
    /\ ret' = [ret EXCEPT ![c] = Result(Call(c).op, Call(c).arg, status, value)]
    /\ UNCHANGED calls

ids == <<targetPlatformId, targetSystemId, asked>>
symbols == <<held, lost>>

-----------------------------------------------------------------------------
(***************************************************************************)
(* The beginning of every call: what is refused returns at once.           *)
(***************************************************************************)
ByName == {"readByName", "writeByName"}
ByHandle == {"readByHandle", "writeByHandle"}
Ids == {"platformId", "systemId"}
Ports == {"portOpen", "portClose", "setTimeout", "getTimeout", "getLocalAddress", "setLocalAddress"}
Operations ==
    ByName \cup ByHandle \cup Ids \cup Ports
    \cup {"getHandle", "releaseHandle", "listECat", "startProcess", "initRouting", "shutdownRouting",
          "read", "write", "readWrite", "readState", "writeControl", "asyncRead", "asyncWrite",
          "asyncReadWrite", "asyncWait", "addNotification", "delNotification"}
Cached(op) == IF op = "platformId" THEN targetPlatformId # Unknown ELSE targetSystemId # None

\* A call names a function of the API and, if it has an address, a target.
ASSUME CallsAssumption ==
    \A c \in Clients :
        /\ Len(Calls[c]) \in Nat
        /\ \A n \in 1 .. Len(Calls[c]) : \A k \in Calls[c][n] :
              k.op \in Operations /\ k.length \in Nat /\ (k.op \in Ports \/ k.addr \in Targets)

Guard(k) ==
    CASE k.op \in ByName \cup {"getHandle"} -> ByNameGuard(k)
      [] k.op \in ByHandle -> ByHandleGuard(k)
      [] k.op \in Ids -> IdGuard(k)
      [] k.op = "startProcess" -> StartProcessGuard(k)
      [] k.op = "listECat" -> ECatGuard(k)
      [] k.op \in {"addNotification", "delNotification"} -> "SRVNOTSUPP"
      [] OTHER -> "OK"

\* The async functions are the synchronous ones: pInvokeId becomes 0, and
\* the answer is there when they return.
Sync(op) ==
    CASE op = "asyncRead" -> "read" [] op = "asyncWrite" -> "write"
      [] op = "asyncReadWrite" -> "readWrite" [] OTHER -> op

FirstStage(k) ==
    CASE k.op \in ByName \cup {"getHandle"} -> "handle"
      [] k.op \in ByHandle -> "access"
      [] k.op = "releaseHandle" -> "release"
      [] k.op \in Ids -> IF Cached(k.op) THEN "copy" ELSE "deviceInfo"
      [] k.op = "listECat" -> "count"
      [] OTHER -> Sync(k.op)

\* The handles a call by handle is made with.
HandlesFor(c, k) ==
    IF k.op \in ByHandle \cup {"releaseHandle"}
    THEN {h \in Handles : <<k.addr, h>> \in held[c]} ELSE {0}

Start(c, k) ==
    /\ k.op \notin Ports
    /\ calls' = [calls EXCEPT ![c] = @ + 1]
    /\ \E p \in IF mine[c] = {} THEN {0} ELSE mine[c], h \in HandlesFor(c, k) :
          IF Guard(k) # "OK" \/ k.op = "asyncWait"
          THEN /\ ret' = [ret EXCEPT ![c] = Result(k.op, k.arg, Guard(k), None)]
               /\ UNCHANGED <<st, asked>>
          ELSE /\ st' = [st EXCEPT ![c] = [Idle(k) EXCEPT
                            !.pc = FirstStage(k), !.port = p, !.handle = h,
                            !.data = IF k.op = "platformId" THEN targetPlatformId ELSE targetSystemId,
                            !.seen = IF k.op = "listECat" THEN {target[k.addr].devices} ELSE {}]]
               /\ ret' = [ret EXCEPT ![c] = Result(None, None, "OK", None)]
               /\ asked' = IF k.op \in Ids THEN asked \cup {k.addr} ELSE asked
    /\ UNCHANGED <<portVars, target, routes, targetPlatformId, targetSystemId, faults, symbols>>

-----------------------------------------------------------------------------
(***************************************************************************)
(* Routing.  InitRouting is RemoteRoute's exchange; here it comes to a     *)
(* route or to none.                                                       *)
(***************************************************************************)
InitRouting(c) ==
    /\ At(c, "initRouting")
    /\ \/ routes' = (IF Standalone THEN routes \cup {Addr(c)} ELSE routes)
          /\ Finish(c, "OK", None) /\ UNCHANGED faults
       \/ faults < MaxFaults /\ faults' = faults + 1
          /\ Finish(c, "TIMEOUT", None) /\ UNCHANGED routes
    /\ UNCHANGED <<portVars, target, ids, symbols>>

\* A mutation: the system id is kept.
ClearsPlatformId ==
    targetPlatformId' = Unknown /\ UNCHANGED targetSystemId
Clear ==
    /\ targetPlatformId' = Unknown
    /\ targetSystemId' = None

\* AdsLiteShutdownRouting forgets the ids first, and deletes the route then.
ShutdownRouting(c) ==
    /\ At(c, "shutdownRouting")
    /\ Clear
    /\ asked' = {Addr(d) : d \in {x \in Clients : Call(x).op \in Ids}}
    /\ Proceed(c, [st[c] EXCEPT !.pc = "deleteRoute"])
    /\ UNCHANGED <<portVars, target, routes, faults, symbols>>

\* AmsRouter::DelRoute keeps the route while refCount counts more uses of its connection: by another
\* InitRouting, or by another NetId at its host.
DeleteRoute(c) ==
    /\ At(c, "deleteRoute")
    /\ routes' \in IF Standalone THEN {routes, routes \ {Addr(c)}} ELSE {routes}
    /\ Finish(c, "OK", None)
    /\ UNCHANGED <<portVars, target, ids, faults, symbols>>

-----------------------------------------------------------------------------
(***************************************************************************)
(* Calls of one request.  A cell is what an index group and offset of a    *)
(* target stand for; its state and its processes are cells as well.        *)
(***************************************************************************)
Written(d, cell) == [target EXCEPT ![d].value[cell] = 1]

OneRequest(c, op, guard, effect, data) ==
    /\ At(c, op)
    /\ \E r \in Outcomes(c, guard, Answer("OK", effect, data)) :
          Takes(r) /\ Finish(c, r.status, IF r.status = "OK" THEN data ELSE None)
    /\ UNCHANGED <<portVars, routes, ids, symbols>>

AdsLiteSyncReadReq(c) ==
    OneRequest(c, "read", SyncReadReq(Call(c), st[c].port), target, Call(c).arg)
AdsLiteSyncWriteReq(c) ==
    OneRequest(c, "write", SyncWriteReq(Call(c), st[c].port), Written(Addr(c), Call(c).arg), None)
AdsLiteSyncReadWriteReq(c) ==
    OneRequest(c, "readWrite", SyncReadWriteReq(Call(c), st[c].port),
               Written(Addr(c), Call(c).arg), Call(c).arg)
\* Both go to port 10000 of the target, whatever port the address names.
AdsLiteSyncReadStateReq(c) ==
    OneRequest(c, "readState", SyncReadStateReq(Call(c), st[c].port), target, "state")
AdsLiteSyncWriteControlReq(c) ==
    OneRequest(c, "writeControl", SyncWriteControlReq(Call(c), st[c].port),
               Written(Addr(c), "state"), None)
\* One write to port 10000; the payload is never empty.
StartProcess(c) ==
    OneRequest(c, "startProcess", SyncWriteReq(Call(c), st[c].port),
               Written(Addr(c), "process"), None)

-----------------------------------------------------------------------------
(***************************************************************************)
(* Symbols.                                                                *)
(***************************************************************************)
\* A mutation: the handle is given back before it is used.
ReleasesFirst(pc) == IF pc = "handle" THEN "release" ELSE IF pc = "release" THEN "access" ELSE "done"
\* The stages of ReadByName and WriteByName.
NextStage(pc) == IF pc = "handle" THEN "access" ELSE IF pc = "access" THEN "release" ELSE "done"

\* A mutation: what failed is returned at once.
StopsOnError(pc, status) == IF status = "OK" THEN NextStage(pc) ELSE "done"
\* They return when no handle came; a read or write that failed is followed by the release.
Following(pc, status) == IF pc = "handle" /\ status # "OK" THEN "done" ELSE NextStage(pc)

\* The client's call after a stage that ended so.
Advance(c, s) ==
    IF Call(c).op \in ByName /\ Following(st[c].pc, s.status) # "done"
    THEN Proceed(c, [s EXCEPT !.pc = Following(st[c].pc, s.status)])
    ELSE Finish(c, s.status, s.data)

Handle(d) == target[d].handle

\* ADSIGRP_SYM_HNDBYNAME
GetSymbolHandle(c) ==
    /\ At(c, "handle")
    /\ LET d == Addr(c)
           free == {h \in Handles : Handle(d)[h] = NoSymbol}
           h == IF free = {} THEN 0 ELSE Min(free)
           answer == IF Call(c).arg \in Symbols /\ h # 0
                     THEN Answer("OK", [target EXCEPT ![d].handle[h] = Call(c).arg], h)
                     ELSE Answer("SYMBOLNOTFOUND", target, 0)
       IN \E r \in Outcomes(c, SyncReadWriteReq(Call(c), st[c].port), answer) :
            /\ Takes(r)
            /\ held' = IF r.status = "OK" /\ Call(c).op = "getHandle"
                       THEN [held EXCEPT ![c] = @ \cup {<<d, h>>}] ELSE held
            /\ lost' = IF r.status # "OK" /\ r.target # target THEN lost \cup {<<d, h>>} ELSE lost
            /\ Advance(c, [st[c] EXCEPT !.status = r.status, !.handle = r.data])
    /\ UNCHANGED <<portVars, routes, ids>>

\* ADSIGRP_SYM_VALBYHND, of ReadByHandle and WriteByHandle.
AccessByHandle(c) ==
    /\ At(c, "access")
    /\ LET d == Addr(c)
           symbol == Handle(d)[st[c].handle]
           writes == Call(c).op \in {"writeByName", "writeByHandle"}
           answer == IF symbol = NoSymbol THEN Answer("INVALIDHANDLE", target, None)
                     ELSE Answer("OK", IF writes THEN Written(d, symbol) ELSE target, symbol)
           guard == IF writes THEN SyncWriteReq(Call(c), st[c].port)
                    ELSE SyncReadReq(Call(c), st[c].port)
       IN \E r \in Outcomes(c, guard, answer) :
            /\ Takes(r)
            /\ Advance(c, [st[c] EXCEPT !.status = r.status, !.data = r.data])
    /\ UNCHANGED <<portVars, routes, ids, symbols>>

\* ADSIGRP_SYM_RELEASEHND; the calls by name ignore what becomes of it.
ReleaseSymbolHandle(c) ==
    /\ At(c, "release")
    /\ LET d == Addr(c)
           h == st[c].handle
           answer == Answer("OK", [target EXCEPT ![d].handle[h] = NoSymbol], None)
           byName == Call(c).op \in ByName
       IN \E r \in Outcomes(c, SyncWriteReq([Call(c) EXCEPT !.null = @ \ {"data"}], st[c].port), answer) :
            /\ Takes(r)
            /\ held' = [held EXCEPT ![c] = @ \ {<<d, h>>}]
            /\ lost' = IF r.target[d].handle[h] # NoSymbol THEN lost \cup {<<d, h>>} ELSE lost
            /\ Advance(c, IF byName THEN st[c] ELSE [st[c] EXCEPT !.status = r.status])
    /\ UNCHANGED <<portVars, routes, ids>>

-----------------------------------------------------------------------------
(***************************************************************************)
(* The ids of the target.  The cache is two plain variables that every     *)
(* client reads and writes; a build may load them once or twice in a call. *)
(***************************************************************************)
\* The answer to a read of the device information, at port 30.
ReadDeviceInfo(c) ==
    /\ At(c, "deviceInfo")
    /\ LET platform == Call(c).op = "platformId"
           k == [Call(c) EXCEPT !.null = {}, !.length = 1]
       IN \E r \in Outcomes(c, SyncReadReq(k, st[c].port), Answer("OK", target, None)) :
            /\ Takes(r)
            /\ IF r.status # "OK"
               THEN Finish(c, r.status, None) /\ UNCHANGED <<targetPlatformId, targetSystemId>>
               ELSE /\ targetPlatformId' = IF platform THEN PlatformId[Addr(c)] ELSE targetPlatformId
                    /\ targetSystemId' = IF platform THEN targetSystemId ELSE SystemId(Addr(c))
                    /\ Proceed(c, [st[c] EXCEPT !.pc = "copy",
                                      !.data = IF platform THEN targetPlatformId' ELSE targetSystemId'])
    /\ UNCHANGED <<portVars, routes, asked, symbols>>

\* What is returned: what was seen, or what the cache holds by now.
CopyId(c) ==
    /\ At(c, "copy")
    /\ \E id \in {st[c].data} \cup {IF Call(c).op = "platformId" THEN targetPlatformId ELSE targetSystemId} :
          Finish(c, "OK", id)
    /\ UNCHANGED <<portVars, target, routes, ids, faults, symbols>>

-----------------------------------------------------------------------------
(***************************************************************************)
(* ListECatMasters: the number of masters, their ids, and of each its      *)
(* type, name and NetId, all from port 300 of the target.                  *)
(***************************************************************************)
Devices(c) == target[Addr(c)].devices
Ask(c, answer) == Outcomes(c, SyncReadReq([Call(c) EXCEPT !.null = {}, !.length = 1], st[c].port), answer)
\* The same, where an answer of another length than the one word asked for is refused.
WrongLength(answer) == [answer EXCEPT !.status = "INVALIDDATA", !.fault = 1]
AskWord(c, answer) ==
    Ask(c, answer) \cup
    IF faults < MaxFaults /\ \E r \in Ask(c, answer) : r.status = "OK" THEN {WrongLength(answer)} ELSE {}
ECatFrame == UNCHANGED <<portVars, routes, ids, symbols>>

\* What is returned with the count: no more than the caller has room for.
Room(k) == IF Null(k, "masters") THEN 0 ELSE k.length
Listing(s) ==
    [count |-> s.count, seen |-> s.seen,
     masters |-> SubSeq(s.masters, 1, Min({Room(s.call), s.count}))]

ReadDevCount(c) ==
    /\ At(c, "count")
    /\ LET n == Len(Devices(c))
       IN \E r \in AskWord(c, Answer("OK", target, n)) :
            /\ Takes(r)
            /\ IF r.status # "OK" THEN Finish(c, r.status, None)
               ELSE IF n = 0 THEN Finish(c, "OK", Listing(st[c]))
               ELSE IF n > MaxDevices THEN Finish(c, "INVALIDDATA", None)
               ELSE Proceed(c, [st[c] EXCEPT !.pc = "ids", !.count = n])
    /\ ECatFrame

\* The first word of the answer stands for the count again; the target sends what fits.
ReadDevIds(c) ==
    /\ At(c, "ids")
    /\ LET words == <<Len(Devices(c))>> \o [i \in DOMAIN Devices(c) |-> Devices(c)[i].id]
           sent == SubSeq(words, 1, Min({Len(words), st[c].count + 1}))
       IN \E r \in Ask(c, Answer("OK", target, sent)) :
            /\ Takes(r)
            /\ IF r.status # "OK" THEN Finish(c, r.status, None)
               ELSE IF Len(sent) < st[c].count + 1 THEN Finish(c, "INVALIDDATA", None)
               ELSE Proceed(c, [st[c] EXCEPT !.pc = "type", !.ids = sent])
    /\ ECatFrame

\* A mutation: the loop starts at the first word.
FromZero(s) == s.ids[Len(s.masters) + 1]
deviceId(s) == s.ids[Len(s.masters) + 2]

\* The target's answer about a device: its part of the configuration, or none.
About(c, id) ==
    LET found == {i \in DOMAIN Devices(c) : Devices(c)[i].id = id}
    IN IF found = {} THEN Answer("NOTFOUND", target, None)
       ELSE Answer("OK", target, Devices(c)[Min(found)].config)

ReadDevType(c) ==
    /\ At(c, "type")
    /\ \E r \in AskWord(c, About(c, deviceId(st[c]))) :
          /\ Takes(r)
          /\ IF r.status # "OK" THEN Finish(c, r.status, None)
             ELSE Proceed(c, [st[c] EXCEPT !.pc = "name",
                                 !.info = [Device(deviceId(st[c])) EXCEPT !.type = r.data]])
    /\ ECatFrame

ReadDevName(c) ==
    /\ At(c, "name")
    /\ \E r \in Ask(c, About(c, st[c].info.id)) :
          /\ Takes(r)
          /\ IF r.status # "OK" THEN Finish(c, r.status, None)
             ELSE Proceed(c, [st[c] EXCEPT !.pc = "netId", !.info.name = r.data])
    /\ ECatFrame

ReadDevNetId(c) ==
    /\ At(c, "netId")
    /\ \E r \in AskWord(c, About(c, st[c].info.id)) :
          /\ Takes(r)
          /\ LET s == [st[c] EXCEPT !.pc = "type",
                           !.masters = Append(@, [st[c].info EXCEPT !.netId = r.data])]
             IN IF r.status # "OK" THEN Finish(c, r.status, None)
                ELSE IF Len(s.masters) = s.count THEN Finish(c, "OK", Listing(s))
                ELSE Proceed(c, s)
    /\ ECatFrame

\* Somebody gives the target another configuration.
Reconfigure(d) ==
    /\ faults < MaxFaults /\ faults' = faults + 1
    /\ \E t \in DeviceTables :
          /\ target' = [target EXCEPT ![d].devices = t]
          /\ st' = [c \in Clients |-> IF Call(c).op = "listECat" /\ Addr(c) = d
                                      THEN [st[c] EXCEPT !.seen = @ \cup {t}] ELSE st[c]]
    /\ UNCHANGED <<portVars, calls, ret, routes, ids, symbols>>

-----------------------------------------------------------------------------
Port(c, k) ==
    \/ k.op = "portOpen" /\ AdsLitePortOpen(c)
    \/ k.op = "portClose" /\ AdsLitePortClose(c)
    \/ k.op = "setTimeout" /\ AdsLiteSyncSetTimeout(c, k.length)
    \/ k.op = "getTimeout" /\ AdsLiteSyncGetTimeout(c, Null(k, "out"))
    \/ k.op = "getLocalAddress" /\ AdsLiteGetLocalAddress(c, Null(k, "addr"))
    \/ k.op = "setLocalAddress" /\ AdsLiteSetLocalAddress(c, k.arg)

\* The next call of c.
Begin(c) ==
    /\ At(c, "idle") /\ calls[c] < Len(Calls[c])
    /\ \E k \in Calls[c][calls[c] + 1] :
          \/ Port(c, k) /\ UNCHANGED apiVars
          \/ Start(c, k)

Next ==
    \/ \E c \in Clients :
          \/ Begin(c)
          \/ InitRouting(c) \/ ShutdownRouting(c) \/ DeleteRoute(c)
          \/ AdsLiteSyncReadReq(c) \/ AdsLiteSyncWriteReq(c) \/ AdsLiteSyncReadWriteReq(c)
          \/ AdsLiteSyncReadStateReq(c) \/ AdsLiteSyncWriteControlReq(c) \/ StartProcess(c)
          \/ GetSymbolHandle(c) \/ AccessByHandle(c) \/ ReleaseSymbolHandle(c)
          \/ ReadDeviceInfo(c) \/ CopyId(c)
          \/ ReadDevCount(c) \/ ReadDevIds(c) \/ ReadDevType(c) \/ ReadDevName(c) \/ ReadDevNetId(c)
    \/ \E d \in Targets : Reconfigure(d)

Spec == Init /\ [][Next]_vars

-----------------------------------------------------------------------------
(***************************************************************************)
(* A read or write by name that reports success has reached the symbol of  *)
(* that name, although a handle is a number that the target gives to       *)
(* another client's symbol as soon as it is released (AdsLiteAPI.cpp:558). *)
(***************************************************************************)
OwnSymbol ==
    \A c \in Clients : ret[c].op \in ByName /\ ret[c].status = "OK" => ret[c].value = ret[c].arg

(***************************************************************************)
(* Every handle open at a target is one a client was given to release, one *)
(* a call by name is about to release, or one whose number or release was  *)
(* lost on the way: no error path of ReadByName and WriteByName leaves one *)
(* (AdsLiteAPI.cpp:571).                                                   *)
(***************************************************************************)
HandlesReturned ==
    LET opened == {x \in Targets \X Handles : Handle(x[1])[x[2]] # NoSymbol}
        given == UNION {held[c] : c \in Clients}
        inUse == {<<Addr(c), st[c].handle>> : c \in {x \in Clients : st[x].pc \in {"access", "release"}}}
    IN /\ opened \subseteq given \cup inUse \cup lost
       /\ \A c, d \in Clients : c # d => held[c] \cap held[d] = {}

(***************************************************************************)
(* What the cache holds was read from a target that some call asked after  *)
(* the last ShutdownRouting, or was asking at that time: an id does not    *)
(* survive the routing it was read under, but for calls that overlap       *)
(* ShutdownRouting (TargetSystemInfo.cpp:123, AdsLiteAPI.cpp:108).         *)
(***************************************************************************)
CachedSinceClear ==
    /\ targetPlatformId # Unknown => \E d \in asked : targetPlatformId = PlatformId[d]
    /\ targetSystemId # None => \E d \in asked : targetSystemId = SystemId(d)

(***************************************************************************)
(* AdsLiteGetTargetPlatformId and AdsLiteGetTargetSystemId get the id "of  *)
(* the target device" that is at "pAddr, the AMS address of the target     *)
(* device" (AdsLiteAPI.h:80, 86, 95, 101).  This does not hold: the cache   *)
(* has no key, and the id of the first target stands for every other.      *)
(***************************************************************************)
IdIsOfTarget ==
    [][\A c \in Clients : At(c, "copy") /\ ~At(c, "copy")' =>
          ret'[c].value = IF Call(c).op = "platformId" THEN PlatformId[Addr(c)] ELSE SystemId(Addr(c))]_vars

(***************************************************************************)
(* A list of masters that is returned names the devices of one             *)
(* configuration, in its order, as many as a configuration had, both from  *)
(* the time of the call: a change between its requests yields no list of   *)
(* mixed or invented ids (AdsECatService.cpp:91).                          *)
(***************************************************************************)
ListsOneConfiguration ==
    \A c \in Clients :
        ret[c].op = "listECat" /\ ret[c].status = "OK" =>
            LET list == ret[c].value
            IN /\ \E t \in list.seen : Len(t) = list.count
               /\ \E t \in list.seen :
                    IsPrefix([i \in DOMAIN list.masters |-> list.masters[i].id],
                             [i \in DOMAIN t |-> t[i].id])
=============================================================================
