------------------------- MODULE AdsLiteAPIProofs -------------------------
(***************************************************************************)
(* Theorems about AdsLiteAPI, for every value of the constants: the ports, *)
(* the symbols and their handles, the cached ids and the lists of masters. *)
(* Each is proved from an inductive invariant of its own, over a common    *)
(* one that says which calls may be at which stage.                        *)
(***************************************************************************)
EXTENDS AdsLiteAPI, WellFoundedInduction, SequenceTheorems, TLAPS

-----------------------------------------------------------------------------
(* Ports. *)

\* What OwnTimeout rests on: a port that is not open waits as long as a new one.
PortInv ==
    /\ open \in [PortNumbers -> BOOLEAN]
    /\ mine \in [Clients -> SUBSET PortNumbers]
    /\ DOMAIN tmms = PortNumbers /\ DOMAIN wanted = PortNumbers
    /\ \A p \in PortNumbers : ~open[p] => tmms[p] = DEFAULT_TIMEOUT
    /\ OwnTimeout

\* What FiniteSetsExt chooses is a member of the set, and the least one.
LEMMA MinOfNaturals ==
  ASSUME NEW S \in SUBSET Nat, S # {}
  PROVE  Min(S) \in S /\ \A n \in S : Min(S) <= n
<1> DEFINE R == OpToRel(<, Nat)
<1>1. IsWellFoundedOn(R, Nat)
  BY NatLessThanWellFounded
<1>2. \A m, n \in Nat : m < n => <<m, n>> \in R
  BY DEF OpToRel
<1> HIDE DEF R
<1>3. PICK m \in S : \A n \in S : <<n, m>> \notin R
  BY <1>1, WFMin
<1>4. \A n \in S : ~(n < m)
  BY <1>2, <1>3
<1>5. \A n \in S : m <= n
  BY <1>4
<1> QED
  BY <1>3, <1>5 DEF Min

LEMMA PairMin ==
  ASSUME NEW m \in Nat, NEW n \in Nat
  PROVE  Min({m, n}) = IF m <= n THEN m ELSE n
  BY DEF Min

\* A port that a client opens was not open.
LEMMA PortTaken ==
  ASSUME NEW i \in IF Standalone THEN OpenPort ELSE DllOpenPort
  PROVE  i = 0 \/ (i \in PortNumbers /\ ~open[i])
<1> DEFINE free == {p \in PortNumbers : ~open[p]}
<1>1. CASE i \in DllOpenPort
  BY <1>1 DEF DllOpenPort
<1>2. CASE i \in OpenPort
  <2>1. CASE \A p \in PortNumbers : open[p]
    BY <1>2, <2>1 DEF OpenPort
  <2>2. CASE ~ \A p \in PortNumbers : open[p]
    <3>1. free \in SUBSET Nat /\ free # {}
      BY <2>2 DEF PortNumbers
    <3>2. i = Min(free)
      BY <1>2, <2>2 DEF OpenPort
    <3> QED
      BY <3>1, <3>2, MinOfNaturals
  <2> QED
    BY <2>1, <2>2
<1> QED
  BY <1>1, <1>2

LEMMA DefaultIsStored == Stored(DEFAULT_TIMEOUT) = DEFAULT_TIMEOUT
  BY PortAssumption DEF Stored, ClampTimeout

LEMMA PortInit0 == Init => PortInv
<1> SUFFICES ASSUME Init PROVE PortInv
  OBVIOUS
<1> QED
  BY DEF Init, PortInit, PortInv, OwnTimeout

LEMMA PortStep ==
  ASSUME PortInv, NEW c \in Clients, NEW k, Port(c, k)
  PROVE  PortInv'
<1> USE DEF PortInv, OwnTimeout
<1>1. CASE AdsLitePortOpen(c)
  <2>1. PICK i \in IF Standalone THEN OpenPort ELSE DllOpenPort :
           /\ open' = [p \in PortNumbers |-> open[p] \/ p = i]
           /\ mine' = [mine EXCEPT ![c] = @ \cup ({i} \ {0})]
           /\ wanted' = [p \in PortNumbers |-> IF p = i THEN DEFAULT_TIMEOUT ELSE wanted[p]]
    BY <1>1 DEF AdsLitePortOpen
  <2>2. i = 0 \/ (i \in PortNumbers /\ ~open[i])
    BY <2>1, PortTaken
  <2>3. UNCHANGED <<backend, tmms>>
    BY <1>1 DEF AdsLitePortOpen
  <2>4. mine' \in [Clients -> SUBSET PortNumbers] /\ open' \in [PortNumbers -> BOOLEAN]
    BY <2>1, <2>2
  <2>5. \A d \in Clients : \A p \in mine'[d] : p \in mine[d] \/ (d = c /\ p = i /\ i \in PortNumbers)
    BY <2>1, <2>2
  <2>6. \A d \in Clients : \A p \in mine[d] : p # i
    BY <2>2 DEF PortNumbers
  <2>7. \A d \in Clients : \A p \in mine'[d] : open'[p] /\ tmms[p] = Stored(wanted'[p])
    BY <2>1, <2>2, <2>4, <2>5, <2>6, DefaultIsStored
  <2>8. \A d, e \in Clients : d # e => mine'[d] \cap mine'[e] = {}
    BY <2>5, <2>6
  <2>9. \A p \in PortNumbers : ~open'[p] => tmms[p] = DEFAULT_TIMEOUT
    BY <2>1
  <2> QED
    BY <2>1, <2>3, <2>4, <2>7, <2>8, <2>9 DEF Stored, Standalone
<1>2. CASE AdsLitePortClose(c)
  BY <1>2 DEF AdsLitePortClose, Close, Stored, Standalone
<1>3. CASE AdsLiteSyncSetTimeout(c, k.length)
  BY <1>3 DEF AdsLiteSyncSetTimeout, Stored, Standalone
<1>4. CASE UNCHANGED portVars
  BY <1>4 DEF portVars, Stored, Standalone
<1>5. CASE AdsLiteSetLocalAddress(c, k.arg)
  BY <1>5 DEF AdsLiteSetLocalAddress, Stored, Standalone
<1> QED
  BY <1>1, <1>2, <1>3, <1>4, <1>5 DEF Port, AdsLiteSyncGetTimeout, AdsLiteGetLocalAddress


-----------------------------------------------------------------------------
(* The stages of a call. *)

Fields == {"pc", "call", "port", "handle", "data", "status", "count", "ids", "info", "masters", "seen"}

\* Where a call may be.
StagesOf(op) ==
    IF op \in ByName THEN {"handle", "access", "release"}
    ELSE IF op = "getHandle" THEN {"handle"}
    ELSE IF op \in ByHandle THEN {"access"}
    ELSE IF op = "releaseHandle" THEN {"release"}
    ELSE IF op \in Ids THEN {"deviceInfo", "copy"}
    ELSE IF op = "listECat" THEN {"count", "ids", "type", "name", "netId"}
    ELSE IF op = None THEN {"idle"}
    ELSE {"initRouting", "shutdownRouting", "deleteRoute", "read", "write", "readWrite", "readState",
          "writeControl", "startProcess"}

TargetTypes ==
    [handle : [Handles -> Symbols \cup {NoSymbol}],
     value : [Symbols \cup {"state", "process"} -> {0, 1}],
     devices : DeviceTables]

\* The state of each client, and where it may be in its call.
ClientInv ==
    /\ calls \in [Clients -> Nat]
    /\ DOMAIN st = Clients /\ DOMAIN ret = Clients
    /\ \A c \in Clients : DOMAIN st[c] = Fields
    /\ \A c \in Clients : st[c].pc \in StagesOf(Call(c).op)
    /\ \A c \in Clients : ~At(c, "idle") => Addr(c) \in Targets /\ Call(c).length \in Nat

TargetInv == target \in [Targets -> TargetTypes]

CommonInv == ClientInv /\ TargetInv

\* At each stage, whose it can be.
LEMMA StageOps ==
  ASSUME NEW op, NEW pc \in StagesOf(op)
  PROVE  /\ pc = "handle" => op \in ByName \cup {"getHandle"}
         /\ pc = "access" => op \in ByName \cup ByHandle
         /\ pc = "release" => op \in ByName \cup {"releaseHandle"}
         /\ pc \in {"deviceInfo", "copy"} => op \in Ids
         /\ pc \in {"count", "ids", "type", "name", "netId"} => op = "listECat"
         /\ pc = "idle" => op = None
         /\ pc \in {"initRouting", "shutdownRouting", "deleteRoute", "read", "write", "readWrite",
                    "readState", "writeControl", "startProcess"} =>
               op \notin ByName \cup ByHandle \cup Ids \cup {"getHandle", "releaseHandle", "listECat"}
  BY DEF StagesOf, ByName, ByHandle, Ids, None

\* A call begins at a stage of its own, and not at the end.
LEMMA FirstStageFits ==
  ASSUME NEW k, k.op \in Operations, k.op \notin Ports,
         k.op \notin {"addNotification", "delNotification", "asyncWait"}
  PROVE  FirstStage(k) \in StagesOf(k.op) /\ FirstStage(k) # "idle"
<1>1. CASE k.op \in ByName \cup {"getHandle"}
  <2>1. k.op \notin ByHandle /\ k.op # "releaseHandle" /\ k.op \notin Ids /\ k.op # "listECat"
    BY <1>1 DEF ByName, ByHandle, Ids
  <2>2. FirstStage(k) = "handle"
    BY <1>1, <2>1, Zenon DEF FirstStage
  <2> QED
    BY <1>1, <2>2 DEF StagesOf
<1>2. CASE k.op \in ByHandle
  <2>1. /\ k.op \notin ByName \cup {"getHandle"} /\ k.op # "releaseHandle" /\ k.op \notin Ids
        /\ k.op # "listECat"
    BY <1>2 DEF ByName, ByHandle, Ids
  <2>2. FirstStage(k) = "access"
    BY <1>2, <2>1, Zenon DEF FirstStage
  <2> QED
    BY <1>2, <2>1, <2>2 DEF StagesOf
<1>3. CASE k.op = "releaseHandle"
  <2>1. /\ k.op \notin ByName \cup {"getHandle"} /\ k.op \notin ByHandle /\ k.op \notin Ids
        /\ k.op # "listECat"
    BY <1>3 DEF ByName, ByHandle, Ids
  <2>2. FirstStage(k) = "release"
    BY <1>3, <2>1, Zenon DEF FirstStage
  <2> QED
    BY <1>3, <2>1, <2>2 DEF StagesOf
<1>4. CASE k.op \in Ids
  BY <1>4 DEF FirstStage, StagesOf, ByName, ByHandle, Ids
<1>5. CASE k.op = "listECat"
  BY <1>5 DEF FirstStage, StagesOf, ByName, ByHandle, Ids
<1>6. CASE k.op \in {"startProcess", "initRouting", "shutdownRouting", "read", "write", "readWrite",
                     "readState", "writeControl", "asyncRead", "asyncWrite", "asyncReadWrite"}
  BY <1>6 DEF FirstStage, Sync, StagesOf, ByName, ByHandle, Ids, None
<1> QED
  BY <1>1, <1>2, <1>3, <1>4, <1>5, <1>6 DEF Operations

\* Calls that are refused stop before their first stage.
LEMMA NotRefused ==
  ASSUME NEW k, Guard(k) = "OK"
  PROVE  k.op \notin {"addNotification", "delNotification"}
  BY DEF Guard, ByName, ByHandle, Ids

\* What becomes of a request.
LEMMA OutcomeOf ==
  ASSUME NEW c, NEW guard, NEW status, NEW effect, NEW data,
         NEW r \in Outcomes(c, guard, Answer(status, effect, data))
  PROVE  /\ r.data = data
         /\ r.target = target \/ r.target = effect
         /\ r.status = "OK" => status = "OK" /\ r.target = effect
<1> DEFINE answer == [status |-> status, target |-> effect, data |-> data, fault |-> 0]
           s == Unroutable(c, guard)
<1>1. Answer(status, effect, data) = answer
  BY DEF Answer
<1>2. CASE s # "OK"
  <2>1. r = [answer EXCEPT !.status = s, !.target = target]
    BY <1>1, <1>2 DEF Outcomes
  <2>2. r.data = data /\ r.target = target /\ r.status = s
    BY <2>1
  <2> QED
    BY <1>2, <2>2
<1>3. CASE s = "OK"
  <2>1. r = answer \/ \E e \in {target, answer.target} :
                         r = [answer EXCEPT !.status = "TIMEOUT", !.fault = 1, !.target = e]
    BY <1>1, <1>3 DEF Outcomes
  <2>2. CASE r = answer
    BY <2>2
  <2>3. ASSUME NEW e \in {target, effect},
               r = [answer EXCEPT !.status = "TIMEOUT", !.fault = 1, !.target = e]
        PROVE  r.data = data /\ r.target = e /\ r.status = "TIMEOUT"
    BY <2>3
  <2> QED
    BY <2>1, <2>2, <2>3
<1> QED
  BY <1>2, <1>3

\* The steps of a call, by what they can disturb.
Simple(c) ==
    \/ InitRouting(c) \/ DeleteRoute(c)
    \/ AdsLiteSyncReadReq(c) \/ AdsLiteSyncWriteReq(c) \/ AdsLiteSyncReadWriteReq(c)
    \/ AdsLiteSyncReadStateReq(c) \/ AdsLiteSyncWriteControlReq(c) \/ StartProcess(c)
SymbolStep(c) == GetSymbolHandle(c) \/ AccessByHandle(c) \/ ReleaseSymbolHandle(c)
IdStep(c) == ShutdownRouting(c) \/ ReadDeviceInfo(c) \/ CopyId(c)
ListStep(c) == ReadDevCount(c) \/ ReadDevIds(c) \/ ReadDevType(c) \/ ReadDevName(c) \/ ReadDevNetId(c)

\* A call that begins is one that CallsAssumption speaks of.
Begins(c, k) ==
    /\ At(c, "idle")
    /\ k.op \in Operations /\ k.length \in Nat /\ (k.op \in Ports \/ k.addr \in Targets)
    /\ (Port(c, k) /\ UNCHANGED apiVars) \/ Start(c, k)

LEMMA BeginBegins ==
  ASSUME ClientInv, NEW c \in Clients, Begin(c)
  PROVE  \E k : Begins(c, k)
<1>1. calls[c] \in Nat /\ Len(Calls[c]) \in Nat /\ calls[c] < Len(Calls[c])
  BY CallsAssumption DEF Begin, ClientInv
<1>2. calls[c] + 1 \in 1 .. Len(Calls[c])
  BY <1>1
<1>3. PICK k \in Calls[c][calls[c] + 1] : (Port(c, k) /\ UNCHANGED apiVars) \/ Start(c, k)
  BY DEF Begin
<1> QED
  BY <1>2, <1>3, CallsAssumption DEF Begin, Begins

LEMMA NextCases ==
  ASSUME ClientInv, Next
  PROVE  \/ \E c \in Clients : \/ \E k : Begins(c, k)
                               \/ Simple(c) \/ SymbolStep(c) \/ IdStep(c) \/ ListStep(c)
         \/ \E d \in Targets : Reconfigure(d)
  BY BeginBegins DEF Next, Simple, SymbolStep, IdStep, ListStep

-----------------------------------------------------------------------------
(* Targets. *)

LEMMA WrittenTarget ==
  ASSUME TargetInv, NEW d \in Targets, NEW cell
  PROVE  /\ Written(d, cell) \in [Targets -> TargetTypes]
         /\ \A x \in Targets : /\ Written(d, cell)[x].handle = target[x].handle
                               /\ Written(d, cell)[x].devices = target[x].devices
  BY DEF TargetInv, Written, TargetTypes

\* A target gives out a handle or takes it back.
LEMMA HandleSet ==
  ASSUME TargetInv, NEW d \in Targets, NEW h, NEW y \in Symbols \cup {NoSymbol},
         NEW e, e = [target EXCEPT ![d].handle[h] = y]
  PROVE  /\ e \in [Targets -> TargetTypes]
         /\ h \in Handles => e[d].handle[h] = y
         /\ \A x \in Targets, g \in Handles :
               x # d \/ g # h => e[x].handle[g] = target[x].handle[g]
         /\ \A x \in Targets : e[x].devices = target[x].devices
  BY DEF TargetInv, TargetTypes

\* Handles and masters are as they were.
TargetKept ==
    \A x \in Targets : target'[x].handle = target[x].handle /\ target'[x].devices = target[x].devices

LEMMA OneRequestStep ==
  ASSUME TargetInv, NEW c \in Clients, NEW op, NEW guard, NEW effect, NEW data,
         effect = target \/ \E cell : effect = Written(Addr(c), cell), Addr(c) \in Targets,
         OneRequest(c, op, guard, effect, data)
  PROVE  /\ \E status, value : Finish(c, status, value)
         /\ TargetInv' /\ TargetKept
         /\ UNCHANGED <<portVars, routes, ids, symbols>> /\ At(c, op)
<1>1. PICK r \in Outcomes(c, guard, Answer("OK", effect, data)) :
          Takes(r) /\ Finish(c, r.status, IF r.status = "OK" THEN data ELSE None)
  BY DEF OneRequest
<1>2. target' = target \/ \E cell : target' = Written(Addr(c), cell)
  BY <1>1, OutcomeOf DEF Takes
<1>3. TargetInv' /\ TargetKept
  BY <1>2, WrittenTarget DEF TargetInv, TargetKept
<1> QED
  BY <1>1, <1>3 DEF OneRequest

LEMMA SimpleStep ==
  ASSUME CommonInv, NEW c \in Clients, Simple(c)
  PROVE  /\ \E status, value : Finish(c, status, value)
         /\ TargetInv' /\ TargetKept
         /\ UNCHANGED <<portVars, ids, symbols>>
         /\ st[c].pc \in {"initRouting", "deleteRoute", "read", "write", "readWrite", "readState",
                          "writeControl", "startProcess"}
<1>1. CASE InitRouting(c)
  BY <1>1 DEF InitRouting, CommonInv, TargetInv, TargetKept, At
<1>2. CASE DeleteRoute(c)
  BY <1>2 DEF DeleteRoute, CommonInv, TargetInv, TargetKept, At
<1>3. CASE AdsLiteSyncReadReq(c)
  BY <1>3, OneRequestStep DEF AdsLiteSyncReadReq, CommonInv, ClientInv, At, OneRequest
<1>4. CASE AdsLiteSyncWriteReq(c)
  BY <1>4, OneRequestStep DEF AdsLiteSyncWriteReq, CommonInv, ClientInv, At, OneRequest
<1>5. CASE AdsLiteSyncReadWriteReq(c)
  BY <1>5, OneRequestStep DEF AdsLiteSyncReadWriteReq, CommonInv, ClientInv, At, OneRequest
<1>6. CASE AdsLiteSyncReadStateReq(c)
  BY <1>6, OneRequestStep DEF AdsLiteSyncReadStateReq, CommonInv, ClientInv, At, OneRequest
<1>7. CASE AdsLiteSyncWriteControlReq(c)
  BY <1>7, OneRequestStep DEF AdsLiteSyncWriteControlReq, CommonInv, ClientInv, At, OneRequest
<1>8. CASE StartProcess(c)
  BY <1>8, OneRequestStep DEF StartProcess, CommonInv, ClientInv, At, OneRequest
<1> QED
  BY <1>1, <1>2, <1>3, <1>4, <1>5, <1>6, <1>7, <1>8 DEF Simple

-----------------------------------------------------------------------------
(* The common invariant. *)

LEMMA IdleFields == \A k : DOMAIN Idle(k) = Fields /\ Idle(k).call = k /\ Idle(k).pc = "idle"
  BY DEF Idle, Fields

LEMMA CommonInit == Init => CommonInv
<1> SUFFICES ASSUME Init PROVE CommonInv
  OBVIOUS
<1>1. ClientInv
  <2>1. \A c \in Clients : st[c] = Idle(NoCall)
    BY DEF Init
  <2>2. "idle" \in StagesOf(NoCall.op)
    BY DEF StagesOf, NoCall, CallOf, None, ByName, ByHandle, Ids
  <2>3. \A c \in Clients : DOMAIN st[c] = Fields /\ st[c].pc = "idle" /\ Call(c) = NoCall
    BY <2>1, IdleFields DEF Call
  <2> QED
    BY <2>2, <2>3 DEF Init, ClientInv, At
<1>2. TargetInv
  <2> DEFINE table == CHOOSE t \in DeviceTables : t # <<>>
  <2>1. table \in DeviceTables
    BY APIAssumption
  <2> HIDE DEF table
  <2>2. target = [d \in Targets |-> [handle |-> [h \in Handles |-> NoSymbol],
                                     value |-> [s \in Symbols \cup {"state", "process"} |-> 0],
                                     devices |-> table]]
    BY DEF Init, table
  <2> QED
    BY <2>1, <2>2 DEF TargetInv, TargetTypes
<1> QED
  BY <1>1, <1>2 DEF CommonInv

\* A call that goes on at one of its stages, and a call that returns.
LEMMA ProceedKeeps ==
  ASSUME ClientInv, NEW c \in Clients, NEW s, st' = [st EXCEPT ![c] = s], UNCHANGED <<calls, ret>>,
         ~At(c, "idle"), DOMAIN s = Fields, s.call = Call(c), s.pc \in StagesOf(Call(c).op)
  PROVE  ClientInv'
<1>1. Call(c)' = Call(c) /\ Addr(c)' = Addr(c) /\ DOMAIN st'[c] = Fields /\ st'[c].pc = s.pc
  BY DEF Call, Addr, ClientInv
<1>2. \A d \in Clients : d # c => st'[d] = st[d]
  BY DEF ClientInv
<1>3. \A d \in Clients : Call(d)' = Call(d) /\ Addr(d)' = Addr(d)
  BY <1>1, <1>2 DEF Call, Addr
<1> QED
  BY <1>1, <1>2, <1>3 DEF ClientInv, At

LEMMA FinishKeeps ==
  ASSUME ClientInv, NEW c \in Clients, NEW status, NEW value, Finish(c, status, value)
  PROVE  ClientInv'
<1>1. st' = [st EXCEPT ![c] = Idle(NoCall)] /\ UNCHANGED calls /\ DOMAIN ret' = Clients
  BY DEF Finish, ClientInv
<1>2. Call(c)' = NoCall /\ DOMAIN st'[c] = Fields /\ st'[c].pc = "idle"
  BY <1>1, IdleFields DEF Call, ClientInv
<1>3. "idle" \in StagesOf(NoCall.op)
  BY DEF StagesOf, NoCall, CallOf, None, ByName, ByHandle, Ids
<1>4. \A d \in Clients : d # c => st'[d] = st[d]
  BY <1>1 DEF ClientInv
<1> QED
  BY <1>1, <1>2, <1>3, <1>4 DEF ClientInv, At, Call, Addr

LEMMA BeginKeeps ==
  ASSUME ClientInv, NEW c \in Clients, NEW k, Begins(c, k)
  PROVE  ClientInv'
<1>1. CASE Port(c, k) /\ UNCHANGED apiVars
  <2>1. UNCHANGED st /\ calls' = [calls EXCEPT ![c] = @ + 1] /\ DOMAIN ret' = DOMAIN ret
    BY <1>1 DEF apiVars, Port, AdsLitePortOpen, AdsLitePortClose, AdsLiteSyncSetTimeout,
                AdsLiteSyncGetTimeout, AdsLiteGetLocalAddress, AdsLiteSetLocalAddress, Returns
  <2> QED
    BY <2>1 DEF ClientInv, Call, Addr, At
<1>2. CASE Start(c, k)
  <2>1. /\ calls' = [calls EXCEPT ![c] = @ + 1] /\ DOMAIN ret' = DOMAIN ret
        /\ k.op \notin Ports
    BY <1>2 DEF Start
  <2>2. CASE UNCHANGED st
    BY <2>1, <2>2 DEF ClientInv, Call, Addr, At
  <2>3. CASE ~UNCHANGED st
    <3>1. PICK p, h : /\ Guard(k) = "OK" /\ k.op # "asyncWait"
                      /\ st' = [st EXCEPT ![c] = [Idle(k) EXCEPT
                            !.pc = FirstStage(k), !.port = p, !.handle = h,
                            !.data = IF k.op = "platformId" THEN targetPlatformId ELSE targetSystemId,
                            !.seen = IF k.op = "listECat" THEN {target[k.addr].devices} ELSE {}]]
      BY <1>2, <2>3 DEF Start
    <3>2. DOMAIN st'[c] = Fields /\ st'[c].call = k /\ st'[c].pc = FirstStage(k)
      BY <3>1, IdleFields DEF Fields, ClientInv
    <3>3. FirstStage(k) \in StagesOf(k.op)
      BY <2>1, <3>1, NotRefused, FirstStageFits DEF Begins
    <3>4. k.addr \in Targets /\ k.length \in Nat
      BY <2>1 DEF Begins
    <3>5. \A d \in Clients : d # c => st'[d] = st[d]
      BY <3>1 DEF ClientInv
    <3>6. DOMAIN st' = Clients
      BY <3>1 DEF ClientInv
    <3> QED
      BY <2>1, <3>2, <3>3, <3>4, <3>5, <3>6 DEF ClientInv, Call, Addr, At
  <2> QED
    BY <2>2, <2>3
<1> QED
  BY <1>1, <1>2 DEF Begins

\* The ways on from a stage are stages of the same call.
LEMMA AdvanceKeeps ==
  ASSUME ClientInv, NEW c \in Clients, NEW s, Advance(c, s), ~At(c, "idle"),
         DOMAIN s = Fields, s.call = Call(c)
  PROVE  ClientInv'
<1>1. CASE ~(Call(c).op \in ByName /\ Following(st[c].pc, s.status) # "done")
  BY <1>1, FinishKeeps DEF Advance
<1>2. CASE Call(c).op \in ByName /\ Following(st[c].pc, s.status) # "done"
  <2> DEFINE next == [s EXCEPT !.pc = Following(st[c].pc, s.status)]
  <2>1. Proceed(c, next)
    BY <1>2 DEF Advance
  <2>2. DOMAIN next = Fields /\ next.call = Call(c) /\ next.pc = Following(st[c].pc, s.status)
    BY DEF Fields
  <2>3. next.pc \in StagesOf(Call(c).op)
    BY <1>2, <2>2 DEF Following, NextStage, StagesOf
  <2> QED
    BY <2>1, <2>2, <2>3, ProceedKeeps DEF Proceed
<1> QED
  BY <1>1, <1>2

\* What the step of a call by handle or by name does: the answer is r.
LEMMA SymbolStepClient ==
  ASSUME ClientInv, NEW c \in Clients, SymbolStep(c)
  PROVE  ClientInv'
<1>1. DOMAIN st[c] = Fields
  BY DEF ClientInv
<1>2. CASE GetSymbolHandle(c)
  <2>1. PICK status, h : Advance(c, [st[c] EXCEPT !.status = status, !.handle = h])
    BY <1>2 DEF GetSymbolHandle
  <2> DEFINE s == [st[c] EXCEPT !.status = status, !.handle = h]
  <2>2. DOMAIN s = Fields /\ s.call = Call(c)
    BY <1>1 DEF Fields, Call
  <2> QED
    BY <1>2, <2>1, <2>2, AdvanceKeeps DEF GetSymbolHandle, At
<1>3. CASE AccessByHandle(c)
  <2>1. PICK status, v : Advance(c, [st[c] EXCEPT !.status = status, !.data = v])
    BY <1>3 DEF AccessByHandle
  <2> DEFINE s == [st[c] EXCEPT !.status = status, !.data = v]
  <2>2. DOMAIN s = Fields /\ s.call = Call(c)
    BY <1>1 DEF Fields, Call
  <2> QED
    BY <1>3, <2>1, <2>2, AdvanceKeeps DEF AccessByHandle, At
<1>4. CASE ReleaseSymbolHandle(c)
  <2>1. PICK status, s : s \in {st[c], [st[c] EXCEPT !.status = status]} /\ Advance(c, s)
    BY <1>4 DEF ReleaseSymbolHandle
  <2>2. DOMAIN s = Fields /\ s.call = Call(c)
    BY <1>1, <2>1 DEF Fields, Call
  <2> QED
    BY <1>4, <2>1, <2>2, AdvanceKeeps DEF ReleaseSymbolHandle, At
<1> QED
  BY <1>2, <1>3, <1>4 DEF SymbolStep

\* An IdStep ends the call or takes it to its next stage, and changes no target.
LEMMA IdStepClient ==
  ASSUME ClientInv, NEW c \in Clients, IdStep(c)
  PROVE  ClientInv'
<1>1. DOMAIN st[c] = Fields /\ st[c].pc \in StagesOf(Call(c).op)
  BY DEF ClientInv
<1>2. CASE ShutdownRouting(c)
  <2> DEFINE s == [st[c] EXCEPT !.pc = "deleteRoute"]
  <2>1. DOMAIN s = Fields /\ s.call = Call(c) /\ s.pc = "deleteRoute"
    BY <1>1 DEF Fields, Call
  <2>2. st[c].pc = "shutdownRouting" /\ Proceed(c, s)
    BY <1>2 DEF ShutdownRouting, At
  <2>3. "deleteRoute" \in StagesOf(Call(c).op)
    BY <1>1, <2>2 DEF StagesOf
  <2> QED
    BY <2>1, <2>2, <2>3, ProceedKeeps DEF Proceed, At
<1>3. CASE ReadDeviceInfo(c)
  <2>1. PICK v, status : Finish(c, status, None) \/ Proceed(c, [st[c] EXCEPT !.pc = "copy", !.data = v])
    BY <1>3 DEF ReadDeviceInfo
  <2> DEFINE s == [st[c] EXCEPT !.pc = "copy", !.data = v]
  <2>2. DOMAIN s = Fields /\ s.call = Call(c) /\ s.pc = "copy"
    BY <1>1 DEF Fields, Call
  <2>3. st[c].pc = "deviceInfo"
    BY <1>3 DEF ReadDeviceInfo, At
  <2>4. "copy" \in StagesOf(Call(c).op)
    BY <1>1, <2>3 DEF StagesOf
  <2> QED
    BY <2>1, <2>2, <2>3, <2>4, FinishKeeps, ProceedKeeps DEF Proceed, At
<1>4. CASE CopyId(c)
  BY <1>4, FinishKeeps DEF CopyId
<1> QED
  BY <1>2, <1>3, <1>4 DEF IdStep

\* The stages of a listing.
ListStages == {"count", "ids", "type", "name", "netId"}

LEMMA ListStepClient ==
  ASSUME ClientInv, NEW c \in Clients, ListStep(c)
  PROVE  /\ ClientInv'
         /\ st[c].pc \in ListStages
         /\ \/ \E status, value : Finish(c, status, value)
            \/ \E s : Proceed(c, s) /\ DOMAIN s = Fields /\ s.call = Call(c) /\ s.pc \in ListStages
<1>1. DOMAIN st[c] = Fields /\ st[c].pc \in StagesOf(Call(c).op)
  BY DEF ClientInv
<1>2. st[c].pc \in ListStages
  BY DEF ListStep, ReadDevCount, ReadDevIds, ReadDevType, ReadDevName, ReadDevNetId, At, ListStages
<1>3. ListStages \subseteq StagesOf(Call(c).op)
  BY <1>1, <1>2 DEF StagesOf, ListStages
<1>4. \/ \E status, value : Finish(c, status, value)
      \/ \E s : Proceed(c, s) /\ DOMAIN s = Fields /\ s.call = Call(c) /\ s.pc \in ListStages
  <2> USE <1>1 DEF Fields, Call, ListStages
  <2>1. CASE ReadDevCount(c)
    <3>1. \/ \E status, value : Finish(c, status, value)
          \/ \E n, s : s = [st[c] EXCEPT !.pc = "ids", !.count = n] /\ Proceed(c, s)
      BY <2>1 DEF ReadDevCount
    <3> QED
      BY <3>1
  <2>2. CASE ReadDevIds(c)
    <3>1. \/ \E status, value : Finish(c, status, value)
          \/ \E v, s : s = [st[c] EXCEPT !.pc = "type", !.ids = v] /\ Proceed(c, s)
      BY <2>2 DEF ReadDevIds
    <3> QED
      BY <3>1
  <2>3. CASE ReadDevType(c)
    <3>1. \/ \E status, value : Finish(c, status, value)
          \/ \E v, s : s = [st[c] EXCEPT !.pc = "name", !.info = v] /\ Proceed(c, s)
      BY <2>3 DEF ReadDevType
    <3> QED
      BY <3>1
  <2>4. CASE ReadDevName(c)
    <3>1. \/ \E status, value : Finish(c, status, value)
          \/ \E v, s : s = [st[c] EXCEPT !.pc = "netId", !.info.name = v] /\ Proceed(c, s)
      BY <2>4 DEF ReadDevName
    <3> QED
      BY <3>1
  <2>5. CASE ReadDevNetId(c)
    <3>1. \/ \E status, value : Finish(c, status, value)
          \/ \E v, s : s = [st[c] EXCEPT !.pc = "type",
                           !.masters = Append(@, [st[c].info EXCEPT !.netId = v])] /\ Proceed(c, s)
      BY <2>5 DEF ReadDevNetId
    <3> QED
      BY <3>1
  <2> QED
    BY <2>1, <2>2, <2>3, <2>4, <2>5 DEF ListStep
<1>5. ClientInv'
  BY <1>2, <1>3, <1>4, FinishKeeps, ProceedKeeps DEF Proceed, At, ListStages
<1> QED
  BY <1>2, <1>4, <1>5

LEMMA ReconfigureClient ==
  ASSUME ClientInv, NEW d \in Targets, Reconfigure(d)
  PROVE  ClientInv' /\ \A c \in Clients : \A f \in Fields \ {"seen"} : st'[c][f] = st[c][f]
<1>1. \A c \in Clients : st'[c] = st[c] \/ \E v : st'[c] = [st[c] EXCEPT !.seen = v]
  BY DEF Reconfigure
<1>2. DOMAIN st' = Clients /\ UNCHANGED <<calls, ret>>
  BY DEF Reconfigure
<1>3. \A c \in Clients : DOMAIN st'[c] = Fields /\ \A f \in Fields \ {"seen"} : st'[c][f] = st[c][f]
  BY <1>1 DEF ClientInv, Fields
<1>4. \A c \in Clients : st'[c].pc = st[c].pc /\ st'[c].call = st[c].call
  BY <1>3 DEF Fields
<1> QED
  BY <1>2, <1>3, <1>4 DEF ClientInv, Call, Addr, At

\* The handle that GetSymbolHandle is given, whether the client learns it or not.
Gives(c, h) ==
    /\ h \in Handles /\ Handle(Addr(c))[h] = NoSymbol /\ Call(c).arg \in Symbols
    /\ target' = [target EXCEPT ![Addr(c)].handle[h] = Call(c).arg]

LEMMA GetSymbolHandleStep ==
  ASSUME CommonInv, NEW c \in Clients, GetSymbolHandle(c)
  PROVE  \E h, v, status :
            /\ target' = target \/ Gives(c, h)
            /\ status = "OK" => Gives(c, h) /\ v = h
            /\ held' = IF status = "OK" /\ Call(c).op = "getHandle"
                       THEN [held EXCEPT ![c] = @ \cup {<<Addr(c), h>>}] ELSE held
            /\ lost' = IF status # "OK" /\ target' # target THEN lost \cup {<<Addr(c), h>>} ELSE lost
            /\ Advance(c, [st[c] EXCEPT !.status = status, !.handle = v])
<1> DEFINE d == Addr(c)
           free == {g \in Handles : Handle(d)[g] = NoSymbol}
           h == IF free = {} THEN 0 ELSE Min(free)
           effect == [target EXCEPT ![d].handle[h] = Call(c).arg]
           answer == IF Call(c).arg \in Symbols /\ h # 0 THEN Answer("OK", effect, h)
                     ELSE Answer("SYMBOLNOTFOUND", target, 0)
<1>1. PICK r \in Outcomes(c, SyncReadWriteReq(Call(c), st[c].port), answer) :
         /\ Takes(r)
         /\ held' = IF r.status = "OK" /\ Call(c).op = "getHandle"
                    THEN [held EXCEPT ![c] = @ \cup {<<d, h>>}] ELSE held
         /\ lost' = IF r.status # "OK" /\ r.target # target THEN lost \cup {<<d, h>>} ELSE lost
         /\ Advance(c, [st[c] EXCEPT !.status = r.status, !.handle = r.data])
  BY DEF GetSymbolHandle
<1>2. h # 0 => h \in Handles /\ Handle(d)[h] = NoSymbol
  BY MinOfNaturals, APIAssumption
<1> HIDE DEF h, effect
<1>3. CASE Call(c).arg \in Symbols /\ h # 0
  <2>1. answer = Answer("OK", effect, h)
    BY <1>3
  <2>2. r.data = h /\ (r.target = target \/ r.target = effect) /\ (r.status = "OK" => r.target = effect)
    BY <1>1, <2>1, OutcomeOf
  <2>3. r.target = effect => Gives(c, h)
    BY <1>1, <1>2, <1>3 DEF Gives, Takes, effect
  <2>4. target' = r.target
    BY <1>1 DEF Takes
  <2>5. WITNESS h, r.data, r.status
  <2> QED
    BY <1>1, <2>2, <2>3, <2>4
<1>4. CASE ~(Call(c).arg \in Symbols /\ h # 0)
  <2>1. answer = Answer("SYMBOLNOTFOUND", target, 0)
    BY <1>4
  <2>2. r.target = target /\ r.status # "OK"
    BY <1>1, <2>1, OutcomeOf
  <2>4. target' = r.target
    BY <1>1 DEF Takes
  <2>5. WITNESS h, r.data, r.status
  <2> QED
    BY <1>1, <2>2, <2>4
<1> QED
  BY <1>3, <1>4

LEMMA AccessByHandleStep ==
  ASSUME CommonInv, NEW c \in Clients, AccessByHandle(c)
  PROVE  \E v, status :
            /\ target' = target \/ \E cell : target' = Written(Addr(c), cell)
            /\ status = "OK" => v = Handle(Addr(c))[st[c].handle] /\ v # NoSymbol
            /\ Advance(c, [st[c] EXCEPT !.status = status, !.data = v])
<1> DEFINE symbol == Handle(Addr(c))[st[c].handle]
           writes == Call(c).op \in {"writeByName", "writeByHandle"}
           effect == IF writes THEN Written(Addr(c), symbol) ELSE target
           answer == IF symbol = NoSymbol THEN Answer("INVALIDHANDLE", target, None)
                     ELSE Answer("OK", effect, symbol)
           guard == IF writes THEN SyncWriteReq(Call(c), st[c].port) ELSE SyncReadReq(Call(c), st[c].port)
<1>1. PICK r \in Outcomes(c, guard, answer) :
         Takes(r) /\ Advance(c, [st[c] EXCEPT !.status = r.status, !.data = r.data])
  BY DEF AccessByHandle
<1> HIDE DEF symbol, guard
<1>2. target' = r.target
  BY <1>1 DEF Takes
<1>3. effect = target \/ \E cell : effect = Written(Addr(c), cell)
  OBVIOUS
<1> HIDE DEF effect
<1>4. r.target = target \/ r.target = effect
  BY <1>1, OutcomeOf
<1>5. r.status = "OK" => r.data = symbol /\ symbol # NoSymbol
  BY <1>1, OutcomeOf
<1> QED
  BY <1>1, <1>2, <1>3, <1>4, <1>5 DEF symbol

LEMMA ReleaseSymbolHandleStep ==
  ASSUME CommonInv, NEW c \in Clients, ReleaseSymbolHandle(c)
  PROVE  \E s :
            /\ \/ target' = target
               \/ target' = [target EXCEPT ![Addr(c)].handle[st[c].handle] = NoSymbol]
            /\ held' = [held EXCEPT ![c] = @ \ {<<Addr(c), st[c].handle>>}]
            /\ lost' = IF target'[Addr(c)].handle[st[c].handle] # NoSymbol
                       THEN lost \cup {<<Addr(c), st[c].handle>>} ELSE lost
            /\ Call(c).op \in ByName => s = st[c]
            /\ Advance(c, s)
<1> DEFINE effect == [target EXCEPT ![Addr(c)].handle[st[c].handle] = NoSymbol]
           guard == SyncWriteReq([Call(c) EXCEPT !.null = @ \ {"data"}], st[c].port)
           byName == Call(c).op \in ByName
<1>1. PICK r \in Outcomes(c, guard, Answer("OK", effect, None)) :
         /\ Takes(r)
         /\ held' = [held EXCEPT ![c] = @ \ {<<Addr(c), st[c].handle>>}]
         /\ lost' = IF r.target[Addr(c)].handle[st[c].handle] # NoSymbol
                    THEN lost \cup {<<Addr(c), st[c].handle>>} ELSE lost
         /\ Advance(c, IF byName THEN st[c] ELSE [st[c] EXCEPT !.status = r.status])
  BY DEF ReleaseSymbolHandle
<1> HIDE DEF guard, effect
<1>2. target' = r.target
  BY <1>1 DEF Takes
<1>3. r.target = target \/ r.target = effect
  BY <1>1, OutcomeOf
<1> QED
  BY <1>1, <1>2, <1>3 DEF effect

\* What asks and only reads leaves every target alone.
LEMMA ReadLeavesTarget ==
  ASSUME NEW c, NEW guard, NEW status, NEW data,
         NEW r \in Outcomes(c, guard, Answer(status, target, data)), Takes(r)
  PROVE  UNCHANGED target
  BY OutcomeOf DEF Takes

\* So does what reads one word, whether or not its length is right.
LEMMA WordLeavesTarget ==
  ASSUME NEW c, NEW status, NEW data,
         NEW r \in AskWord(c, Answer(status, target, data)), Takes(r)
  PROVE  UNCHANGED target
<1>1. \A x \in Ask(c, Answer(status, target, data)) : x.target = target
  BY OutcomeOf DEF Ask, Answer
<1>2. WrongLength(Answer(status, target, data)).target = target
  BY DEF WrongLength, Answer
<1>3. r.target = target
  BY <1>1, <1>2 DEF AskWord
<1> QED
  BY <1>3 DEF Takes

LEMMA IdStepTarget ==
  ASSUME NEW c \in Clients, IdStep(c)
  PROVE  UNCHANGED <<portVars, target, symbols>>
<1>1. CASE ReadDeviceInfo(c)
  <2>1. PICK guard : \E r \in Outcomes(c, guard, Answer("OK", target, None)) : Takes(r)
    BY <1>1 DEF ReadDeviceInfo
  <2> QED
    BY <1>1, <2>1, ReadLeavesTarget DEF ReadDeviceInfo
<1> QED
  BY <1>1 DEF IdStep, ShutdownRouting, CopyId

LEMMA ListStepTarget ==
  ASSUME NEW c \in Clients, ListStep(c)
  PROVE  UNCHANGED <<portVars, target, ids, symbols>>
<1>1. UNCHANGED target
  <2>1. \A id : \E status, data : About(c, id) = Answer(status, target, data)
    BY DEF About
  <2>2. CASE ReadDevCount(c)
    <3>1. PICK status, data : \E r \in AskWord(c, Answer(status, target, data)) : Takes(r)
      BY <2>2 DEF ReadDevCount
    <3> QED
      BY <3>1, WordLeavesTarget
  <2>3. CASE ReadDevIds(c)
    <3>1. PICK status, data : \E r \in Ask(c, Answer(status, target, data)) : Takes(r)
      BY <2>3 DEF ReadDevIds
    <3> QED
      BY <3>1, WordLeavesTarget DEF AskWord
  <2>4. CASE ReadDevType(c)
    <3>1. PICK id : \E r \in AskWord(c, About(c, id)) : Takes(r)
      BY <2>4 DEF ReadDevType
    <3> QED
      BY <2>1, <3>1, WordLeavesTarget
  <2>5. CASE ReadDevName(c)
    <3>1. PICK id : \E r \in Ask(c, About(c, id)) : Takes(r)
      BY <2>5 DEF ReadDevName
    <3> QED
      BY <2>1, <3>1, WordLeavesTarget DEF AskWord
  <2>6. CASE ReadDevNetId(c)
    <3>1. PICK id : \E r \in AskWord(c, About(c, id)) : Takes(r)
      BY <2>6 DEF ReadDevNetId
    <3> QED
      BY <2>1, <3>1, WordLeavesTarget
  <2> QED
    BY <2>2, <2>3, <2>4, <2>5, <2>6 DEF ListStep
<1> QED
  BY <1>1 DEF ListStep, ReadDevCount, ReadDevIds, ReadDevType, ReadDevName, ReadDevNetId, ECatFrame

LEMMA SymbolStepTarget ==
  ASSUME CommonInv, NEW c \in Clients, SymbolStep(c)
  PROVE  TargetInv'
<1>1. st[c].pc \in {"handle", "access", "release"} /\ Addr(c) \in Targets
  <2>1. st[c].pc \in {"handle", "access", "release"}
    BY DEF SymbolStep, GetSymbolHandle, AccessByHandle, ReleaseSymbolHandle, At
  <2> QED
    BY <2>1 DEF CommonInv, ClientInv, At
<1>2. CASE GetSymbolHandle(c)
  <2>1. target' = target \/ \E h : Gives(c, h)
    BY <1>2, GetSymbolHandleStep
  <2> QED
    BY <1>1, <2>1, HandleSet DEF Gives, CommonInv, TargetInv
<1>3. CASE AccessByHandle(c)
  <2>1. target' = target \/ \E cell : target' = Written(Addr(c), cell)
    BY <1>3, AccessByHandleStep
  <2> QED
    BY <1>1, <2>1, WrittenTarget DEF CommonInv, TargetInv
<1>4. CASE ReleaseSymbolHandle(c)
  <2>1. target' = target \/ target' = [target EXCEPT ![Addr(c)].handle[st[c].handle] = NoSymbol]
    BY <1>4, ReleaseSymbolHandleStep
  <2> DEFINE h == st[c].handle
             e == [target EXCEPT ![Addr(c)].handle[h] = NoSymbol]
  <2>2. e \in [Targets -> TargetTypes]
    <3> HIDE DEF h
    <3> QED
      BY <1>1, HandleSet DEF CommonInv
  <2> QED
    BY <2>1, <2>2 DEF CommonInv, TargetInv
<1> QED
  BY <1>2, <1>3, <1>4 DEF SymbolStep

LEMMA ReconfigureTarget ==
  ASSUME CommonInv, NEW d \in Targets, Reconfigure(d)
  PROVE  /\ TargetInv'
         /\ \A x \in Targets : target'[x].handle = target[x].handle
         /\ UNCHANGED <<portVars, ids, symbols, ret>>
<1>1. PICK t \in DeviceTables : target' = [target EXCEPT ![d].devices = t]
  BY DEF Reconfigure
<1>2. \A x \in Targets : target[x] \in TargetTypes
  BY DEF CommonInv, TargetInv
<1>3. \A x \in Targets : target'[x] = IF x = d THEN [target[x] EXCEPT !.devices = t] ELSE target[x]
  BY <1>1 DEF CommonInv, TargetInv
<1>4. \A x \in Targets : target'[x] \in TargetTypes /\ target'[x].handle = target[x].handle
  BY <1>2, <1>3 DEF TargetTypes
<1>5. TargetInv'
  BY <1>1, <1>4 DEF CommonInv, TargetInv
<1> QED
  BY <1>4, <1>5 DEF Reconfigure

LEMMA CommonStep == CommonInv /\ [Next]_vars => CommonInv'
<1> SUFFICES ASSUME CommonInv, [Next]_vars PROVE CommonInv'
  OBVIOUS
<1>1. CASE UNCHANGED vars
  BY <1>1 DEF vars, apiVars, CommonInv, ClientInv, TargetInv, Call, Addr, At
<1>2. ASSUME NEW c \in Clients, NEW k, Begins(c, k) PROVE CommonInv'
  <2>1. UNCHANGED target
    BY <1>2 DEF Begins, Start, apiVars
  <2> QED
    BY <1>2, <2>1, BeginKeeps DEF CommonInv, TargetInv
<1>3. ASSUME NEW c \in Clients, Simple(c) PROVE CommonInv'
  BY <1>3, SimpleStep, FinishKeeps DEF CommonInv
<1>4. ASSUME NEW c \in Clients, SymbolStep(c) PROVE CommonInv'
  BY <1>4, SymbolStepClient, SymbolStepTarget DEF CommonInv
<1>5. ASSUME NEW c \in Clients, IdStep(c) PROVE CommonInv'
  BY <1>5, IdStepClient, IdStepTarget DEF CommonInv, TargetInv
<1>6. ASSUME NEW c \in Clients, ListStep(c) PROVE CommonInv'
  BY <1>6, ListStepClient, ListStepTarget DEF CommonInv, TargetInv
<1>7. ASSUME NEW d \in Targets, Reconfigure(d) PROVE CommonInv'
  BY <1>7, ReconfigureClient, ReconfigureTarget DEF CommonInv
<1> QED
  BY <1>1, <1>2, <1>3, <1>4, <1>5, <1>6, <1>7, NextCases DEF CommonInv

-----------------------------------------------------------------------------
(* Timeouts. *)

LEMMA PortsNext == CommonInv /\ PortInv /\ [Next]_vars => PortInv'
<1> SUFFICES ASSUME CommonInv, PortInv, [Next]_vars PROVE PortInv'
  OBVIOUS
<1>1. CASE UNCHANGED portVars
  BY <1>1 DEF portVars, PortInv, OwnTimeout, Stored, Standalone
<1>2. ASSUME NEW c \in Clients, NEW k, Begins(c, k) PROVE PortInv'
  BY <1>1, <1>2, PortStep DEF Begins, Start
<1>3. UNCHANGED portVars \/ \E c \in Clients : \E k : Begins(c, k)
  <2>1. CASE UNCHANGED vars
    BY <2>1 DEF vars
  <2>2. CASE Next
    BY <2>2, NextCases, SimpleStep, IdStepTarget, ListStepTarget, ReconfigureTarget
       DEF CommonInv, SymbolStep, GetSymbolHandle, AccessByHandle, ReleaseSymbolHandle
  <2> QED
    BY <2>1, <2>2
<1> QED
  BY <1>1, <1>2, <1>3

(***************************************************************************)
(* At every moment a port that a client has opened is open, is nobody      *)
(* else's, and waits as long as that client has asked for, whatever the    *)
(* port's earlier owners had set and over either backend                   *)
(* (AmsRouter.cpp:14, AmsPort.cpp:23).                                     *)
(***************************************************************************)
THEOREM PortsAreOwn == Spec => []OwnTimeout
<1>1. Init => CommonInv /\ PortInv
  BY CommonInit, PortInit0
<1>2. CommonInv /\ PortInv /\ [Next]_vars => (CommonInv /\ PortInv)'
  BY CommonStep, PortsNext
<1>3. PortInv => OwnTimeout
  BY DEF PortInv
<1> QED
  BY <1>1, <1>2, <1>3, PTL DEF Spec

-----------------------------------------------------------------------------
(* Cached ids. *)

\* Once begun, a call is what it is until it returns.
CallKept == \A x \in Clients : Call(x)' \in {Call(x), NoCall}

LEMMA ProceedCall ==
  ASSUME ClientInv, NEW c \in Clients, NEW s, st' = [st EXCEPT ![c] = s], s.call \in {Call(c), NoCall}
  PROVE  CallKept
  BY DEF CallKept, Call, ClientInv

LEMMA FinishCall ==
  ASSUME ClientInv, NEW c \in Clients, NEW status, NEW value, Finish(c, status, value)
  PROVE  CallKept
  BY ProceedCall, IdleFields DEF Finish

LEMMA AdvanceCall ==
  ASSUME ClientInv, NEW c \in Clients, NEW s, Advance(c, s), DOMAIN s = Fields, s.call = Call(c)
  PROVE  CallKept
<1>1. CASE ~(Call(c).op \in ByName /\ Following(st[c].pc, s.status) # "done")
  BY <1>1, FinishCall DEF Advance
<1>2. CASE Call(c).op \in ByName /\ Following(st[c].pc, s.status) # "done"
  <2> DEFINE next == [s EXCEPT !.pc = Following(st[c].pc, s.status)]
  <2>1. Proceed(c, next)
    BY <1>2 DEF Advance
  <2>2. next.call = Call(c)
    BY DEF Fields
  <2> QED
    BY <2>1, <2>2, ProceedCall DEF Proceed
<1> QED
  BY <1>1, <1>2

LEMMA SymbolStepCall ==
  ASSUME CommonInv, NEW c \in Clients, SymbolStep(c)
  PROVE  CallKept
<1>1. DOMAIN st[c] = Fields
  BY DEF CommonInv, ClientInv
<1>2. \E s : Advance(c, s) /\ DOMAIN s = Fields /\ s.call = Call(c)
  <2>1. CASE GetSymbolHandle(c)
    <3>1. PICK status, h, s : s = [st[c] EXCEPT !.status = status, !.handle = h] /\ Advance(c, s)
      BY <2>1 DEF GetSymbolHandle
    <3>2. DOMAIN s = Fields /\ s.call = Call(c)
      BY <1>1, <3>1 DEF Fields, Call
    <3> QED
      BY <3>1, <3>2
  <2>2. CASE AccessByHandle(c)
    <3>1. PICK status, v, s : s = [st[c] EXCEPT !.status = status, !.data = v] /\ Advance(c, s)
      BY <2>2 DEF AccessByHandle
    <3>2. DOMAIN s = Fields /\ s.call = Call(c)
      BY <1>1, <3>1 DEF Fields, Call
    <3> QED
      BY <3>1, <3>2
  <2>3. CASE ReleaseSymbolHandle(c)
    <3>1. PICK status, s : s \in {st[c], [st[c] EXCEPT !.status = status]} /\ Advance(c, s)
      BY <2>3 DEF ReleaseSymbolHandle
    <3> QED
      BY <1>1, <3>1 DEF Fields, Call
  <2> QED
    BY <2>1, <2>2, <2>3 DEF SymbolStep
<1> QED
  BY <1>2, AdvanceCall DEF CommonInv

LEMMA IdStepCall ==
  ASSUME CommonInv, NEW c \in Clients, IdStep(c)
  PROVE  CallKept
<1>1. DOMAIN st[c] = Fields
  BY DEF CommonInv, ClientInv
<1>2. \/ \E status, value : Finish(c, status, value)
      \/ \E s : Proceed(c, s) /\ s.call = Call(c)
  <2>1. CASE ShutdownRouting(c)
    <3>1. PICK s : s = [st[c] EXCEPT !.pc = "deleteRoute"] /\ Proceed(c, s)
      BY <2>1 DEF ShutdownRouting
    <3>2. s.call = Call(c)
      BY <1>1, <3>1 DEF Fields, Call
    <3> QED
      BY <3>1, <3>2
  <2>2. CASE ReadDeviceInfo(c)
    <3>1. PICK status, v, s : \/ Finish(c, status, None)
                              \/ s = [st[c] EXCEPT !.pc = "copy", !.data = v] /\ Proceed(c, s)
      BY <2>2 DEF ReadDeviceInfo
    <3>2. CASE Finish(c, status, None)
      BY <3>2
    <3>3. CASE s = [st[c] EXCEPT !.pc = "copy", !.data = v] /\ Proceed(c, s)
      <4>1. s.call = Call(c)
        BY <1>1, <3>3 DEF Fields, Call
      <4> QED
        BY <3>3, <4>1
    <3> QED
      BY <3>1, <3>2, <3>3
  <2>3. CASE CopyId(c)
    BY <2>3 DEF CopyId
  <2> QED
    BY <2>1, <2>2, <2>3 DEF IdStep
<1> QED
  BY <1>2, FinishCall, ProceedCall DEF Proceed, CommonInv

LEMMA ListStepCall ==
  ASSUME CommonInv, NEW c \in Clients, ListStep(c)
  PROVE  CallKept
  BY ListStepClient, FinishCall, ProceedCall DEF Proceed, CommonInv

LEMMA ReconfigureCall ==
  ASSUME CommonInv, NEW d \in Targets, Reconfigure(d)
  PROVE  CallKept
  BY ReconfigureClient DEF CallKept, Call, CommonInv, Fields

\* What CachedSinceClear rests on: the targets of calls in progress are among those asked.
CacheInv ==
    /\ \A c \in Clients : Call(c).op \in Ids => Addr(c) \in asked
    /\ CachedSinceClear

LEMMA NoCallIsNoId == NoCall.op \notin Ids /\ NoCall.op \notin ByName /\ NoCall.op # "listECat"
  BY DEF NoCall, CallOf, None, Ids, ByName

\* Calls that return, and calls that go on, ask nothing new.
LEMMA CacheKept ==
  ASSUME CacheInv, CallKept, UNCHANGED ids
  PROVE  CacheInv'
<1>1. \A c \in Clients : Call(c)'.op \in Ids => Call(c)' = Call(c)
  BY NoCallIsNoId DEF CallKept
<1> QED
  BY <1>1 DEF CacheInv, CachedSinceClear, ids, Addr

LEMMA CacheNext == CommonInv /\ CacheInv /\ [Next]_vars => CacheInv'
<1> SUFFICES ASSUME CommonInv, CacheInv, [Next]_vars PROVE CacheInv'
  OBVIOUS
<1>1. CASE UNCHANGED vars
  BY <1>1 DEF vars, apiVars, CacheInv, CachedSinceClear, Call, Addr
<1>2. ASSUME NEW c \in Clients, NEW k, Begins(c, k) PROVE CacheInv'
  <2>1. CASE UNCHANGED apiVars
    BY <2>1 DEF apiVars, CacheInv, CachedSinceClear, Call, Addr
  <2>2. CASE Start(c, k)
    <3>1. UNCHANGED <<targetPlatformId, targetSystemId>> /\ asked \subseteq asked'
      BY <2>2 DEF Start
    <3>2. \A x \in Clients : Call(x)' = Call(x) \/ (x = c /\ Call(x)' = k /\ (k.op \in Ids => k.addr \in asked'))
      <4>1. CASE UNCHANGED st
        BY <4>1 DEF Call
      <4>2. CASE ~UNCHANGED st
        <5>1. asked' = IF k.op \in Ids THEN asked \cup {k.addr} ELSE asked
          BY <2>2, <4>2 DEF Start
        <5>2. PICK p, h, s :
                 /\ s = [Idle(k) EXCEPT
                            !.pc = FirstStage(k), !.port = p, !.handle = h,
                            !.data = IF k.op = "platformId" THEN targetPlatformId ELSE targetSystemId,
                            !.seen = IF k.op = "listECat" THEN {target[k.addr].devices} ELSE {}]
                 /\ st' = [st EXCEPT ![c] = s]
          BY ZenonT(30), <2>2, <4>2 DEF Start
        <5>3. s.call = k
          BY <5>2, IdleFields DEF Fields
        <5> QED
          BY <5>1, <5>2, <5>3 DEF Call, CommonInv, ClientInv
      <4> QED
        BY <4>1, <4>2
    <3>3. CachedSinceClear'
      BY <3>1 DEF CacheInv, CachedSinceClear
    <3>4. \A x \in Clients : Call(x)'.op \in Ids => Call(x)'.addr \in asked'
      BY <3>1, <3>2 DEF CacheInv, Addr
    <3> QED
      BY <3>3, <3>4 DEF CacheInv, Addr
  <2> QED
    BY <1>2, <2>1, <2>2 DEF Begins
<1>3. ASSUME NEW c \in Clients, Simple(c) PROVE CacheInv'
  BY <1>3, SimpleStep, FinishCall, CacheKept DEF CommonInv
<1>4. ASSUME NEW c \in Clients, SymbolStep(c) PROVE CacheInv'
  <2>1. UNCHANGED ids
    BY <1>4 DEF SymbolStep, GetSymbolHandle, AccessByHandle, ReleaseSymbolHandle
  <2> QED
    BY <1>4, <2>1, SymbolStepCall, CacheKept
<1>5. ASSUME NEW c \in Clients, IdStep(c) PROVE CacheInv'
  <2>1. \A x \in Clients : Call(x)'.op \in Ids => Call(x)' = Call(x)
    BY <1>5, IdStepCall, NoCallIsNoId DEF CallKept
  <2>2. CASE ShutdownRouting(c)
    <3>1. asked' = {Addr(d) : d \in {x \in Clients : Call(x).op \in Ids}} /\ Clear
      BY <2>2 DEF ShutdownRouting
    <3>2. \A x \in Clients : Call(x)'.op \in Ids => Call(x)'.addr \in asked'
      BY <2>1, <3>1 DEF Addr
    <3> QED
      BY <3>1, <3>2 DEF CacheInv, CachedSinceClear, Clear, Addr
  <2>3. CASE ReadDeviceInfo(c)
    <3>1. st[c].pc = "deviceInfo" /\ st[c].pc \in StagesOf(Call(c).op)
      BY <2>3 DEF ReadDeviceInfo, At, CommonInv, ClientInv
    <3>2. Addr(c) \in asked /\ UNCHANGED asked
      BY <2>3, <3>1, StageOps DEF CacheInv, ReadDeviceInfo
    <3>3. /\ targetPlatformId' \in {targetPlatformId, PlatformId[Addr(c)]}
          /\ targetSystemId' \in {targetSystemId, SystemId(Addr(c))}
      BY <2>3 DEF ReadDeviceInfo
    <3>4. CachedSinceClear'
      BY <3>2, <3>3 DEF CacheInv, CachedSinceClear
    <3> QED
      BY <2>1, <3>2, <3>4 DEF CacheInv, Addr
  <2>4. CASE CopyId(c)
    BY <1>5, <2>4, IdStepCall, CacheKept DEF CopyId
  <2> QED
    BY <1>5, <2>2, <2>3, <2>4 DEF IdStep
<1>6. ASSUME NEW c \in Clients, ListStep(c) PROVE CacheInv'
  BY <1>6, ListStepCall, ListStepTarget, CacheKept
<1>7. ASSUME NEW d \in Targets, Reconfigure(d) PROVE CacheInv'
  BY <1>7, ReconfigureCall, ReconfigureTarget, CacheKept
<1> QED
  BY <1>1, <1>2, <1>3, <1>4, <1>5, <1>6, <1>7, NextCases DEF CommonInv

(***************************************************************************)
(* Whatever the calls, and however they overlap: a cached id is one that   *)
(* was read from a target which a call asked after the last                *)
(* ShutdownRouting, or was asking at that time (TargetSystemInfo.cpp:123,  *)
(* AdsLiteAPI.cpp:108).                                                    *)
(***************************************************************************)
THEOREM IdsEndWithTheRouting == Spec => []CachedSinceClear
<1>1. Init => CacheInv
  <2> SUFFICES ASSUME Init PROVE CacheInv
    OBVIOUS
  <2>1. \A c \in Clients : Call(c) = NoCall
    BY IdleFields DEF Init, Call
  <2> QED
    BY <2>1, NoCallIsNoId DEF Init, CacheInv, CachedSinceClear
<1>2. CacheInv => CachedSinceClear
  BY DEF CacheInv
<1> QED
  BY <1>1, <1>2, CommonInit, CommonStep, CacheNext, PTL DEF Spec

-----------------------------------------------------------------------------
(* Symbols. *)

\* At these stages a call has a handle.
WithHandle == {"access", "release"}
HandleOf(c) == <<Addr(c), st[c].handle>>
AtTarget(x) == Handle(x[1])[x[2]]

\* A call by name has a handle that only itself will release.
Borrows(c) == Call(c).op \in ByName /\ st[c].pc \in WithHandle
Owned(c) == held[c] \cup (IF Borrows(c) THEN {HandleOf(c)} ELSE {})

\* Every handle that is owned is open and has one owner; every one that is open has
\* an owner or was lost; the symbol behind a borrowed handle is the one that was named.
SymbolInv ==
    /\ held \in [Clients -> SUBSET (Targets \X Handles)]
    /\ \A c \in Clients : \A x \in Owned(c) : x \in Targets \X Handles /\ AtTarget(x) # NoSymbol
    /\ \A c, d \in Clients : c # d => Owned(c) \cap Owned(d) = {}
    /\ \A c \in Clients : Borrows(c) => HandleOf(c) \notin held[c] /\ AtTarget(HandleOf(c)) = Call(c).arg
    /\ \A c \in Clients : st[c].pc \in WithHandle /\ ~Borrows(c) => HandleOf(c) \in held[c]
    /\ \A x \in Targets \X Handles :
          AtTarget(x) # NoSymbol => x \in lost \/ \E c \in Clients : x \in Owned(c)
    /\ \A c \in Clients :
          Borrows(c) /\ st[c].pc = "release" /\ st[c].status = "OK" => st[c].data = Call(c).arg
    /\ OwnSymbol

\* A step that leaves handles where they are: a call keeps the one it has, or
\* gives up one that its client holds.
LEMMA HandlesKept ==
  ASSUME SymbolInv, TargetInv, OwnSymbol', UNCHANGED symbols,
         \A x \in Targets : target'[x].handle = target[x].handle,
         \A c \in Clients :
            \/ ~Borrows(c) /\ st'[c].pc \notin WithHandle
            \/ /\ st[c].pc \in WithHandle /\ st'[c].pc \in WithHandle
               /\ st'[c].call = st[c].call /\ st'[c].handle = st[c].handle
               /\ Borrows(c) /\ st'[c].pc = "release" /\ st'[c].status = "OK" =>
                     st'[c].data = Call(c).arg
  PROVE  SymbolInv'
<1>1. \A x \in Targets \X Handles : AtTarget(x)' = AtTarget(x)
  BY DEF AtTarget, Handle
<1>2. \A c \in Clients :
         \/ ~Borrows(c) /\ st'[c].pc \notin WithHandle
         \/ /\ st[c].pc \in WithHandle /\ st'[c].pc \in WithHandle
            /\ Call(c)' = Call(c) /\ HandleOf(c)' = HandleOf(c)
  BY DEF Call, HandleOf, Addr
<1>3. \A c \in Clients : Borrows(c)' = Borrows(c)
  BY <1>2 DEF Borrows
<1>4. \A c \in Clients : Owned(c)' = Owned(c)
  BY <1>2, <1>3 DEF Owned, symbols, Borrows
<1>5. \A c \in Clients : Borrows(c) => HandleOf(c) \in Targets \X Handles
  BY DEF SymbolInv, Owned
<1>6. held' = held /\ lost' = lost
  BY DEF symbols
<1>7. \A c \in Clients : \A x \in Owned(c)' : x \in Targets \X Handles /\ AtTarget(x)' # NoSymbol
  BY <1>1, <1>4 DEF SymbolInv
<1>8. \A c \in Clients : Borrows(c)' => HandleOf(c)' \notin held'[c] /\ AtTarget(HandleOf(c))' = Call(c)'.arg
  <2> SUFFICES ASSUME NEW c \in Clients, Borrows(c)
               PROVE  HandleOf(c)' \notin held'[c] /\ AtTarget(HandleOf(c))' = Call(c)'.arg
    BY <1>3
  <2>1. HandleOf(c)' = HandleOf(c) /\ Call(c)' = Call(c)
    BY <1>2 DEF Borrows
  <2>2. AtTarget(HandleOf(c))' = AtTarget(HandleOf(c))
    BY <1>1, <1>5, <2>1 DEF AtTarget, Handle
  <2> QED
    BY <1>6, <2>1, <2>2 DEF SymbolInv
<1>9. \A c \in Clients : st'[c].pc \in WithHandle /\ ~Borrows(c)' => HandleOf(c)' \in held'[c]
  BY <1>2, <1>3, <1>6 DEF SymbolInv
<1>10. \A c \in Clients :
          Borrows(c)' /\ st'[c].pc = "release" /\ st'[c].status = "OK" => st'[c].data = Call(c)'.arg
  BY <1>2, <1>3
<1> QED
  BY <1>1, <1>4, <1>6, <1>7, <1>8, <1>9, <1>10 DEF SymbolInv

\* In most steps the calls that have a handle are not concerned.
LEMMA SymbolsKept ==
  ASSUME SymbolInv, TargetInv, OwnSymbol', UNCHANGED symbols,
         \A x \in Targets : target'[x].handle = target[x].handle,
         \A c \in Clients :
            \/ st[c].pc \notin WithHandle /\ st'[c].pc \notin WithHandle
            \/ \A f \in {"pc", "call", "handle", "status", "data"} : st'[c][f] = st[c][f]
  PROVE  SymbolInv'
<1>1. \A c \in Clients :
         \/ ~Borrows(c) /\ st'[c].pc \notin WithHandle
         \/ /\ st[c].pc \in WithHandle /\ st'[c].pc \in WithHandle
            /\ st'[c].call = st[c].call /\ st'[c].handle = st[c].handle
            /\ Borrows(c) /\ st'[c].pc = "release" /\ st'[c].status = "OK" =>
                  st'[c].data = Call(c).arg
  BY DEF Borrows, SymbolInv
<1> QED
  BY <1>1, HandlesKept

\* What is not a call by name that succeeds says nothing about symbols.
LEMMA OtherResult ==
  ASSUME OwnSymbol, NEW c \in Clients, DOMAIN ret = Clients, NEW op, NEW arg, NEW status, NEW value,
         ret' = [ret EXCEPT ![c] = Result(op, arg, status, value)],
         op \in ByName /\ status = "OK" => value = arg
  PROVE  OwnSymbol'
  BY DEF OwnSymbol, Result

LEMMA FinishSymbols ==
  ASSUME SymbolInv, CommonInv, NEW c \in Clients, NEW status, NEW value, Finish(c, status, value),
         st[c].pc \notin WithHandle, Call(c).op \in ByName => status # "OK",
         UNCHANGED symbols, \A x \in Targets : target'[x].handle = target[x].handle
  PROVE  SymbolInv'
<1>1. OwnSymbol'
  BY OtherResult DEF Finish, SymbolInv, CommonInv, ClientInv
<1>2. st'[c].pc = "idle" /\ \A x \in Clients : x # c => st'[x] = st[x]
  BY IdleFields DEF Finish, CommonInv, ClientInv
<1> QED
  BY <1>1, <1>2, SymbolsKept DEF CommonInv, WithHandle

LEMMA ProceedSymbols ==
  ASSUME SymbolInv, CommonInv, NEW c \in Clients, NEW s, Proceed(c, s),
         st[c].pc \notin WithHandle, s.pc \notin WithHandle,
         UNCHANGED symbols, \A x \in Targets : target'[x].handle = target[x].handle
  PROVE  SymbolInv'
<1>1. OwnSymbol'
  BY DEF Proceed, SymbolInv, OwnSymbol
<1>2. st'[c] = s /\ \A x \in Clients : x # c => st'[x] = st[x]
  BY DEF Proceed, CommonInv, ClientInv
<1> QED
  BY <1>1, <1>2, SymbolsKept DEF CommonInv

\* Only calls by handle begin with one, and it is one that was given to the client.
LEMMA StartStages ==
  ASSUME NEW k, k.op \in Operations, k.op \notin Ports,
         k.op \notin {"addNotification", "delNotification", "asyncWait"}, FirstStage(k) \in WithHandle
  PROVE  k.op \in ByHandle \cup {"releaseHandle"}
  BY FirstStageFits DEF StagesOf, WithHandle, Operations, ByName, ByHandle, Ids, Ports, FirstStage

LEMMA StartSymbols ==
  ASSUME SymbolInv, CommonInv, NEW c \in Clients, NEW k, Begins(c, k)
  PROVE  SymbolInv'
<1>1. st[c].pc = "idle" /\ DOMAIN ret = Clients /\ DOMAIN st = Clients
  BY DEF Begins, At, CommonInv, ClientInv
<1>2. UNCHANGED <<target, held, lost>>
  BY DEF Begins, Start, apiVars, symbols
<1>3. OwnSymbol'
  <2>1. CASE Port(c, k)
    <3>1. PICK op \in {"PortOpen", "PortClose", "SyncSetTimeout", "SyncGetTimeout", "GetLocalAddress",
                       "SetLocalAddress"} :
             \E status, value : Returns(c, op, status, value)
      BY <2>1 DEF Port, AdsLitePortOpen, AdsLitePortClose, AdsLiteSyncSetTimeout,
                  AdsLiteSyncGetTimeout, AdsLiteGetLocalAddress, AdsLiteSetLocalAddress
    <3>2. PICK status, value : ret' = [ret EXCEPT ![c] = Result(op, "", status, value)]
      BY <3>1 DEF Returns
    <3>3. op \notin ByName
      BY DEF ByName
    <3> QED
      BY <1>1, <3>2, <3>3, OtherResult DEF SymbolInv
  <2>2. CASE Start(c, k)
    <3>1. \/ (Guard(k) # "OK" \/ k.op = "asyncWait") /\ ret' = [ret EXCEPT ![c] = Result(k.op, k.arg, Guard(k), None)]
          \/ ret' = [ret EXCEPT ![c] = Result(None, None, "OK", None)]
      BY <2>2 DEF Start
    <3>2. "asyncWait" \notin ByName /\ None \notin ByName
      BY DEF ByName, None
    <3> QED
      BY <1>1, <3>1, <3>2, OtherResult DEF SymbolInv
  <2> QED
    BY <2>1, <2>2 DEF Begins
<1>4. CASE UNCHANGED st
  BY <1>2, <1>3, <1>4, SymbolsKept DEF CommonInv, symbols
<1>5. CASE ~UNCHANGED st
  <2>1. Start(c, k)
    BY <1>5 DEF Begins, apiVars
  <2>2. PICK p, h, s :
           /\ h \in HandlesFor(c, k) /\ Guard(k) = "OK" /\ k.op # "asyncWait"
           /\ s = [Idle(k) EXCEPT
                      !.pc = FirstStage(k), !.port = p, !.handle = h,
                      !.data = IF k.op = "platformId" THEN targetPlatformId ELSE targetSystemId,
                      !.seen = IF k.op = "listECat" THEN {target[k.addr].devices} ELSE {}]
           /\ st' = [st EXCEPT ![c] = s]
    BY ZenonT(30), <1>5, <2>1 DEF Start
  <2>3. s.pc = FirstStage(k) /\ s.handle = h /\ s.call = k
    BY <2>2, IdleFields DEF Fields
  <2>4. st'[c] = s /\ \A x \in Clients : x # c => st'[x] = st[x]
    BY <1>1, <2>2
  <2>5. CASE FirstStage(k) \notin WithHandle
    <3>1. st[c].pc \notin WithHandle /\ st'[c].pc \notin WithHandle
      BY <1>1, <2>3, <2>4, <2>5 DEF WithHandle
    <3> QED
      BY <1>2, <1>3, <2>4, <3>1, SymbolsKept DEF CommonInv, symbols
  <2>6. CASE FirstStage(k) \in WithHandle
    <3>1. k.op \in ByHandle \cup {"releaseHandle"} /\ k.op \notin ByName
      <4>1. k.op \in ByHandle \cup {"releaseHandle"}
        BY <2>1, <2>2, <2>6, NotRefused, StartStages DEF Begins, Start
      <4> QED
        BY <4>1 DEF ByHandle, ByName
    <3>2. <<k.addr, h>> \in held[c]
      BY <2>2, <3>1 DEF HandlesFor
    <3>3. /\ HandleOf(c)' = <<k.addr, h>> /\ ~Borrows(c)' /\ ~Borrows(c)
      BY <1>1, <2>3, <2>4, <3>1 DEF HandleOf, Borrows, Call, Addr, WithHandle
    <3>4. \A x \in Clients : x # c => /\ Borrows(x)' = Borrows(x) /\ HandleOf(x)' = HandleOf(x)
                                      /\ Call(x)' = Call(x)
      BY <2>4 DEF HandleOf, Borrows, Call, Addr
    <3>5. \A x \in Clients : Owned(x)' = Owned(x)
      BY <1>2, <3>3, <3>4 DEF Owned
    <3>6. \A x : AtTarget(x)' = AtTarget(x)
      BY <1>2 DEF AtTarget, Handle
    <3>7. \A x \in Clients : Borrows(x)' => HandleOf(x)' \notin held'[x] /\ AtTarget(HandleOf(x))' = Call(x)'.arg
      <4> SUFFICES ASSUME NEW x \in Clients, Borrows(x)'
                   PROVE  HandleOf(x)' \notin held'[x] /\ AtTarget(HandleOf(x))' = Call(x)'.arg
        OBVIOUS
      <4>1. x # c /\ Borrows(x) /\ HandleOf(x)' = HandleOf(x) /\ Call(x)' = Call(x)
        BY <3>3, <3>4
      <4>2. AtTarget(HandleOf(x))' = AtTarget(HandleOf(x))
        BY <1>2, <4>1 DEF AtTarget, Handle
      <4> QED
        BY <1>2, <4>1, <4>2 DEF SymbolInv
    <3>8. \A x \in Clients : st'[x].pc \in WithHandle /\ ~Borrows(x)' => HandleOf(x)' \in held'[x]
      BY <1>2, <2>4, <3>2, <3>3, <3>4 DEF SymbolInv
    <3>9. \A x \in Clients :
             Borrows(x)' /\ st'[x].pc = "release" /\ st'[x].status = "OK" => st'[x].data = Call(x)'.arg
      BY <2>4, <3>3, <3>4 DEF SymbolInv
    <3> QED
      BY <1>2, <1>3, <3>5, <3>6, <3>7, <3>8, <3>9 DEF SymbolInv
  <2> QED
    BY <2>5, <2>6
<1> QED
  BY <1>4, <1>5

\* The three steps of a call by name.
LEMMA GetSymbolHandleKeeps ==
  ASSUME SymbolInv, CommonInv, NEW c \in Clients, GetSymbolHandle(c)
  PROVE  SymbolInv'
<1>1. PICK h, v, status :
         /\ target' = target \/ Gives(c, h)
         /\ status = "OK" => Gives(c, h) /\ v = h
         /\ held' = IF status = "OK" /\ Call(c).op = "getHandle"
                    THEN [held EXCEPT ![c] = @ \cup {<<Addr(c), h>>}] ELSE held
         /\ lost' = IF status # "OK" /\ target' # target THEN lost \cup {<<Addr(c), h>>} ELSE lost
         /\ Advance(c, [st[c] EXCEPT !.status = status, !.handle = v])
  BY GetSymbolHandleStep
<1>2. /\ st[c].pc = "handle" /\ Addr(c) \in Targets /\ DOMAIN st[c] = Fields /\ DOMAIN st = Clients
      /\ DOMAIN ret = Clients /\ st[c].pc \in StagesOf(Call(c).op)
  BY DEF GetSymbolHandle, At, CommonInv, ClientInv
<1>3. Call(c).op \in ByName \cup {"getHandle"} /\ "getHandle" \notin ByName
  BY <1>2, StageOps DEF ByName
<1> DEFINE s == [st[c] EXCEPT !.status = status, !.handle = v]
           new == <<Addr(c), h>>
<1>4. s.status = status /\ s.handle = v /\ s.call = Call(c) /\ DOMAIN s = Fields
  BY <1>2 DEF Fields, Call
<1>5. ~Borrows(c) /\ st[c].pc \notin WithHandle
  BY <1>2 DEF Borrows, WithHandle
\* Who owned what is open keeps it, and the new handle was nobody's.
<1>6. ASSUME Gives(c, h)
      PROVE  /\ new \in Targets \X Handles /\ AtTarget(new) = NoSymbol /\ Call(c).arg # NoSymbol
             /\ \A x \in Clients : new \notin Owned(x)
             /\ \A x \in Targets \X Handles :
                   AtTarget(x)' = IF x = new THEN Call(c).arg ELSE AtTarget(x)
  <2> USE <1>6
  <2>6. Call(c).arg # NoSymbol
    BY APIAssumption DEF Gives
  <2>1. new \in Targets \X Handles /\ AtTarget(new) = NoSymbol
    BY <1>2 DEF Gives, AtTarget
  <2>2. \A x \in Clients : new \notin Owned(x)
    BY <2>1 DEF SymbolInv
  <2> DEFINE d == Addr(c)
             y == Call(c).arg
             e == [target EXCEPT ![d].handle[h] = y]
  <2>3. /\ e[d].handle[h] = y
        /\ \A z \in Targets, g \in Handles : z # d \/ g # h => e[z].handle[g] = target[z].handle[g]
    <3>1. d \in Targets /\ h \in Handles /\ y \in Symbols
      BY <1>2 DEF Gives
    <3> HIDE DEF d, y
    <3> QED
      BY <3>1 DEF CommonInv, TargetInv, TargetTypes
  <2>5. target' = e
    BY DEF Gives
  <2>4. \A x \in Targets \X Handles : AtTarget(x)' = IF x = new THEN Call(c).arg ELSE AtTarget(x)
    BY <2>3, <2>5 DEF AtTarget, Handle
  <2> QED
    BY <2>1, <2>2, <2>4, <2>6
<1>7. \A x \in Clients : x # c => st'[x] = st[x] /\ held'[x] = held[x]
  BY <1>1, <1>2 DEF Advance, Proceed, Finish, SymbolInv
<1>8. \/ /\ status = "OK" /\ Call(c).op \in ByName /\ held' = held /\ lost' = lost
         /\ st'[c].pc = "access" /\ st'[c].handle = h /\ Call(c)' = Call(c) /\ UNCHANGED ret
      \/ /\ st'[c].pc = "idle" /\ ret' = [ret EXCEPT ![c] = Result(Call(c).op, Call(c).arg, status, s.data)]
         /\ status = "OK" => Call(c).op = "getHandle"
  <2>1. CASE status = "OK" /\ Call(c).op \in ByName
    <3>1. Following(st[c].pc, s.status) = "access"
      BY <1>2, <1>4, <2>1 DEF Following, NextStage
    <3>2. st' = [st EXCEPT ![c] = [s EXCEPT !.pc = "access"]] /\ UNCHANGED ret
      BY <1>1, <2>1, <3>1 DEF Advance, Proceed
    <3>3. st'[c].pc = "access" /\ st'[c].handle = v /\ st'[c].call = Call(c)
      BY <1>2, <1>4, <3>2 DEF Fields
    <3> QED
      BY <1>1, <1>3, <2>1, <3>2, <3>3 DEF Call
  <2>2. CASE ~(status = "OK" /\ Call(c).op \in ByName)
    <3>1. Call(c).op \in ByName => Following(st[c].pc, s.status) = "done"
      BY <1>2, <1>4, <2>2 DEF Following
    <3>2. Finish(c, status, s.data)
      BY <1>1, <1>4, <3>1 DEF Advance
    <3> QED
      BY <1>2, <1>3, <2>2, <3>2, IdleFields DEF Finish
  <2> QED
    BY <2>1, <2>2
<1>9. OwnSymbol'
  <2>1. CASE UNCHANGED ret
    BY <2>1 DEF SymbolInv, OwnSymbol
  <2>2. CASE ret' = [ret EXCEPT ![c] = Result(Call(c).op, Call(c).arg, status, s.data)]
             /\ (status = "OK" => Call(c).op = "getHandle")
    BY <1>2, <1>3, <2>2, OtherResult DEF SymbolInv
  <2> QED
    BY <1>8, <2>1, <2>2
<1>10. \A x \in Clients : x # c => /\ Borrows(x)' = Borrows(x) /\ HandleOf(x)' = HandleOf(x)
                                   /\ Call(x)' = Call(x) /\ Owned(x)' = Owned(x)
  BY <1>7 DEF Borrows, HandleOf, Call, Addr, Owned
<1>11. /\ Borrows(c)' => /\ status = "OK" /\ HandleOf(c)' = new /\ Call(c)' = Call(c)
                         /\ held'[c] = held[c] /\ st'[c].pc = "access"
       /\ st'[c].pc \in WithHandle => Borrows(c)'
       /\ status = "OK" => (Borrows(c)' \/ new \in held'[c])
       /\ held'[c] \in {held[c], held[c] \cup {new}}
       /\ status # "OK" => held'[c] = held[c]
  BY <1>1, <1>3, <1>8 DEF Borrows, HandleOf, Addr, Call, WithHandle, SymbolInv
<1>12. Owned(c)' = Owned(c) \cup (IF status = "OK" THEN {new} ELSE {})
  BY <1>5, <1>11 DEF Owned
<1>13. status = "OK" => Gives(c, h)
  BY <1>1
<1>14. \A x \in Targets \X Handles :
          AtTarget(x)' = AtTarget(x) \/ (x = new /\ Gives(c, h) /\ AtTarget(x)' = Call(c).arg)
  BY <1>1, <1>6 DEF AtTarget, Handle
<1>15. ASSUME Gives(c, h), status # "OK" PROVE new \in lost'
  <2>1. target' # target
    BY <1>6, <1>15 DEF AtTarget, Handle
  <2> QED
    BY <1>1, <1>15, <2>1
<1>16. lost \subseteq lost'
  BY <1>1
<1>17. \A d \in Clients : \A x \in Owned(d)' : x \in Targets \X Handles /\ AtTarget(x)' # NoSymbol
  <2> SUFFICES ASSUME NEW d \in Clients, NEW x \in Owned(d)'
               PROVE  x \in Targets \X Handles /\ AtTarget(x)' # NoSymbol
    OBVIOUS
  <2>1. CASE x \in Owned(d)
    <3>1. x \in Targets \X Handles /\ AtTarget(x) # NoSymbol
      BY <2>1 DEF SymbolInv
    <3> QED
      BY <1>6, <1>14, <3>1
  <2>2. CASE x \notin Owned(d)
    <3>1. d = c /\ status = "OK" /\ x = new
      BY <1>10, <1>12, <2>2
    <3> QED
      BY <1>6, <1>13, <3>1
  <2> QED
    BY <2>1, <2>2
<1>18. \A d, e \in Clients : d # e => Owned(d)' \cap Owned(e)' = {}
  BY <1>6, <1>10, <1>12, <1>13 DEF SymbolInv
<1>19. \A d \in Clients : Borrows(d)' => HandleOf(d)' \notin held'[d] /\ AtTarget(HandleOf(d))' = Call(d)'.arg
  <2> SUFFICES ASSUME NEW d \in Clients, Borrows(d)'
               PROVE  HandleOf(d)' \notin held'[d] /\ AtTarget(HandleOf(d))' = Call(d)'.arg
    OBVIOUS
  <2>1. CASE d = c
    <3>1. HandleOf(c)' = new /\ status = "OK" /\ held'[c] = held[c] /\ Call(c)' = Call(c)
      BY <1>11, <2>1
    <3>2. target'[new[1]].handle[new[2]] = Call(c).arg /\ new \notin held[c]
      BY <1>6, <1>13, <3>1 DEF AtTarget, Handle, Owned
    <3> QED
      BY <2>1, <3>1, <3>2 DEF AtTarget, Handle
  <2>2. CASE d # c
    <3>1. Borrows(d) /\ HandleOf(d)' = HandleOf(d) /\ Call(d)' = Call(d) /\ held'[d] = held[d]
      BY <1>7, <1>10, <2>2
    <3>2. HandleOf(d) \in Owned(d) /\ HandleOf(d) \in Targets \X Handles
      BY <3>1 DEF Owned, SymbolInv
    <3>3. Gives(c, h) => HandleOf(d) # new
      BY <1>6, <3>2
    <3>4. target'[HandleOf(d)[1]].handle[HandleOf(d)[2]] = AtTarget(HandleOf(d))
      BY <1>14, <3>2, <3>3 DEF AtTarget, Handle
    <3> QED
      BY <3>1, <3>4 DEF AtTarget, Handle, SymbolInv
  <2> QED
    BY <2>1, <2>2
<1>20. \A d \in Clients : st'[d].pc \in WithHandle /\ ~Borrows(d)' => HandleOf(d)' \in held'[d]
  BY <1>7, <1>10, <1>11 DEF SymbolInv
<1>21. \A x \in Targets \X Handles :
          AtTarget(x)' # NoSymbol => x \in lost' \/ \E d \in Clients : x \in Owned(d)'
  <2> SUFFICES ASSUME NEW x \in Targets \X Handles, AtTarget(x)' # NoSymbol
               PROVE  x \in lost' \/ \E d \in Clients : x \in Owned(d)'
    OBVIOUS
  <2>1. CASE AtTarget(x)' = AtTarget(x)
    <3>1. x \in lost \/ \E d \in Clients : x \in Owned(d)
      BY <2>1 DEF SymbolInv
    <3> QED
      BY <1>10, <1>12, <1>16, <3>1
  <2>2. CASE x = new /\ Gives(c, h)
    BY <1>12, <1>15, <2>2
  <2> QED
    BY <1>14, <2>1, <2>2
<1>22. \A d \in Clients :
          Borrows(d)' /\ st'[d].pc = "release" /\ st'[d].status = "OK" => st'[d].data = Call(d)'.arg
  BY <1>7, <1>10, <1>11 DEF SymbolInv
<1>23. held' \in [Clients -> SUBSET (Targets \X Handles)]
  BY <1>1, <1>6, <1>13 DEF SymbolInv
<1> QED
  BY <1>9, <1>17, <1>18, <1>19, <1>20, <1>21, <1>22, <1>23 DEF SymbolInv

LEMMA AccessByHandleKeeps ==
  ASSUME SymbolInv, CommonInv, NEW c \in Clients, AccessByHandle(c)
  PROVE  SymbolInv'
<1>1. PICK v, status :
         /\ target' = target \/ \E cell : target' = Written(Addr(c), cell)
         /\ status = "OK" => v = Handle(Addr(c))[st[c].handle] /\ v # NoSymbol
         /\ Advance(c, [st[c] EXCEPT !.status = status, !.data = v])
  BY AccessByHandleStep
<1>2. /\ st[c].pc = "access" /\ Addr(c) \in Targets /\ DOMAIN st[c] = Fields /\ DOMAIN st = Clients
      /\ DOMAIN ret = Clients /\ st[c].pc \in StagesOf(Call(c).op) /\ UNCHANGED symbols
  BY DEF AccessByHandle, At, CommonInv, ClientInv
<1>3. \A x \in Targets : target'[x].handle = target[x].handle
  BY <1>1, <1>2, WrittenTarget DEF CommonInv
<1> DEFINE s == [st[c] EXCEPT !.status = status, !.data = v]
<1>4. s.status = status /\ s.data = v /\ s.handle = st[c].handle /\ s.call = st[c].call /\ DOMAIN s = Fields
  BY <1>2 DEF Fields
<1>5. CASE Call(c).op \in ByName
  <2>1. Following(st[c].pc, s.status) = "release"
    BY <1>2 DEF Following, NextStage
  <2>2. st' = [st EXCEPT ![c] = [s EXCEPT !.pc = "release"]] /\ UNCHANGED ret
    BY <1>1, <1>5, <2>1 DEF Advance, Proceed
  <2>3. /\ st'[c].pc = "release" /\ st'[c].call = st[c].call /\ st'[c].handle = st[c].handle
        /\ st'[c].status = status /\ st'[c].data = v
    BY <1>2, <1>4, <2>2 DEF Fields
  <2>4. Borrows(c) /\ (status = "OK" => v = Call(c).arg)
    BY <1>1, <1>2, <1>5 DEF Borrows, WithHandle, SymbolInv, AtTarget, HandleOf
  <2>5. \A x \in Clients : x # c => st'[x] = st[x]
    BY <1>2, <2>2
  <2>6. OwnSymbol'
    BY <2>2 DEF SymbolInv, OwnSymbol
  <2>7. \A x \in Clients :
           \/ ~Borrows(x) /\ st'[x].pc \notin WithHandle
           \/ /\ st[x].pc \in WithHandle /\ st'[x].pc \in WithHandle
              /\ st'[x].call = st[x].call /\ st'[x].handle = st[x].handle
              /\ Borrows(x) /\ st'[x].pc = "release" /\ st'[x].status = "OK" =>
                    st'[x].data = Call(x).arg
    BY <1>2, <2>3, <2>4, <2>5 DEF Borrows, WithHandle, SymbolInv
  <2> QED
    BY <1>2, <1>3, <2>6, <2>7, HandlesKept DEF CommonInv
<1>6. CASE Call(c).op \notin ByName
  <2>1. Finish(c, s.status, s.data)
    BY <1>1, <1>6 DEF Advance
  <2>2. st'[c].pc = "idle" /\ \A x \in Clients : x # c => st'[x] = st[x]
    BY <1>2, <2>1, IdleFields DEF Finish
  <2>3. OwnSymbol'
    BY <1>2, <1>6, <2>1, OtherResult DEF Finish, SymbolInv
  <2>4. \A x \in Clients :
           \/ ~Borrows(x) /\ st'[x].pc \notin WithHandle
           \/ /\ st[x].pc \in WithHandle /\ st'[x].pc \in WithHandle
              /\ st'[x].call = st[x].call /\ st'[x].handle = st[x].handle
              /\ Borrows(x) /\ st'[x].pc = "release" /\ st'[x].status = "OK" =>
                    st'[x].data = Call(x).arg
    BY <1>6, <2>2 DEF Borrows, WithHandle, SymbolInv
  <2> QED
    BY <1>2, <1>3, <2>3, <2>4, HandlesKept DEF CommonInv
<1> QED
  BY <1>5, <1>6

LEMMA ReleaseSymbolHandleKeeps ==
  ASSUME SymbolInv, CommonInv, NEW c \in Clients, ReleaseSymbolHandle(c)
  PROVE  SymbolInv'
<1>0. PICK old : old = HandleOf(c)
  OBVIOUS
<1>1. PICK s :
         /\ \/ target' = target
            \/ target' = [target EXCEPT ![Addr(c)].handle[st[c].handle] = NoSymbol]
         /\ held' = [held EXCEPT ![c] = @ \ {old}]
         /\ lost' = IF target'[Addr(c)].handle[st[c].handle] # NoSymbol THEN lost \cup {old} ELSE lost
         /\ Call(c).op \in ByName => s = st[c]
         /\ Advance(c, s)
  BY <1>0, ReleaseSymbolHandleStep DEF HandleOf
<1>2. /\ st[c].pc = "release" /\ Addr(c) \in Targets /\ DOMAIN st = Clients /\ DOMAIN ret = Clients
      /\ st[c].pc \in WithHandle
  BY DEF ReleaseSymbolHandle, At, CommonInv, ClientInv, WithHandle
<1>3. Finish(c, s.status, s.data)
  <2>1. Following(st[c].pc, s.status) = "done"
    BY <1>2 DEF Following, NextStage
  <2> QED
    BY <1>1, <2>1 DEF Advance
<1>4. st'[c].pc = "idle" /\ \A x \in Clients : x # c => st'[x] = st[x]
  BY <1>2, <1>3, IdleFields DEF Finish
<1>5. OwnSymbol'
  <2>1. Call(c).op \in ByName /\ s.status = "OK" => s.data = Call(c).arg
    BY <1>1, <1>2 DEF SymbolInv, Borrows
  <2> QED
    BY <1>2, <1>3, <2>1, OtherResult DEF Finish, SymbolInv
<1>6. old \in Owned(c) /\ old \in Targets \X Handles
  BY <1>0, <1>2 DEF SymbolInv, Owned
<1>7. \A x \in Clients : x # c => held'[x] = held[x]
  BY <1>1 DEF SymbolInv
<1>8. ~Borrows(c)' /\ st'[c].pc \notin WithHandle
  BY <1>4 DEF Borrows, WithHandle
<1>9. Owned(c)' = Owned(c) \ {old}
  BY <1>0, <1>1, <1>2, <1>8 DEF Owned, SymbolInv
<1>10. \A x \in Clients : x # c => /\ Borrows(x)' = Borrows(x) /\ HandleOf(x)' = HandleOf(x)
                                   /\ Call(x)' = Call(x) /\ Owned(x)' = Owned(x)
  BY <1>4, <1>7 DEF Borrows, HandleOf, Call, Addr, Owned
<1>11. \A x \in Targets \X Handles : x # old => AtTarget(x)' = AtTarget(x)
  <2>1. CASE target' = target
    BY <2>1 DEF AtTarget, Handle
  <2>2. CASE target' = [target EXCEPT ![Addr(c)].handle[st[c].handle] = NoSymbol]
    BY <1>0, <1>2, <2>2 DEF AtTarget, Handle, HandleOf, CommonInv, TargetInv, TargetTypes
  <2> QED
    BY <1>1, <2>1, <2>2
<1>12. AtTarget(old)' # NoSymbol => old \in lost'
  BY <1>0, <1>1, <1>2, <1>6 DEF AtTarget, Handle, HandleOf
<1>13. \A d \in Clients : \A x \in Owned(d)' : x \in Owned(d) /\ x # old
  BY <1>6, <1>9, <1>10 DEF SymbolInv
<1>14. \A d \in Clients : \A x \in Owned(d)' : x \in Targets \X Handles /\ AtTarget(x)' # NoSymbol
  <2> SUFFICES ASSUME NEW d \in Clients, NEW x \in Owned(d)'
               PROVE  x \in Targets \X Handles /\ AtTarget(x)' # NoSymbol
    OBVIOUS
  <2>1. x \in Owned(d) /\ x # old
    BY <1>13
  <2>2. x \in Targets \X Handles /\ AtTarget(x) # NoSymbol
    BY <2>1 DEF SymbolInv
  <2> QED
    BY <1>11, <2>1, <2>2
<1>15. \A d, e \in Clients : d # e => Owned(d)' \cap Owned(e)' = {}
  BY <1>13 DEF SymbolInv
<1>16. \A d \in Clients : Borrows(d)' => HandleOf(d)' \notin held'[d] /\ AtTarget(HandleOf(d))' = Call(d)'.arg
  <2> SUFFICES ASSUME NEW d \in Clients, Borrows(d)'
               PROVE  HandleOf(d)' \notin held'[d] /\ AtTarget(HandleOf(d))' = Call(d)'.arg
    OBVIOUS
  <2>1. d # c /\ Borrows(d) /\ HandleOf(d)' = HandleOf(d) /\ Call(d)' = Call(d) /\ held'[d] = held[d]
    BY <1>7, <1>8, <1>10
  <2>2. HandleOf(d) \in Owned(d) /\ HandleOf(d) \in Targets \X Handles /\ HandleOf(d) # old
    BY <1>6, <2>1 DEF Owned, SymbolInv
  <2>3. target'[HandleOf(d)[1]].handle[HandleOf(d)[2]] = AtTarget(HandleOf(d))
    BY <1>11, <2>2 DEF AtTarget, Handle
  <2> QED
    BY <2>1, <2>3 DEF AtTarget, Handle, SymbolInv
<1>17. \A d \in Clients : st'[d].pc \in WithHandle /\ ~Borrows(d)' => HandleOf(d)' \in held'[d]
  BY <1>4, <1>7, <1>8, <1>10 DEF SymbolInv
<1>18. \A x \in Targets \X Handles :
          AtTarget(x)' # NoSymbol => x \in lost' \/ \E d \in Clients : x \in Owned(d)'
  <2> SUFFICES ASSUME NEW x \in Targets \X Handles, x # old, AtTarget(x)' # NoSymbol
               PROVE  x \in lost' \/ \E d \in Clients : x \in Owned(d)'
    BY <1>12
  <2>1. x \in lost \/ \E d \in Clients : x \in Owned(d)
    BY <1>11 DEF SymbolInv
  <2> QED
    BY <1>1, <1>9, <1>10, <2>1
<1>19. \A d \in Clients :
          Borrows(d)' /\ st'[d].pc = "release" /\ st'[d].status = "OK" => st'[d].data = Call(d)'.arg
  BY <1>4, <1>8, <1>10 DEF SymbolInv
<1>20. held' \in [Clients -> SUBSET (Targets \X Handles)]
  BY <1>1 DEF SymbolInv
<1> QED
  BY <1>5, <1>14, <1>15, <1>16, <1>17, <1>18, <1>19, <1>20 DEF SymbolInv

\* The steps of calls that have no handle.
LEMMA IdStepSymbols ==
  ASSUME SymbolInv, CommonInv, NEW c \in Clients, IdStep(c)
  PROVE  SymbolInv'
<1>1. /\ UNCHANGED symbols /\ \A x \in Targets : target'[x].handle = target[x].handle
      /\ DOMAIN st[c] = Fields /\ st[c].pc \in StagesOf(Call(c).op)
  BY IdStepTarget DEF CommonInv, ClientInv
<1>2. CASE ShutdownRouting(c)
  <2> DEFINE s == [st[c] EXCEPT !.pc = "deleteRoute"]
  <2>1. st[c].pc = "shutdownRouting" /\ Proceed(c, s)
    BY <1>2 DEF ShutdownRouting, At
  <2>2. s.pc = "deleteRoute"
    BY <1>1 DEF Fields
  <2> HIDE DEF s
  <2> QED
    BY <1>1, <2>1, <2>2, ProceedSymbols DEF WithHandle
<1>3. CASE ReadDeviceInfo(c)
  <2>1. st[c].pc = "deviceInfo"
    BY <1>3 DEF ReadDeviceInfo, At
  <2>2. Call(c).op \notin ByName
    BY <1>1, <2>1, StageOps DEF Ids, ByName
  <2>3. PICK v, status, s : \/ Finish(c, status, None)
                            \/ s = [st[c] EXCEPT !.pc = "copy", !.data = v] /\ Proceed(c, s)
    BY <1>3 DEF ReadDeviceInfo
  <2>4. CASE Finish(c, status, None)
    BY <1>1, <2>1, <2>2, <2>4, FinishSymbols DEF WithHandle
  <2>5. CASE s = [st[c] EXCEPT !.pc = "copy", !.data = v] /\ Proceed(c, s)
    <3>1. s.pc = "copy"
      BY <1>1, <2>5 DEF Fields
    <3> QED
      BY <1>1, <2>1, <2>5, <3>1, ProceedSymbols DEF WithHandle
  <2> QED
    BY <2>3, <2>4, <2>5
<1>4. CASE CopyId(c)
  <2>1. st[c].pc = "copy" /\ \E v : Finish(c, "OK", v)
    BY <1>4 DEF CopyId, At
  <2>2. Call(c).op \notin ByName
    BY <1>1, <2>1, StageOps DEF Ids, ByName
  <2> QED
    BY <1>1, <2>1, <2>2, FinishSymbols DEF WithHandle
<1> QED
  BY <1>2, <1>3, <1>4 DEF IdStep

LEMMA SymbolsNext == CommonInv /\ SymbolInv /\ [Next]_vars => SymbolInv'
<1> SUFFICES ASSUME CommonInv, SymbolInv, [Next]_vars PROVE SymbolInv'
  OBVIOUS
<1>1. CASE UNCHANGED vars
  <2>1. UNCHANGED <<st, ret, target, held, lost>>
    BY <1>1 DEF vars, apiVars
  <2>2. OwnSymbol'
    BY <2>1 DEF SymbolInv, OwnSymbol
  <2> QED
    BY <2>1, <2>2, SymbolsKept DEF CommonInv, symbols
<1>2. ASSUME NEW c \in Clients, NEW k, Begins(c, k) PROVE SymbolInv'
  BY <1>2, StartSymbols
<1>3. ASSUME NEW c \in Clients, Simple(c) PROVE SymbolInv'
  <2>1. /\ \E status, value : Finish(c, status, value)
        /\ TargetKept /\ UNCHANGED symbols
        /\ st[c].pc \in {"initRouting", "deleteRoute", "read", "write", "readWrite", "readState",
                         "writeControl", "startProcess"}
    BY <1>3, SimpleStep
  <2>2. Call(c).op \notin ByName
    BY <2>1, StageOps DEF CommonInv, ClientInv
  <2> QED
    BY <2>1, <2>2, FinishSymbols DEF TargetKept, WithHandle
<1>4. ASSUME NEW c \in Clients, SymbolStep(c) PROVE SymbolInv'
  BY <1>4, GetSymbolHandleKeeps, AccessByHandleKeeps, ReleaseSymbolHandleKeeps DEF SymbolStep
<1>5. ASSUME NEW c \in Clients, IdStep(c) PROVE SymbolInv'
  BY <1>5, IdStepSymbols
<1>6. ASSUME NEW c \in Clients, ListStep(c) PROVE SymbolInv'
  <2>1. /\ st[c].pc \in ListStages
        /\ \/ \E status, value : Finish(c, status, value)
           \/ \E s : Proceed(c, s) /\ s.pc \in ListStages
    BY <1>6, ListStepClient DEF CommonInv
  <2>2. Call(c).op \notin ByName
    <3>1. Call(c).op = "listECat"
      BY <2>1, StageOps DEF CommonInv, ClientInv, ListStages
    <3> QED
      BY <3>1 DEF ByName
  <2>3. UNCHANGED symbols /\ \A x \in Targets : target'[x].handle = target[x].handle
    BY <1>6, ListStepTarget
  <2> QED
    BY <2>1, <2>2, <2>3, FinishSymbols, ProceedSymbols DEF WithHandle, ListStages
<1>7. ASSUME NEW d \in Targets, Reconfigure(d) PROVE SymbolInv'
  <2>1. \A c \in Clients : \A f \in Fields \ {"seen"} : st'[c][f] = st[c][f]
    BY <1>7, ReconfigureClient DEF CommonInv
  <2>2. \A c \in Clients : \A f \in {"pc", "call", "handle", "status", "data"} : st'[c][f] = st[c][f]
    BY <2>1 DEF Fields
  <2>3. UNCHANGED symbols /\ UNCHANGED ret /\ \A x \in Targets : target'[x].handle = target[x].handle
    BY <1>7, ReconfigureTarget
  <2>4. OwnSymbol'
    BY <2>3 DEF SymbolInv, OwnSymbol
  <2> QED
    BY <2>2, <2>3, <2>4, SymbolsKept DEF CommonInv
<1> QED
  BY <1>1, <1>2, <1>3, <1>4, <1>5, <1>6, <1>7, NextCases DEF CommonInv

LEMMA SymbolsInit == Init => SymbolInv
<1> SUFFICES ASSUME Init PROVE SymbolInv
  OBVIOUS
<1>1. \A c \in Clients : st[c].pc = "idle" /\ held[c] = {} /\ ret[c].op = None
  BY IdleFields DEF Init, Result
<1>2. \A c \in Clients : ~Borrows(c) /\ st[c].pc \notin WithHandle /\ Owned(c) = {}
  BY <1>1 DEF Borrows, WithHandle, Owned
<1>3. \A x \in Targets \X Handles : AtTarget(x) = NoSymbol
  BY DEF Init, AtTarget, Handle
<1>4. OwnSymbol
  BY <1>1 DEF OwnSymbol, ByName, None
<1>5. held \in [Clients -> SUBSET (Targets \X Handles)]
  BY DEF Init
<1> QED
  BY <1>1, <1>2, <1>3, <1>4, <1>5 DEF SymbolInv

(***************************************************************************)
(* A read or write by name that reports success has reached the symbol of  *)
(* that name, whatever other clients acquire and release meanwhile and     *)
(* whichever requests are lost: the handle it borrows is nobody else's     *)
(* until it is released (AdsLiteAPI.cpp:558).                              *)
(***************************************************************************)
THEOREM NamesReachTheirSymbols == Spec => []OwnSymbol
<1>1. SymbolInv => OwnSymbol
  BY DEF SymbolInv
<1> QED
  BY <1>1, SymbolsInit, SymbolsNext, CommonInit, CommonStep, PTL DEF Spec

(***************************************************************************)
(* Every handle open at a target has a client that will release it, or its *)
(* number or release was lost on the way; no two clients were given the    *)
(* same one (AdsLiteAPI.cpp:571).                                          *)
(***************************************************************************)
THEOREM HandlesHaveOwners == Spec => []HandlesReturned
<1>1. SymbolInv => HandlesReturned
  <2> SUFFICES ASSUME SymbolInv PROVE HandlesReturned
    OBVIOUS
  <2>1. \A x \in Targets \X Handles :
           AtTarget(x) # NoSymbol => \/ x \in lost
                                     \/ \E c \in Clients : x \in held[c]
                                     \/ \E c \in Clients : st[c].pc \in WithHandle /\ x = HandleOf(c)
    BY DEF SymbolInv, Owned, Borrows
  <2>2. \A c, d \in Clients : c # d => held[c] \cap held[d] = {}
    BY DEF SymbolInv, Owned
  <2>3. \A x \in Targets \X Handles : Handle(x[1])[x[2]] # NoSymbol =>
           \/ x \in lost
           \/ x \in UNION {held[c] : c \in Clients}
           \/ x \in {<<Addr(c), st[c].handle>> : c \in {y \in Clients : st[y].pc \in {"access", "release"}}}
    BY <2>1 DEF AtTarget, WithHandle, HandleOf
  <2> QED
    BY <2>2, <2>3 DEF HandlesReturned
<1> QED
  BY <1>1, SymbolsInit, SymbolsNext, CommonInit, CommonStep, PTL DEF Spec

-----------------------------------------------------------------------------
(* Lists of masters. *)

\* A sequence of whatever it holds.
IsSeq(m) == m \in Seq({m[i] : i \in DOMAIN m})

LEMMA TableIsSeq ==
  ASSUME NEW t \in DeviceTables
  PROVE  IsSeq(t) /\ Len(t) \in Nat /\ DOMAIN t = 1 .. Len(t)
  BY APIAssumption DEF IsSeq

LEMMA EmptyIsSeq == IsSeq(<<>>) /\ Len(<<>>) = 0
  BY DEF IsSeq

LEMMA FunctionIsSeq ==
  ASSUME NEW n \in Nat, NEW f, DOMAIN f = 1 .. n, f = [i \in 1 .. n |-> f[i]]
  PROVE  IsSeq(f) /\ Len(f) = n
<1> DEFINE S == {f[i] : i \in DOMAIN f}
<1>1. f \in [1 .. n -> S]
  OBVIOUS
<1> HIDE DEF S
<1>2. f \in Seq(S) /\ Len(f) = n
  BY <1>1
<1> QED
  BY <1>2 DEF IsSeq, S

LEMMA AppendIsSeq ==
  ASSUME NEW m, IsSeq(m), NEW e
  PROVE  /\ IsSeq(Append(m, e)) /\ Len(m) \in Nat /\ Len(Append(m, e)) = Len(m) + 1
         /\ Append(m, e)[Len(m) + 1] = e
         /\ \A i \in 1 .. Len(m) : Append(m, e)[i] = m[i]
<1> DEFINE S == {m[i] : i \in DOMAIN m} \cup {e}
<1>1. m \in Seq(S)
  BY DEF IsSeq
<1> HIDE DEF S
<1>2. e \in S
  BY DEF S
<1>3. /\ Append(m, e) \in Seq(S) /\ Len(m) \in Nat /\ Len(Append(m, e)) = Len(m) + 1
      /\ Append(m, e)[Len(m) + 1] = e
      /\ \A i \in 1 .. Len(m) : Append(m, e)[i] = m[i]
  BY <1>1, <1>2
<1>4. Append(m, e) = [i \in 1 .. Len(m) + 1 |-> Append(m, e)[i]]
  BY <1>3, LenProperties
<1> QED
  BY <1>3, <1>4, FunctionIsSeq

\* The ids of what is listed.
IdsOf(m) == [i \in DOMAIN m |-> m[i].id]

\* The first k masters of a list that agrees with table t name the first k of it.
LEMMA FirstNamesAgree ==
  ASSUME NEW m, IsSeq(m), NEW t, IsSeq(t), Len(m) <= Len(t),
         \A i \in 1 .. Len(m) : m[i].id = t[i].id, NEW k \in 0 .. Len(m)
  PROVE  IsPrefix(IdsOf(SubSeq(m, 1, k)), IdsOf(t))
<1>1. Len(m) \in Nat /\ DOMAIN m = 1 .. Len(m) /\ Len(t) \in Nat /\ DOMAIN t = 1 .. Len(t) /\ k \in Nat
  BY DEF IsSeq
<1> DEFINE w == SubSeq(m, 1, k)
           a == IdsOf(w)
           b == IdsOf(t)
<1>2. Len(w) = k /\ DOMAIN w = 1 .. k /\ \A i \in 1 .. k : w[i] = m[i]
  BY <1>1 DEF IsSeq
<1> HIDE DEF w
<1>3. IsSeq(a) /\ Len(a) = k /\ \A i \in 1 .. k : a[i] = m[i].id
  BY <1>1, <1>2, FunctionIsSeq DEF IdsOf
<1>4. IsSeq(b) /\ Len(b) = Len(t) /\ \A i \in 1 .. Len(t) : b[i] = t[i].id
  BY <1>1, FunctionIsSeq DEF IdsOf
<1> HIDE DEF a, b
<1>5. SubSeq(a, 1, k) = SubSeq(b, 1, k)
  <2>1. SubSeq(a, 1, k) = [i \in 1 .. k |-> a[i]]
    BY <1>1, <1>3 DEF IsSeq
  <2>2. SubSeq(b, 1, k) = [i \in 1 .. k |-> b[i]]
    BY <1>1, <1>4 DEF IsSeq
  <2>3. \A i \in 1 .. k : a[i] = b[i]
    BY <1>1, <1>3, <1>4
  <2> QED
    BY <2>1, <2>2, <2>3
<1> QED
  BY <1>1, <1>3, <1>4, <1>5 DEF IsPrefix, a, b, w

LEMMA FirstPart ==
  ASSUME NEW S, NEW w \in Seq(S), NEW j \in Nat, j <= Len(w)
  PROVE  Len(SubSeq(w, 1, j)) = j /\ \A i \in 1 .. j : SubSeq(w, 1, j)[i] = w[i]
  OBVIOUS

\* The answer with the ids: one word more than it has ids, as far as the request asks.
LEMMA SentIds ==
  ASSUME NEW t \in DeviceTables, NEW k \in Nat, NEW words, NEW sent,
         words = <<Len(t)>> \o [i \in DOMAIN t |-> t[i].id],
         sent = SubSeq(words, 1, Min({Len(words), k + 1})), ~(Len(sent) < k + 1)
  PROVE  k <= Len(t) /\ \A i \in 1 .. k : sent[i + 1] = t[i].id
<1>1. Len(t) \in Nat /\ DOMAIN t = 1 .. Len(t)
  BY TableIsSeq
<1> DEFINE b == IdsOf(t)
<1>2. IsSeq(b) /\ Len(b) = Len(t) /\ \A i \in 1 .. Len(t) : b[i] = t[i].id
  BY <1>1, FunctionIsSeq DEF IdsOf
<1>3. words = <<Len(t)>> \o b
  BY DEF IdsOf
<1> HIDE DEF b
<1>4. PICK S : b \in Seq(S) /\ Len(t) \in S
  <2>1. b \in Seq({b[i] : i \in DOMAIN b} \cup {Len(t)})
    BY <1>2 DEF IsSeq
  <2> QED
    BY <2>1
<1>5. /\ words \in Seq(S) /\ Len(words) = Len(t) + 1
      /\ \A i \in 1 .. Len(t) : words[i + 1] = t[i].id
  BY SMTT(20), <1>1, <1>2, <1>3, <1>4
<1>6. Min({Len(words), k + 1}) = IF Len(words) <= k + 1 THEN Len(words) ELSE k + 1
  BY <1>1, <1>5, PairMin
<1> DEFINE j == Min({Len(words), k + 1})
<1>7. j \in Nat /\ j <= Len(words) /\ j <= k + 1
  BY <1>1, <1>5, <1>6
<1> HIDE DEF j
<1>8. sent = SubSeq(words, 1, j)
  BY DEF j
<1>9. Len(sent) = j /\ \A i \in 1 .. j : sent[i] = words[i]
  BY ONLY <1>5, <1>7, <1>8, FirstPart
<1>10. j = k + 1 /\ k <= Len(t)
  <2>1. \A x, y, z \in Nat : x <= y + 1 /\ x <= z + 1 /\ ~(x < z + 1) => x = z + 1 /\ z <= y
    OBVIOUS
  <2>2. k \in Nat /\ ~(j < k + 1) /\ j <= Len(t) + 1
    BY <1>5, <1>7, <1>9
  <2> QED
    BY ONLY <1>1, <1>7, <2>1, <2>2
<1>11. \A i \in 1 .. k : i + 1 \in 1 .. j /\ i \in 1 .. Len(t)
  BY <1>1, <1>10
<1> QED
  BY <1>5, <1>9, <1>10, <1>11

DeviceFields == {"id", "type", "name", "netId"}

\* The ids are those of the first count masters of table t, after a first word.
Names(s, t) == s.count <= Len(t) /\ \A i \in 1 .. s.count : s.ids[i + 1] = t[i].id

\* What a listing knows, at its stage, of the tables it has seen.
ListState(s, table) ==
    /\ table \in s.seen /\ s.seen \subseteq DeviceTables
    /\ IsSeq(s.masters) /\ s.count \in Nat
    /\ s.pc = "count" => s.masters = <<>> /\ s.count = 0
    /\ s.pc # "count" => s.count # 0 /\ \E t \in s.seen : Len(t) = s.count
    /\ s.pc = "ids" => s.masters = <<>>
    /\ s.pc \in {"type", "name", "netId"} =>
          /\ Len(s.masters) < s.count
          /\ \E t \in s.seen : Names(s, t)
          /\ \A i \in 1 .. Len(s.masters) : s.masters[i].id = s.ids[i + 1]
    /\ s.pc \in {"name", "netId"} =>
          DOMAIN s.info = DeviceFields /\ s.info.id = s.ids[Len(s.masters) + 2]

\* What a list that is returned says.
OneList(list) ==
    /\ \E t \in list.seen : Len(t) = list.count
    /\ \E t \in list.seen : IsPrefix(IdsOf(list.masters), IdsOf(t))

ListInv ==
    /\ \A c \in Clients : Call(c).op = "listECat" => ListState(st[c], Devices(c))
    /\ ListsOneConfiguration

LEMMA ListsAre ==
  ListsOneConfiguration <=>
    \A c \in Clients : ret[c].op = "listECat" /\ ret[c].status = "OK" => OneList(ret[c].value)
  BY DEF ListsOneConfiguration, OneList, IdsOf

LEMMA ListsAreNext ==
  ListsOneConfiguration' <=>
    \A c \in Clients : ret'[c].op = "listECat" /\ ret'[c].status = "OK" => OneList(ret'[c].value)
  BY DEF ListsOneConfiguration, OneList, IdsOf

LEMMA OtherList ==
  ASSUME ListsOneConfiguration, NEW c \in Clients, DOMAIN ret = Clients, NEW op, NEW arg, NEW status, NEW value,
         ret' = [ret EXCEPT ![c] = Result(op, arg, status, value)],
         op = "listECat" /\ status = "OK" => OneList(value)
  PROVE  ListsOneConfiguration'
  BY ListsAre, ListsAreNext DEF Result

LEMMA ListingIsOne ==
  ASSUME NEW s, IsSeq(s.masters), s.count \in Nat, Len(s.masters) = s.count, Room(s.call) \in Nat,
         s.seen \subseteq DeviceTables, \E t \in s.seen : Len(t) = s.count,
         \E t \in s.seen : s.count <= Len(t) /\ \A i \in 1 .. s.count : s.masters[i].id = t[i].id
  PROVE  OneList(Listing(s))
<1> DEFINE k == Min({Room(s.call), s.count})
           m == s.masters
<1>1. k \in 0 .. Len(m)
  BY PairMin
<1>2. PICK t \in s.seen : s.count <= Len(t) /\ \A i \in 1 .. s.count : m[i].id = t[i].id
  OBVIOUS
<1>3. IsSeq(t)
  BY <1>2, TableIsSeq
<1>4. /\ Listing(s).count = s.count /\ Listing(s).seen = s.seen
      /\ Listing(s).masters = SubSeq(m, 1, k)
  BY DEF Listing
<1> HIDE DEF k
<1>5. IsPrefix(IdsOf(SubSeq(m, 1, k)), IdsOf(t))
  BY <1>1, <1>2, <1>3, FirstNamesAgree
<1> QED
  BY <1>2, <1>4, <1>5 DEF OneList

\* Steps that concern no listing.
LEMMA ListsKept ==
  ASSUME ListInv, CommonInv, ListsOneConfiguration',
         \A x \in Targets : target'[x].devices = target[x].devices,
         \A x \in Clients : st'[x] = st[x] \/ st'[x].call.op # "listECat"
  PROVE  ListInv'
<1>1. \A x \in Clients : st[x].call.op = "listECat" => st[x].call.addr \in Targets
  BY DEF CommonInv, ClientInv, StagesOf, ByName, ByHandle, Ids, At, Call, Addr
<1>2. \A x \in Clients : st'[x].call.op = "listECat" =>
         ListState(st'[x], target'[st'[x].call.addr].devices)
  BY <1>1 DEF ListInv, Call, Devices, Addr
<1> QED
  BY <1>2 DEF ListInv, Call, Devices, Addr

LEMMA ListFinish ==
  ASSUME ListInv, CommonInv, NEW c \in Clients, NEW status, NEW value, Finish(c, status, value),
         Call(c).op = "listECat" /\ status = "OK" => OneList(value),
         \A x \in Targets : target'[x].devices = target[x].devices
  PROVE  ListInv'
<1>1. ListsOneConfiguration'
  BY OtherList DEF Finish, ListInv, CommonInv, ClientInv
<1>2. \A x \in Clients : st'[x] = st[x] \/ st'[x].call = NoCall
  BY IdleFields DEF Finish, CommonInv, ClientInv
<1> QED
  BY <1>1, <1>2, NoCallIsNoId, ListsKept

LEMMA ListProceed ==
  ASSUME ListInv, CommonInv, NEW c \in Clients, NEW s, Proceed(c, s), s.call = Call(c),
         ListState(s, Devices(c)), UNCHANGED target
  PROVE  ListInv'
<1>1. ListsOneConfiguration'
  BY DEF Proceed, ListInv, ListsOneConfiguration
<1>2. st'[c] = s /\ \A x \in Clients : x # c => st'[x] = st[x]
  BY DEF Proceed, CommonInv, ClientInv
<1>3. \A x \in Clients : st'[x].call.op = "listECat" =>
         ListState(st'[x], target'[st'[x].call.addr].devices)
  BY <1>2 DEF ListInv, Call, Devices, Addr
<1> QED
  BY <1>1, <1>3 DEF ListInv, Call, Devices, Addr

LEMMA RoomIsNatural ==
  ASSUME NEW k, k.length \in Nat
  PROVE  Room(k) \in Nat
  BY DEF Room

\* What holds at the beginning of a step of a listing.
LEMMA ListStepStart ==
  ASSUME ListInv, CommonInv, NEW c \in Clients, ListStep(c)
  PROVE  /\ ListState(st[c], Devices(c)) /\ DOMAIN st[c] = Fields /\ UNCHANGED target
         /\ st[c].pc \in ListStages /\ Room(st[c].call) \in Nat /\ st[c].seen \subseteq DeviceTables
<1>1. st[c].pc \in ListStages /\ DOMAIN st[c] = Fields
  BY ListStepClient DEF CommonInv, ClientInv
<1>2. Call(c).op = "listECat" /\ Call(c).length \in Nat
  BY <1>1, StageOps DEF CommonInv, ClientInv, ListStages, At
<1>3. ListState(st[c], Devices(c))
  BY <1>2 DEF ListInv
<1> QED
  BY <1>1, <1>2, <1>3, ListStepTarget, RoomIsNatural DEF ListState, Call

LEMMA ReadDevCountKeeps ==
  ASSUME ListInv, CommonInv, NEW c \in Clients, ReadDevCount(c)
  PROVE  ListInv'
<1>1. ListStep(c) /\ st[c].pc = "count"
  BY DEF ListStep, ReadDevCount, At
<1>2. /\ ListState(st[c], Devices(c)) /\ DOMAIN st[c] = Fields /\ UNCHANGED target
      /\ Room(st[c].call) \in Nat
  BY <1>1, ListStepStart
<1>3. /\ Devices(c) \in st[c].seen /\ st[c].seen \subseteq DeviceTables
      /\ st[c].masters = <<>> /\ st[c].count = 0
  BY <1>1, <1>2 DEF ListState
<1> DEFINE n == Len(Devices(c))
<1>4. n \in Nat
  BY <1>3, TableIsSeq
<1>5. PICK status, s :
         \/ status # "OK" /\ Finish(c, status, None)
         \/ n = 0 /\ Finish(c, "OK", Listing(st[c]))
         \/ n # 0 /\ s = [st[c] EXCEPT !.pc = "ids", !.count = n] /\ Proceed(c, s)
  BY DEF ReadDevCount
<1>6. CASE status # "OK" /\ Finish(c, status, None)
  BY <1>2, <1>6, ListFinish
<1>7. CASE n = 0 /\ Finish(c, "OK", Listing(st[c]))
  <2>1. OneList(Listing(st[c]))
    <3>1. \A i \in 1 .. 0 : FALSE
      OBVIOUS
    <3>2. st[c].count <= n
      BY <1>3, <1>7
    <3> QED
      BY <1>2, <1>3, <1>7, <3>1, <3>2, ListingIsOne, EmptyIsSeq
  <2> QED
    BY <1>2, <1>7, <2>1, ListFinish
<1>8. CASE n # 0 /\ s = [st[c] EXCEPT !.pc = "ids", !.count = n] /\ Proceed(c, s)
  <2>1. /\ s.pc = "ids" /\ s.count = n /\ s.masters = <<>> /\ s.seen = st[c].seen
        /\ s.call = Call(c)
    BY <1>2, <1>3, <1>8 DEF Fields, Call
  <2>2. ListState(s, Devices(c))
    BY <1>3, <1>4, <1>8, <2>1, EmptyIsSeq DEF ListState
  <2> QED
    BY <1>2, <1>8, <2>1, <2>2, ListProceed
<1> QED
  BY <1>5, <1>6, <1>7, <1>8

LEMMA ReadDevIdsKeeps ==
  ASSUME ListInv, CommonInv, NEW c \in Clients, ReadDevIds(c)
  PROVE  ListInv'
<1>1. ListStep(c) /\ st[c].pc = "ids"
  BY DEF ListStep, ReadDevIds, At
<1>2. ListState(st[c], Devices(c)) /\ DOMAIN st[c] = Fields /\ UNCHANGED target
  BY <1>1, ListStepStart
<1>3. /\ Devices(c) \in st[c].seen /\ st[c].seen \subseteq DeviceTables
      /\ st[c].masters = <<>> /\ st[c].count \in Nat /\ st[c].count # 0
      /\ \E t \in st[c].seen : Len(t) = st[c].count
  BY <1>1, <1>2 DEF ListState
<1> DEFINE words == <<Len(Devices(c))>> \o [i \in DOMAIN Devices(c) |-> Devices(c)[i].id]
           sent == SubSeq(words, 1, Min({Len(words), st[c].count + 1}))
<1>4. PICK status, s :
         \/ status # "OK" /\ Finish(c, status, None)
         \/ ~(Len(sent) < st[c].count + 1) /\ s = [st[c] EXCEPT !.pc = "type", !.ids = sent] /\ Proceed(c, s)
  BY DEF ReadDevIds
<1>5. CASE status # "OK" /\ Finish(c, status, None)
  BY <1>2, <1>5, ListFinish
<1>6. CASE ~(Len(sent) < st[c].count + 1) /\ s = [st[c] EXCEPT !.pc = "type", !.ids = sent] /\ Proceed(c, s)
  <2>1. st[c].count <= Len(Devices(c)) /\ \A i \in 1 .. st[c].count : sent[i + 1] = Devices(c)[i].id
    BY ZenonT(30), <1>3, <1>6, SentIds
  <2> HIDE DEF sent
  <2>2. /\ s.pc = "type" /\ s.ids = sent /\ s.count = st[c].count /\ s.masters = <<>>
        /\ s.seen = st[c].seen /\ s.call = Call(c)
    BY <1>2, <1>3, <1>6 DEF Fields, Call
  <2>3. Names(s, Devices(c))
    BY <2>1, <2>2 DEF Names
  <2>4. 0 < s.count /\ \A i \in 1 .. 0 : FALSE
    BY <1>3, <2>2
  <2>5. ListState(s, Devices(c))
    BY <1>3, <2>2, <2>3, <2>4, EmptyIsSeq DEF ListState
  <2> QED
    BY <1>2, <1>6, <2>2, <2>5, ListProceed
<1> QED
  BY <1>4, <1>5, <1>6

LEMMA ReadDevTypeKeeps ==
  ASSUME ListInv, CommonInv, NEW c \in Clients, ReadDevType(c)
  PROVE  ListInv'
<1>1. ListStep(c) /\ st[c].pc = "type"
  BY DEF ListStep, ReadDevType, At
<1>2. ListState(st[c], Devices(c)) /\ DOMAIN st[c] = Fields /\ UNCHANGED target
  BY <1>1, ListStepStart
<1>3. PICK status, v, s :
         \/ status # "OK" /\ Finish(c, status, None)
         \/ /\ s = [st[c] EXCEPT !.pc = "name", !.info = [Device(deviceId(st[c])) EXCEPT !.type = v]]
            /\ Proceed(c, s)
  BY DEF ReadDevType
<1>4. CASE status # "OK" /\ Finish(c, status, None)
  BY <1>2, <1>4, ListFinish
<1>5. CASE /\ s = [st[c] EXCEPT !.pc = "name", !.info = [Device(deviceId(st[c])) EXCEPT !.type = v]]
           /\ Proceed(c, s)
  <2> DEFINE info == [Device(deviceId(st[c])) EXCEPT !.type = v]
  <2>1. DOMAIN info = DeviceFields /\ info.id = st[c].ids[Len(st[c].masters) + 2]
    BY DEF Device, DeviceFields, deviceId
  <2> HIDE DEF info
  <2>2. /\ s.pc = "name" /\ s.info = info /\ s.call = Call(c) /\ s.ids = st[c].ids
        /\ s.count = st[c].count /\ s.masters = st[c].masters /\ s.seen = st[c].seen
    BY <1>2, <1>5 DEF Fields, Call, info
  <2>3. ListState(s, Devices(c))
    BY <1>1, <1>2, <2>1, <2>2 DEF ListState, Names
  <2> QED
    BY <1>2, <1>5, <2>2, <2>3, ListProceed
<1> QED
  BY <1>3, <1>4, <1>5

LEMMA ReadDevNameKeeps ==
  ASSUME ListInv, CommonInv, NEW c \in Clients, ReadDevName(c)
  PROVE  ListInv'
<1>1. ListStep(c) /\ st[c].pc = "name"
  BY DEF ListStep, ReadDevName, At
<1>2. ListState(st[c], Devices(c)) /\ DOMAIN st[c] = Fields /\ UNCHANGED target
  BY <1>1, ListStepStart
<1>3. PICK status, v, s :
         \/ status # "OK" /\ Finish(c, status, None)
         \/ s = [st[c] EXCEPT !.pc = "netId", !.info.name = v] /\ Proceed(c, s)
  BY DEF ReadDevName
<1>4. CASE status # "OK" /\ Finish(c, status, None)
  BY <1>2, <1>4, ListFinish
<1>5. CASE s = [st[c] EXCEPT !.pc = "netId", !.info.name = v] /\ Proceed(c, s)
  <2> DEFINE info == [st[c].info EXCEPT !.name = v]
  <2>1. DOMAIN info = DeviceFields /\ info.id = st[c].ids[Len(st[c].masters) + 2]
    BY <1>1, <1>2 DEF ListState, DeviceFields
  <2> HIDE DEF info
  <2>2. /\ s.pc = "netId" /\ s.info = info /\ s.call = Call(c) /\ s.ids = st[c].ids
        /\ s.count = st[c].count /\ s.masters = st[c].masters /\ s.seen = st[c].seen
    BY <1>2, <1>5 DEF Fields, Call, info
  <2>3. ListState(s, Devices(c))
    BY <1>1, <1>2, <2>1, <2>2 DEF ListState, Names
  <2> QED
    BY <1>2, <1>5, <2>2, <2>3, ListProceed
<1> QED
  BY <1>3, <1>4, <1>5

LEMMA ReadDevNetIdKeeps ==
  ASSUME ListInv, CommonInv, NEW c \in Clients, ReadDevNetId(c)
  PROVE  ListInv'
<1>1. ListStep(c) /\ st[c].pc = "netId"
  BY DEF ListStep, ReadDevNetId, At
<1>2. /\ ListState(st[c], Devices(c)) /\ DOMAIN st[c] = Fields /\ UNCHANGED target
      /\ Room(st[c].call) \in Nat /\ st[c].seen \subseteq DeviceTables
  BY <1>1, ListStepStart
<1>3. PICK status, v, s :
         \/ status # "OK" /\ Finish(c, status, None)
         \/ /\ s = [st[c] EXCEPT !.pc = "type",
                          !.masters = Append(@, [st[c].info EXCEPT !.netId = v])]
            /\ \/ Len(s.masters) = s.count /\ Finish(c, "OK", Listing(s))
               \/ Len(s.masters) # s.count /\ Proceed(c, s)
  BY DEF ReadDevNetId
<1>4. CASE status # "OK" /\ Finish(c, status, None)
  BY <1>2, <1>4, ListFinish
<1>5. ASSUME s = [st[c] EXCEPT !.pc = "type", !.masters = Append(@, [st[c].info EXCEPT !.netId = v])],
             \/ Len(s.masters) = s.count /\ Finish(c, "OK", Listing(s))
             \/ Len(s.masters) # s.count /\ Proceed(c, s)
      PROVE  ListInv'
  <2> DEFINE e == [st[c].info EXCEPT !.netId = v]
             m == st[c].masters
  <2>1. /\ IsSeq(m) /\ st[c].count \in Nat /\ Len(m) < st[c].count /\ Devices(c) \in st[c].seen
        /\ st[c].count # 0 /\ \E t \in st[c].seen : Len(t) = st[c].count
        /\ \A i \in 1 .. Len(m) : m[i].id = st[c].ids[i + 1]
        /\ DOMAIN st[c].info = DeviceFields /\ st[c].info.id = st[c].ids[Len(m) + 2]
    BY <1>1, <1>2 DEF ListState
  <2>2. e.id = st[c].ids[Len(m) + 2]
    BY <2>1 DEF DeviceFields
  <2>3. PICK t \in st[c].seen : Names(st[c], t)
    BY <1>1, <1>2 DEF ListState
  <2> HIDE DEF e
  <2>4. /\ s.pc = "type" /\ s.masters = Append(m, e) /\ s.ids = st[c].ids /\ s.call = Call(c)
        /\ s.count = st[c].count /\ s.seen = st[c].seen
    BY <1>2, <1>5 DEF Fields, Call, e
  <2> HIDE DEF m
  <2>5. PICK n \in Nat : n = Len(m)
    BY <2>1, AppendIsSeq
  <2>6. /\ IsSeq(s.masters) /\ Len(s.masters) = n + 1 /\ n < s.count
        /\ s.masters[n + 1] = e /\ \A i \in 1 .. n : s.masters[i] = m[i]
    BY <2>1, <2>4, <2>5, AppendIsSeq
  <2>7. \A i \in 1 .. n + 1 : s.masters[i].id = s.ids[i + 1]
    <3> SUFFICES ASSUME NEW i \in 1 .. n + 1 PROVE s.masters[i].id = s.ids[i + 1]
      OBVIOUS
    <3>1. CASE i \in 1 .. n
      BY <2>1, <2>4, <2>5, <2>6, <3>1
    <3>2. CASE i = n + 1
      <4>1. i + 1 = n + 2
        BY <3>2
      <4> QED
        BY <2>2, <2>4, <2>5, <2>6, <3>2, <4>1
    <3> QED
      BY <3>1, <3>2
  <2>8. Names(s, t)
    BY <2>3, <2>4 DEF Names
  <2>9. CASE Len(s.masters) = s.count /\ Finish(c, "OK", Listing(s))
    <3>1. s.count <= Len(t) /\ \A i \in 1 .. s.count : s.masters[i].id = t[i].id
      BY <2>6, <2>7, <2>8, <2>9 DEF Names
    <3>2. Room(s.call) \in Nat
      BY <1>2, <2>4 DEF Call
    <3>3. OneList(Listing(s))
      BY <1>2, <2>1, <2>3, <2>4, <2>6, <2>9, <3>1, <3>2, ListingIsOne
    <3> QED
      BY <1>2, <2>9, <3>3, ListFinish
  <2>10. CASE Len(s.masters) # s.count /\ Proceed(c, s)
    <3>1. Len(s.masters) < s.count
      BY <2>1, <2>4, <2>6, <2>10
    <3>2. ListState(s, Devices(c))
      BY <1>2, <2>1, <2>3, <2>4, <2>6, <2>7, <2>8, <3>1 DEF ListState
    <3> QED
      BY <1>2, <2>4, <2>10, <3>2, ListProceed
  <2> QED
    BY <1>5, <2>9, <2>10
<1> QED
  BY <1>3, <1>4, <1>5

\* A listing begins with the table that its target has.
LEMMA BeginLists ==
  ASSUME ListInv, CommonInv, NEW c \in Clients, NEW k, Begins(c, k)
  PROVE  ListInv'
<1>1. DOMAIN ret = Clients /\ DOMAIN st = Clients /\ UNCHANGED target
  BY DEF Begins, Start, apiVars, CommonInv, ClientInv
<1>2. ListsOneConfiguration'
  <2>1. CASE Port(c, k)
    <3>1. PICK op \in {"PortOpen", "PortClose", "SyncSetTimeout", "SyncGetTimeout", "GetLocalAddress",
                       "SetLocalAddress"} :
             \E status, value : Returns(c, op, status, value)
      BY <2>1 DEF Port, AdsLitePortOpen, AdsLitePortClose, AdsLiteSyncSetTimeout,
                  AdsLiteSyncGetTimeout, AdsLiteGetLocalAddress, AdsLiteSetLocalAddress
    <3>2. PICK status, value : ret' = [ret EXCEPT ![c] = Result(op, "", status, value)]
      BY <3>1 DEF Returns
    <3> QED
      BY <1>1, <3>1, <3>2, OtherList DEF ListInv
  <2>2. CASE Start(c, k)
    <3>1. \/ (Guard(k) # "OK" \/ k.op = "asyncWait") /\ ret' = [ret EXCEPT ![c] = Result(k.op, k.arg, Guard(k), None)]
          \/ ret' = [ret EXCEPT ![c] = Result(None, None, "OK", None)]
      BY <2>2 DEF Start
    <3> QED
      BY <1>1, <3>1, OtherList DEF ListInv, None
  <2> QED
    BY <2>1, <2>2 DEF Begins
<1>3. CASE UNCHANGED st
  BY <1>1, <1>2, <1>3, ListsKept
<1>4. CASE ~UNCHANGED st
  <2>1. Start(c, k)
    BY <1>4 DEF Begins, apiVars
  <2>2. PICK p, h, s :
           /\ s = [Idle(k) EXCEPT
                      !.pc = FirstStage(k), !.port = p, !.handle = h,
                      !.data = IF k.op = "platformId" THEN targetPlatformId ELSE targetSystemId,
                      !.seen = IF k.op = "listECat" THEN {target[k.addr].devices} ELSE {}]
           /\ st' = [st EXCEPT ![c] = s]
    BY ZenonT(30), <1>4, <2>1 DEF Start
  <2>3. st'[c] = s /\ \A x \in Clients : x # c => st'[x] = st[x]
    BY <1>1, <2>2
  <2>4. s.call = k /\ s.pc = FirstStage(k) /\ s.count = 0 /\ s.masters = <<>>
    BY <2>2, IdleFields DEF Fields, Idle
  <2>5. CASE k.op # "listECat"
    BY <1>1, <1>2, <2>3, <2>4, <2>5, ListsKept
  <2>6. CASE k.op = "listECat"
    <3>1. k.addr \in Targets
      BY <2>1 DEF Begins, Start
    <3>2. s.seen = {target[k.addr].devices}
      BY <2>2, <2>6, IdleFields DEF Fields
    <3>3. target[k.addr].devices \in DeviceTables
      BY <3>1 DEF CommonInv, TargetInv, TargetTypes
    <3>4. FirstStage(k) = "count"
      <4>1. k.op \notin ByName \cup {"getHandle"} /\ k.op \notin ByHandle /\ k.op \notin Ids
        BY <2>6 DEF ByName, ByHandle, Ids
      <4> QED
        BY <2>6, <4>1, Zenon DEF FirstStage
    <3>5. ListState(s, target[k.addr].devices)
      BY <2>4, <3>2, <3>3, <3>4, EmptyIsSeq DEF ListState
    <3>6. \A x \in Clients : st'[x].call.op = "listECat" =>
             ListState(st'[x], target'[st'[x].call.addr].devices)
      BY <1>1, <2>3, <2>4, <3>5 DEF ListInv, Call, Devices, Addr
    <3> QED
      BY <1>2, <3>6 DEF ListInv, Call, Devices, Addr
  <2> QED
    BY <2>5, <2>6
<1> QED
  BY <1>3, <1>4

\* A change of a table is seen by the listings of that target.
LEMMA ReconfigureLists ==
  ASSUME ListInv, CommonInv, NEW d \in Targets, Reconfigure(d)
  PROVE  ListInv'
<1>1. PICK t \in DeviceTables :
         /\ target' = [target EXCEPT ![d].devices = t]
         /\ st' = [c \in Clients |-> IF Call(c).op = "listECat" /\ Addr(c) = d
                                     THEN [st[c] EXCEPT !.seen = @ \cup {t}] ELSE st[c]]
  BY DEF Reconfigure
<1>2. ListsOneConfiguration'
  BY ZenonT(30) DEF Reconfigure, ListInv, ListsOneConfiguration
<1>3. \A x \in Targets : target'[x].devices = IF x = d THEN t ELSE target[x].devices
  BY <1>1 DEF CommonInv, TargetInv, TargetTypes
<1>4. ASSUME NEW c \in Clients, st'[c].call.op = "listECat"
      PROVE  ListState(st'[c], target'[st'[c].call.addr].devices)
  <2>1. DOMAIN st[c] = Fields
    BY DEF CommonInv, ClientInv
  <2>2. st'[c].call = st[c].call
    BY <1>1, <2>1 DEF Fields
  <2>3. Call(c).op = "listECat" /\ Addr(c) \in Targets
    BY <1>4, <2>2 DEF CommonInv, ClientInv, StagesOf, ByName, ByHandle, Ids, At, Call, Addr
  <2>4. ListState(st[c], Devices(c))
    BY <2>3 DEF ListInv
  <2>5. CASE Addr(c) = d
    <3>1. st'[c] = [st[c] EXCEPT !.seen = @ \cup {t}]
      BY <1>1, <2>3, <2>5
    <3> DEFINE s == st'[c]
    <3>2. /\ s.pc = st[c].pc /\ s.ids = st[c].ids /\ s.count = st[c].count /\ s.masters = st[c].masters
          /\ s.info = st[c].info /\ s.seen = st[c].seen \cup {t}
      BY <2>1, <3>1 DEF Fields
    <3> HIDE DEF s
    <3>3. ListState(s, t)
      BY <2>4, <3>2 DEF ListState, Names
    <3> QED
      BY <1>3, <2>2, <2>3, <2>5, <3>3 DEF Addr, Call, s
  <2>6. CASE Addr(c) # d
    BY <1>1, <1>3, <2>2, <2>3, <2>4, <2>6 DEF Devices, Addr, Call
  <2> QED
    BY <2>5, <2>6
<1> QED
  BY <1>2, <1>4 DEF ListInv, Call, Devices, Addr

LEMMA ListsNext == CommonInv /\ ListInv /\ [Next]_vars => ListInv'
<1> SUFFICES ASSUME CommonInv, ListInv, [Next]_vars PROVE ListInv'
  OBVIOUS
<1>1. CASE UNCHANGED vars
  BY <1>1 DEF vars, apiVars, ListInv, ListsOneConfiguration, Call, Devices, Addr
<1>2. ASSUME NEW c \in Clients, NEW k, Begins(c, k) PROVE ListInv'
  BY <1>2, BeginLists
<1>3. ASSUME NEW c \in Clients, Simple(c) PROVE ListInv'
  <2>1. /\ \E status, value : Finish(c, status, value)
        /\ TargetKept
        /\ st[c].pc \in {"initRouting", "deleteRoute", "read", "write", "readWrite", "readState",
                         "writeControl", "startProcess"}
    BY <1>3, SimpleStep
  <2>2. Call(c).op # "listECat"
    BY <2>1, StageOps DEF CommonInv, ClientInv
  <2> QED
    BY <2>1, <2>2, ListFinish DEF TargetKept
<1>4. ASSUME NEW c \in Clients, SymbolStep(c) PROVE ListInv'
  <2>1. st[c].pc \in {"handle", "access", "release"} /\ Addr(c) \in Targets
    <3>1. st[c].pc \in {"handle", "access", "release"}
      BY <1>4 DEF SymbolStep, GetSymbolHandle, AccessByHandle, ReleaseSymbolHandle, At
    <3> QED
      BY <3>1 DEF CommonInv, ClientInv, At
  <2>2. Call(c).op # "listECat"
    BY <2>1, StageOps DEF CommonInv, ClientInv, ByName, ByHandle
  <2>3. \A x \in Targets : target'[x].devices = target[x].devices
    <3>1. CASE GetSymbolHandle(c)
      <4>1. \/ target' = target
            \/ \E h, y : target' = [target EXCEPT ![Addr(c)].handle[h] = y]
        BY ZenonT(30), <3>1, GetSymbolHandleStep DEF Gives
      <4> QED
        BY <2>1, <4>1 DEF CommonInv, TargetInv, TargetTypes
    <3>2. CASE AccessByHandle(c)
      <4>1. target' = target \/ \E cell : target' = Written(Addr(c), cell)
        BY <3>2, AccessByHandleStep
      <4> QED
        BY <2>1, <4>1, WrittenTarget DEF CommonInv
    <3>3. CASE ReleaseSymbolHandle(c)
      <4>1. \/ target' = target
            \/ \E h, y : target' = [target EXCEPT ![Addr(c)].handle[h] = y]
        BY <3>3, ReleaseSymbolHandleStep
      <4> QED
        BY <2>1, <4>1 DEF CommonInv, TargetInv, TargetTypes
    <3> QED
      BY <1>4, <3>1, <3>2, <3>3 DEF SymbolStep
  <2>4. \A x \in Clients : st'[x] = st[x] \/ st'[x].call.op # "listECat"
    <3>1. \A x \in Clients : x # c => st'[x] = st[x]
      BY <1>4 DEF SymbolStep, GetSymbolHandle, AccessByHandle, ReleaseSymbolHandle, Advance, Proceed,
                  Finish, CommonInv, ClientInv
    <3>2. st'[c].call.op # "listECat"
      BY <1>4, <2>2, SymbolStepCall, NoCallIsNoId DEF CallKept, Call
    <3> QED
      BY <3>1, <3>2
  <2>5. ListsOneConfiguration'
    <3>1. \/ UNCHANGED ret
          \/ \E status, value : ret' = [ret EXCEPT ![c] = Result(Call(c).op, Call(c).arg, status, value)]
      BY <1>4 DEF SymbolStep, GetSymbolHandle, AccessByHandle, ReleaseSymbolHandle, Advance, Proceed, Finish
    <3>2. CASE UNCHANGED ret
      BY <3>2 DEF ListInv, ListsOneConfiguration
    <3>3. CASE \E status, value : ret' = [ret EXCEPT ![c] = Result(Call(c).op, Call(c).arg, status, value)]
      BY <2>2, <3>3, OtherList DEF ListInv, CommonInv, ClientInv
    <3> QED
      BY <3>1, <3>2, <3>3
  <2> QED
    BY <2>3, <2>4, <2>5, ListsKept
<1>5. ASSUME NEW c \in Clients, IdStep(c) PROVE ListInv'
  <2>1. /\ st[c].pc \in {"shutdownRouting", "deviceInfo", "copy"} /\ UNCHANGED target
        /\ st[c].pc \in StagesOf(Call(c).op)
    BY <1>5, IdStepTarget DEF IdStep, ShutdownRouting, ReadDeviceInfo, CopyId, At, CommonInv, ClientInv
  <2>2. Call(c).op # "listECat"
    BY <2>1, StageOps DEF Ids
  <2>3. \A x \in Clients : st'[x] = st[x] \/ st'[x].call.op # "listECat"
    <3>1. \A x \in Clients : x # c => st'[x] = st[x]
      BY <1>5 DEF IdStep, ShutdownRouting, ReadDeviceInfo, CopyId, Proceed, Finish, CommonInv, ClientInv
    <3>2. st'[c].call.op # "listECat"
      BY <1>5, <2>2, IdStepCall, NoCallIsNoId DEF CallKept, Call
    <3> QED
      BY <3>1, <3>2
  <2>4. ListsOneConfiguration'
    <3>1. \/ UNCHANGED ret
          \/ \E status, value : ret' = [ret EXCEPT ![c] = Result(Call(c).op, Call(c).arg, status, value)]
      BY <1>5 DEF IdStep, ShutdownRouting, ReadDeviceInfo, CopyId, Proceed, Finish
    <3>2. CASE UNCHANGED ret
      BY <3>2 DEF ListInv, ListsOneConfiguration
    <3>3. CASE \E status, value : ret' = [ret EXCEPT ![c] = Result(Call(c).op, Call(c).arg, status, value)]
      BY <2>2, <3>3, OtherList DEF ListInv, CommonInv, ClientInv
    <3> QED
      BY <3>1, <3>2, <3>3
  <2> QED
    BY <2>1, <2>3, <2>4, ListsKept
<1>6. ASSUME NEW c \in Clients, ListStep(c) PROVE ListInv'
  BY <1>6, ReadDevCountKeeps, ReadDevIdsKeeps, ReadDevTypeKeeps, ReadDevNameKeeps, ReadDevNetIdKeeps
     DEF ListStep
<1>7. ASSUME NEW d \in Targets, Reconfigure(d) PROVE ListInv'
  BY <1>7, ReconfigureLists
<1> QED
  BY <1>1, <1>2, <1>3, <1>4, <1>5, <1>6, <1>7, NextCases DEF CommonInv

(***************************************************************************)
(* A list of masters that is returned names the devices of one table that  *)
(* the target had during the call, in its order, and its count is that of  *)
(* one, however often the table changes between the requests               *)
(* (AdsECatService.cpp:91).                                                *)
(***************************************************************************)
THEOREM ListsAreOfOneTable == Spec => []ListsOneConfiguration
<1>1. Init => ListInv
  <2> SUFFICES ASSUME Init PROVE ListInv
    OBVIOUS
  <2>1. \A c \in Clients : Call(c) = NoCall /\ ret[c].op = None
    BY IdleFields DEF Init, Call, Result
  <2> QED
    BY <2>1, NoCallIsNoId DEF ListInv, ListsOneConfiguration, None
<1>2. ListInv => ListsOneConfiguration
  BY DEF ListInv
<1> QED
  BY <1>1, <1>2, ListsNext, CommonInit, CommonStep, PTL DEF Spec
=============================================================================
