------------------------------ MODULE AdsPorts ------------------------------
(***************************************************************************)
(* The choice of the backend (backend/BackendSelector.cpp) and the local   *)
(* ADS ports (standalone/AmsPort.cpp, the first part of AmsRouter.cpp, the *)
(* port functions of AdsLiteLib.cpp, StandaloneBackend and TwinCATBackend).*)
(*                                                                         *)
(* Ports are numbered from 1 here, from PORT_BASE in the code; 0 is what   *)
(* OpenPort returns when there is none left.  Every function of AmsRouter  *)
(* on the port table is one action: it holds the router's mutex.  Close    *)
(* has no notification to erase: AdsLiteAddNotification registers none.    *)
(***************************************************************************)
EXTENDS Integers, FiniteSets, FiniteSetsExt

CONSTANTS
    Clients,         \* the threads that call the library
    NUM_PORTS_MAX,
    DEFAULT_TIMEOUT,
    MaxLong,         \* 0x7fffffff
    Environments     \* what State() may find: [windows, built, mode, listener]

VARIABLES
    backend,     \* BackendState::selected, by its name
    open, tmms,  \* of each port
    localAddr,
    calls,       \* the number of calls of each client
    mine,        \* the ports it has opened and not closed
    wanted,      \* history: the timeout each port's opener has set
    ret          \* its last call's name, argument, status, and what it read

portVars == <<backend, open, tmms, localAddr, mine, wanted>>

PortNumbers == 1 .. NUM_PORTS_MAX

ASSUME PortAssumption ==
    /\ NUM_PORTS_MAX \in Nat
    /\ MaxLong \in Nat /\ DEFAULT_TIMEOUT \in 0 .. MaxLong

-----------------------------------------------------------------------------
\* IsTwinCATEnvironmentDetected and TwinCATBackend's constructor.
Detected(env) == env.listener = "tcatsyssrv.exe"
Available(env) == env.windows /\ env.built

\* State(): an unknown ADSLITE_BACKEND counts as auto.
Selected(env) ==
    IF env.windows /\ env.mode # "standalone" /\ Detected(env) /\ Available(env)
    THEN "twincat" ELSE "standalone"

Standalone == backend = "standalone"

PortInit ==
    /\ backend \in {Selected(env) : env \in Environments}
    /\ open = [i \in PortNumbers |-> FALSE]
    /\ tmms = [i \in PortNumbers |-> DEFAULT_TIMEOUT]
    /\ localAddr = "0.0.0.0.0.0"
    /\ mine = [c \in Clients |-> {}]
    /\ wanted = [i \in PortNumbers |-> DEFAULT_TIMEOUT]

\* A call of c that returns at once.
Result(op, arg, status, value) == [op |-> op, arg |-> arg, status |-> status, value |-> value]
Returns(c, op, status, value) ==
    /\ ret' = [ret EXCEPT ![c] = Result(op, "", status, value)]
    /\ calls' = [calls EXCEPT ![c] = @ + 1]

-----------------------------------------------------------------------------
\* The ports OpenPort may take: the first that is not open, or none.
OpenPort == IF \A i \in PortNumbers : open[i] THEN {0} ELSE {Min({i \in PortNumbers : ~open[i]})}

\* AdsPortOpenEx of TcAdsDll, with the range check of TwinCATBackend::PortOpen.
DllOpenPort == {0} \cup {i \in PortNumbers : ~open[i]}

AdsLitePortOpen(c) ==
    /\ \E i \in IF Standalone THEN OpenPort ELSE DllOpenPort :
          /\ open' = [p \in PortNumbers |-> open[p] \/ p = i]
          /\ mine' = [mine EXCEPT ![c] = @ \cup ({i} \ {0})]
          /\ wanted' = [p \in PortNumbers |-> IF p = i THEN DEFAULT_TIMEOUT ELSE wanted[p]]
          /\ Returns(c, "PortOpen", "OK", i)
    /\ UNCHANGED <<backend, tmms, localAddr>>

\* AmsPort::Close; ClosePort does not ask whether the port is open.
\* A mutation: the timeout stays as it is.
KeepsTimeout(p) == open' = [open EXCEPT ![p] = FALSE] /\ UNCHANGED tmms
Close(p) ==
    /\ open' = [open EXCEPT ![p] = FALSE]
    /\ tmms' = [tmms EXCEPT ![p] = DEFAULT_TIMEOUT]

AdsLitePortClose(c) ==
    /\ \E p \in mine[c] :
          /\ Close(p)
          /\ mine' = [mine EXCEPT ![c] = @ \ {p}]
          /\ Returns(c, "PortClose", "OK", p)
    /\ UNCHANGED <<backend, localAddr, wanted>>

-----------------------------------------------------------------------------
\* What a timeout becomes on its way to a port: an unsigned number in AmsPort, a long in TcAdsDll.
ClampTimeout(timeout) == IF timeout > MaxLong THEN MaxLong ELSE timeout
Stored(timeout) == IF Standalone THEN timeout ELSE ClampTimeout(timeout)

AdsLiteSyncSetTimeout(c, timeout) ==
    /\ \E p \in mine[c] :
          /\ tmms' = [tmms EXCEPT ![p] = Stored(timeout)]
          /\ wanted' = [wanted EXCEPT ![p] = timeout]
          /\ Returns(c, "SyncSetTimeout", "OK", timeout)
    /\ UNCHANGED <<backend, open, localAddr, mine>>

\* GetTimeout does not ask whether the port is open; TcAdsDll does.
TimeoutStatus(p, null) ==
    IF Standalone /\ p = 0 THEN "PORTNOTOPEN"
    ELSE IF null THEN "INVALIDPARM"
    ELSE IF Standalone \/ (p # 0 /\ open[p]) THEN "OK" ELSE "PORTNOTOPEN"

AdsLiteSyncGetTimeout(c, null) ==
    /\ \E p \in PortNumbers \cup {0} :
          Returns(c, "SyncGetTimeout", TimeoutStatus(p, null),
                  IF TimeoutStatus(p, null) = "OK" THEN tmms[p] ELSE 0)
    /\ UNCHANGED portVars

\* AmsRouter::GetLocalAddress, which every request asks as well.
LocalAddressStatus(p) == IF p \in PortNumbers /\ open[p] THEN "OK" ELSE "PORTNOTOPEN"

AdsLiteGetLocalAddress(c, null) ==
    /\ \E p \in PortNumbers \cup {0} :
          Returns(c, "GetLocalAddress",
                  IF Standalone /\ p = 0 THEN "PORTNOTOPEN"
                  ELSE IF null THEN "NOAMSADDR" ELSE LocalAddressStatus(p),
                  localAddr)
    /\ UNCHANGED portVars

\* No-op in TwinCATBackend.
AdsLiteSetLocalAddress(c, netId) ==
    /\ localAddr' = IF Standalone THEN netId ELSE localAddr
    /\ Returns(c, "SetLocalAddress", "OK", netId)
    /\ UNCHANGED <<backend, open, tmms, mine, wanted>>

-----------------------------------------------------------------------------
(***************************************************************************)
(* A port serves the client that opened it and nobody else, and waits as   *)
(* long as that client has asked for since: neither what the port's last   *)
(* owner had set nor what another client sets reaches it, ports being      *)
(* handed out again after Close (AmsRouter.cpp:14, AmsPort.cpp:23).        *)
(* Clients name only ports of their own: SetTimeout on a closed port would *)
(* be kept for the next owner.                                             *)
(***************************************************************************)
OwnTimeout ==
    \A c \in Clients : \A p \in mine[c] :
        /\ open[p]
        /\ tmms[p] = Stored(wanted[p])
        /\ \A d \in Clients \ {c} : p \notin mine[d]
=============================================================================
