----------------------------- MODULE AmsRouter -----------------------------
(***************************************************************************)
(* The AmsRouter (standalone/AmsRouter.cpp): application threads add and   *)
(* delete routes from AMS NetIds to hosts and send requests along them.    *)
(* The router owns the connections, shares one between the NetIds of a     *)
(* host, and replaces a connection a request could not be sent on.         *)
(*                                                                         *)
(* What runs under the router's mutex is one action; DNS, connecting, the  *)
(* request itself and the destruction of a connection run without it.      *)
(* AmsConnection::AdsRequest is abstracted to its status: -1, or another.  *)
(***************************************************************************)
EXTENDS Integers, FiniteSets

CONSTANTS
    Threads,    \* application threads inside the library
    NetIds,     \* AMS NetIds routes are added for
    Hosts,      \* hosts, each with an address of its own
    NoHost,
    MaxConns,   \* bound: connections ever made
    MaxCalls,   \* bound: calls per thread
    RefSpace    \* values of AmsConnection::refCount: 2^64 in the code

ASSUME RouterAssumption ==
    /\ NoHost \notin Hosts
    /\ MaxConns \in Nat
    /\ MaxCalls \in Nat
    /\ RefSpace \in Nat \ {0, 1}

VARIABLES
    \* the router
    mapping,      \* the connection each NetId is routed to
    routeHosts,   \* the host it was added with
    attempts,     \* connection_attempts
    connections,  \* the connections the router owns
    \* the connections; they are numbered in the order they are made, which is
    \* the order of the vector "connections" too
    made,         \* number of connections made
    hostOf,       \* the host each is connected to
    refCount,     \* AmsConnection::refCount
    alive,        \* constructed and not destroyed
    broken,       \* no longer able to send
    \* the application threads
    pc,           \* where thread t is in the router
    ams,          \* the NetId of its call
    target,       \* the host it adds a route to
    conn,         \* the connection it sends its request on
    mayRetry,     \* AmsRequest::allowReconnectRetry
    retrying,     \* it is in AdsRequest, reconnecting
    doomed,       \* deadConn: the connection it has to destroy
    calls,        \* number of calls it has made
    result        \* what its last call returned

routeVars == <<mapping, routeHosts, attempts, connections>>
connVars == <<made, hostOf, refCount, alive, broken>>
callVars == <<ams, target, conn, mayRetry, retrying, doomed, calls>>
vars == <<routeVars, connVars, pc, callVars, result>>

Conns == 1 .. MaxConns
NoConn == 0

Init ==
    /\ mapping = [n \in NetIds |-> NoConn]
    /\ routeHosts = [n \in NetIds |-> NoHost]
    /\ attempts = {}
    /\ connections = {}
    /\ made = 0
    /\ hostOf = [c \in Conns |-> NoHost]
    /\ refCount = [c \in Conns |-> 0]
    /\ alive = {}
    /\ broken = {}
    /\ pc = [t \in Threads |-> "idle"]
    /\ ams \in [Threads -> NetIds]
    /\ target = [t \in Threads |-> NoHost]
    /\ conn = [t \in Threads |-> NoConn]
    /\ mayRetry = [t \in Threads |-> FALSE]
    /\ retrying = [t \in Threads |-> FALSE]
    /\ doomed = [t \in Threads |-> NoConn]
    /\ calls = [t \in Threads |-> 0]
    /\ result = [t \in Threads |-> "none"]

-----------------------------------------------------------------------------
Goto(t, label) == pc' = [pc EXCEPT ![t] = label] /\ UNCHANGED result

Return(t, r) ==
    /\ pc' = [pc EXCEPT ![t] = "idle"]
    /\ result' = [result EXCEPT ![t] = r]

\* A thread calls the library about NetId n.
Call(t, n) ==
    /\ pc[t] = "idle"
    /\ calls[t] < MaxCalls
    /\ calls' = [calls EXCEPT ![t] = @ + 1]
    /\ ams' = [ams EXCEPT ![t] = n]
    /\ retrying' = [retrying EXCEPT ![t] = FALSE]

-----------------------------------------------------------------------------
(* AddRoute, for AddLocalRoute or for the reconnect of AdsRequest. *)

AddRoute(t, n, h) ==
    /\ Call(t, n)
    /\ target' = [target EXCEPT ![t] = h]
    /\ Goto(t, "resolve")
    /\ UNCHANGED <<routeVars, connVars, conn, mayRetry, doomed>>

\* GetListOfAddresses comes first, without the mutex.
Resolves(t) ==
    /\ pc[t] = "resolve"
    /\ Goto(t, "add_route")
    /\ UNCHANGED <<routeVars, connVars, callVars>>

\* It throws; AddLocalRoute catches it, the requests do not.
ResolveFails(t) ==
    /\ pc[t] = "resolve"
    /\ Return(t, IF retrying[t] THEN "exception" ELSE "TARGET_PORT")
    /\ UNCHANGED <<routeVars, connVars, callVars>>

\* AwaitConnectionAttempts lets a thread pass.
NoAttempt(n) == n \notin attempts

\* AddRoute has the mutex, and nobody is connecting for its NetId.
AddRouteLocked(t) == pc[t] = "add_route" /\ NoAttempt(ams[t])

\* AmsConnection::IsConnectedTo compares addresses, and nothing else.
IsConnectedTo(c, h) == hostOf[c] = h

RoutedElsewhere(t) ==
    /\ mapping[ams[t]] # NoConn
    /\ ~IsConnectedTo(mapping[ams[t]], target[t])

\* The NetId already has a route to another address.
AddRouteInUse(t) ==
    /\ AddRouteLocked(t)
    /\ RoutedElsewhere(t)
    /\ Return(t, "PORTALREADYINUSE")
    /\ UNCHANGED <<routeVars, connVars, callVars>>

\* The route is entered; a reconnecting request goes on to its second attempt.
EnterRoute(t, c) ==
    /\ mapping' = [mapping EXCEPT ![ams[t]] = c]
    /\ routeHosts' = [routeHosts EXCEPT ![ams[t]] = target[t]]
    /\ refCount' = [refCount EXCEPT ![c] = (@ + 1) % RefSpace]
    /\ IF retrying[t] THEN Goto(t, "retry") ELSE Return(t, "ok")

\* The first connection to that address is shared.
AddRouteShares(t) ==
    /\ AddRouteLocked(t)
    /\ ~RoutedElsewhere(t)
    /\ \E c \in connections :
          /\ IsConnectedTo(c, target[t])
          /\ \A d \in connections : IsConnectedTo(d, target[t]) => c <= d
          /\ EnterRoute(t, c)
    /\ UNCHANGED <<attempts, connections, made, hostOf, alive, broken, callVars>>

\* There is none: the NetId is marked, and the mutex released to connect.
AddRouteConnects(t) ==
    /\ AddRouteLocked(t)
    /\ ~RoutedElsewhere(t)
    /\ \A c \in connections : ~IsConnectedTo(c, target[t])
    /\ attempts' = attempts \cup {ams[t]}
    /\ Goto(t, "connecting")
    /\ UNCHANGED <<mapping, routeHosts, connections, connVars, callVars>>

\* Faulty variants, here and below: what a plausible mistake in the operator
\* that follows would make of it.  No specification uses them.
LeavesAttempt(n) == attempts

AttemptEnds(n) == attempts \ {n}

\* The new AmsConnection is constructed, and entered with the mutex held.  The
\* status is !ownIp: 0, since a TCP socket always has a local address.
ConnectSucceeds(t) ==
    /\ pc[t] = "connecting"
    /\ made < MaxConns
    /\ made' = made + 1
    /\ hostOf' = [hostOf EXCEPT ![made'] = target[t]]
    /\ alive' = alive \cup {made'}
    /\ connections' = connections \cup {made'}
    /\ attempts' = AttemptEnds(ams[t])
    /\ EnterRoute(t, made')
    /\ UNCHANGED <<broken, callVars>>

\* Its constructor throws.  "throw e" throws a plain std::exception, which
\* neither AddLocalRoute nor the requests catch.
ConnectFails(t) ==
    /\ pc[t] = "connecting"
    /\ attempts' = AttemptEnds(ams[t])
    /\ Return(t, "exception")
    /\ UNCHANGED <<mapping, routeHosts, connections, connVars, callVars>>

-----------------------------------------------------------------------------
(* DelRoute and the end of a connection. *)

IgnoresRoutes(n, c) == TRUE

\* DeleteIfLastConnection, after the route of n has been erased: no other
\* NetId is routed to c.
IsLast(n, c) == \A m \in NetIds \ {n} : mapping[m] # c

KeepsListed(c) == connections

Unlisted(c) == connections \ {c}

\* The route of t's NetId to c is erased; if it was the last one, c leaves the
\* router, to be destroyed by t without the mutex.
EraseRoute(t, c, otherwise) ==
    /\ mapping' = [mapping EXCEPT ![ams[t]] = NoConn]
    /\ IF IsLast(ams[t], c)
       THEN /\ connections' = Unlisted(c)
            /\ doomed' = [doomed EXCEPT ![t] = c]
            /\ Goto(t, "destroy")
       ELSE /\ UNCHANGED <<connections, doomed>>
            /\ otherwise

DelRoute(t, n) ==
    /\ Call(t, n)
    /\ Goto(t, "del_route")
    /\ UNCHANGED <<routeVars, connVars, target, conn, mayRetry, doomed>>

DelRouteLocked(t) == pc[t] = "del_route" /\ NoAttempt(ams[t])

DelRouteMissing(t) ==
    /\ DelRouteLocked(t)
    /\ mapping[ams[t]] = NoConn
    /\ Return(t, "void")
    /\ UNCHANGED <<routeVars, connVars, callVars>>

\* --refCount, of an unsigned type.
CountLess(r) == (r - 1) % RefSpace

\* The route is erased only if nothing else counts on the connection.
DelRouteFound(t) ==
    LET c == mapping[ams[t]] IN
    /\ DelRouteLocked(t)
    /\ c # NoConn
    /\ routeHosts' = [routeHosts EXCEPT ![ams[t]] = NoHost]
    /\ refCount' = [refCount EXCEPT ![c] = CountLess(@)]
    /\ IF refCount'[c] = 0
       THEN EraseRoute(t, c, Return(t, "void"))
       ELSE UNCHANGED <<mapping, connections, doomed>> /\ Return(t, "void")
    /\ UNCHANGED <<attempts, made, hostOf, alive, broken, ams, target, conn,
                   mayRetry, retrying, calls>>

\* deadConn goes out of scope: ~AmsConnection, without the mutex.
Destroy(t) ==
    /\ pc[t] = "destroy"
    /\ alive' = alive \ {doomed[t]}
    /\ doomed' = [doomed EXCEPT ![t] = NoConn]
    /\ IF retrying[t] THEN Goto(t, "resolve") ELSE Return(t, "void")
    /\ UNCHANGED <<routeVars, made, hostOf, refCount, broken, ams, target, conn,
                   mayRetry, retrying, calls>>

-----------------------------------------------------------------------------
(* AdsRequest. *)

\* GetConnection finds no route.
AdsRequestMissing(t, n) ==
    /\ Call(t, n)
    /\ mapping[n] = NoConn
    /\ Return(t, "MISSING_ROUTE")
    /\ UNCHANGED <<routeVars, connVars, target, conn, mayRetry, doomed>>

\* GetConnection returns a plain pointer, used after the mutex is released.
AdsRequest(t, n, retry) ==
    /\ Call(t, n)
    /\ mapping[n] # NoConn
    /\ conn' = [conn EXCEPT ![t] = mapping[n]]
    /\ mayRetry' = [mayRetry EXCEPT ![t] = retry]
    /\ Goto(t, "request")
    /\ UNCHANGED <<routeVars, connVars, target, doomed>>

Requesting == {"request", "retry_request"}

\* AmsConnection::AdsRequest returns a result, an error or a timeout.
RequestReturns(t) ==
    /\ pc[t] \in Requesting
    /\ Return(t, "status")
    /\ UNCHANGED <<routeVars, connVars, callVars>>

\* It returns -1: the request could not be sent.  With a port per thread that
\* is only so on a broken connection.
RequestUnsent(t) ==
    /\ pc[t] \in Requesting
    /\ conn[t] \in broken
    /\ IF pc[t] = "request" /\ mayRetry[t] THEN Goto(t, "find_host") ELSE Return(t, "-1")
    /\ UNCHANGED <<routeVars, connVars, callVars>>

FindHost(t) ==
    /\ pc[t] = "find_host"
    /\ routeHosts[ams[t]] # NoHost
    /\ target' = [target EXCEPT ![t] = routeHosts[ams[t]]]
    /\ retrying' = [retrying EXCEPT ![t] = TRUE]
    /\ Goto(t, "invalidate")
    /\ UNCHANGED <<routeVars, connVars, ams, conn, mayRetry, doomed, calls>>

\* The route has been deleted meanwhile.
FindNoHost(t) ==
    /\ pc[t] = "find_host"
    /\ routeHosts[ams[t]] = NoHost
    /\ Return(t, "-1")
    /\ UNCHANGED <<routeVars, connVars, callVars>>

\* The route still leads to the connection the request failed on.
IsExpected(t) == mapping[ams[t]] # NoConn /\ mapping[ams[t]] = conn[t]

\* InvalidateRouteConnection
InvalidateRouteConnection(t) ==
    LET c == mapping[ams[t]] IN
    /\ pc[t] = "invalidate"
    /\ IsExpected(t)
    /\ refCount' = [refCount EXCEPT ![c] = IF @ > 0 THEN @ - 1 ELSE @]
    /\ EraseRoute(t, c, Goto(t, "resolve"))
    /\ UNCHANGED <<routeHosts, attempts, made, hostOf, alive, broken, ams, target,
                   conn, mayRetry, retrying, calls>>

\* Somebody else has replaced or removed it.
InvalidateNothing(t) ==
    /\ pc[t] = "invalidate"
    /\ ~IsExpected(t)
    /\ Goto(t, "resolve")
    /\ UNCHANGED <<routeVars, connVars, callVars>>

\* GetConnection for the second attempt.
RetryRequest(t) ==
    /\ pc[t] = "retry"
    /\ mapping[ams[t]] # NoConn
    /\ conn' = [conn EXCEPT ![t] = mapping[ams[t]]]
    /\ Goto(t, "retry_request")
    /\ UNCHANGED <<routeVars, connVars, ams, target, mayRetry, retrying, doomed, calls>>

RetryMissing(t) ==
    /\ pc[t] = "retry"
    /\ mapping[ams[t]] = NoConn
    /\ Return(t, "MISSING_ROUTE")
    /\ UNCHANGED <<routeVars, connVars, callVars>>

-----------------------------------------------------------------------------
\* The peer or the network ends a connection.
Break(c) ==
    /\ c \in alive \ broken
    /\ broken' = broken \cup {c}
    /\ UNCHANGED <<routeVars, made, hostOf, refCount, alive, pc, callVars, result>>

Begin(t) ==
    \E n \in NetIds :
        \/ \E h \in Hosts : AddRoute(t, n, h)
        \/ DelRoute(t, n)
        \/ AdsRequestMissing(t, n)
        \/ \E retry \in BOOLEAN : AdsRequest(t, n, retry)

Thread(t) ==
    \/ Resolves(t) \/ ResolveFails(t)
    \/ AddRouteInUse(t) \/ AddRouteShares(t) \/ AddRouteConnects(t)
    \/ ConnectSucceeds(t) \/ ConnectFails(t)
    \/ DelRouteMissing(t) \/ DelRouteFound(t) \/ Destroy(t)
    \/ RequestReturns(t) \/ RequestUnsent(t)
    \/ FindHost(t) \/ FindNoHost(t)
    \/ InvalidateRouteConnection(t) \/ InvalidateNothing(t)
    \/ RetryRequest(t) \/ RetryMissing(t)

Next ==
    \/ \E t \in Threads : Begin(t) \/ Thread(t)
    \/ \E c \in Conns : Break(c)

Spec == Init /\ [][Next]_vars

\* Threads that are inside the router run.  That a request returns is what
\* AmsConnection promises; that a connect ends is its 6 s limit
\* (Sockets.cpp:101).
FairSpec == Spec /\ \A t \in Threads : WF_vars(Thread(t))

-----------------------------------------------------------------------------
(* Properties. *)

PcLabels == {"idle", "resolve", "add_route", "connecting", "del_route", "destroy", "request",
             "find_host", "invalidate", "retry", "retry_request"}
Results == {"none", "ok", "void", "status", "exception", "-1", "TARGET_PORT",
            "PORTALREADYINUSE", "MISSING_ROUTE"}

RouterTypes ==
    /\ mapping \in [NetIds -> Conns \cup {NoConn}]
    /\ routeHosts \in [NetIds -> Hosts \cup {NoHost}]
    /\ attempts \subseteq NetIds
    /\ connections \subseteq Conns

ConnTypes ==
    /\ made \in 0 .. MaxConns
    /\ hostOf \in [Conns -> Hosts \cup {NoHost}]
    /\ refCount \in [Conns -> 0 .. RefSpace - 1]
    /\ alive \subseteq Conns
    /\ broken \subseteq Conns

CallTypes ==
    /\ pc \in [Threads -> PcLabels]
    /\ ams \in [Threads -> NetIds]
    /\ target \in [Threads -> Hosts \cup {NoHost}]
    /\ conn \in [Threads -> Conns \cup {NoConn}]
    /\ doomed \in [Threads -> Conns \cup {NoConn}]
    /\ calls \in [Threads -> 0 .. MaxCalls]
    /\ result \in [Threads -> Results]

FlagTypes ==
    /\ mayRetry \in [Threads -> BOOLEAN]
    /\ retrying \in [Threads -> BOOLEAN]

\* Every variable holds a value of its C++ type.
TypeOK == RouterTypes /\ ConnTypes /\ CallTypes /\ FlagTypes

\* GetConnection never hands out a connection that is destroyed or about to be:
\* a route leads to a connection the router owns, whoever deletes, invalidates
\* or replaces routes meanwhile (AmsRouter.cpp:144-175, 224-285).
RoutesLead == \A n \in NetIds : mapping[n] # NoConn => mapping[n] \in connections

Destroying == {t \in Threads : pc[t] = "destroy"}

\* Every connection has one owner until it is destroyed, the router or the one
\* thread that took it out: none is destroyed twice and none is lost
\* (AmsRouter.cpp:146, 226, 261-285).
OwnedOnce ==
    /\ alive = connections \cup {doomed[t] : t \in Destroying}
    /\ \A t \in Destroying :
          /\ doomed[t] # NoConn
          /\ doomed[t] \notin connections
          /\ \A u \in Destroying \ {t} : doomed[u] # doomed[t]

\* connection_attempts names exactly the NetIds somebody is connecting for, one
\* thread each: a mark left behind would block every later AddRoute and
\* DelRoute of that NetId for good (AmsRouter.cpp:91, 113-141, 150).
OneAttempt ==
    /\ attempts = {ams[t] : t \in {u \in Threads : pc[u] = "connecting"}}
    /\ \A t, u \in Threads :
          pc[t] = "connecting" /\ pc[u] = "connecting" /\ ams[t] = ams[u] => t = u

\* Connections are numbered as they are made.
Numbered == alive \subseteq 1 .. made

\* The host a route reconnects to is the one its connection reaches.
RouteReachesHost ==
    \A n \in NetIds :
        mapping[n] # NoConn /\ routeHosts[n] # NoHost =>
            hostOf[mapping[n]] = routeHosts[n]

\* Every call returns: nobody waits for ever in AwaitConnectionAttempts.
EveryCallReturns == \A t \in Threads : (pc[t] # "idle") ~> (pc[t] = "idle")

\* Each route of the connection was added once.
CountedOnce(c) == refCount[c] = Cardinality({n \in NetIds : mapping[n] = c})

\* AdsLiteShutdownRouting "removes the entry of the local routing table"
\* (AdsLiteAPI.h:151): when DelRoute is through with a route that was added
\* once, it is gone, whichever other NetIds are reached over its connection.
\* This does not hold: the count is one over all NetIds of the connection.
DeletedRouteIsGone ==
    [][\A t \in Threads :
          /\ pc[t] = "del_route" /\ pc'[t] # "del_route"
          /\ mapping[ams[t]] # NoConn => CountedOnce(mapping[ams[t]])
          => mapping'[ams[t]] = NoConn]_vars

=============================================================================
