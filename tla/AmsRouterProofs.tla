-------------------------- MODULE AmsRouterProofs --------------------------
(***************************************************************************)
(* Theorems about AmsRouter, for every number of threads, NetIds and hosts *)
(* and every value of the other constants.                                 *)
(***************************************************************************)
EXTENDS AmsRouter, TLAPS

LEMMA RouterTypeInit == Init => TypeOK
<1> SUFFICES ASSUME Init PROVE TypeOK
  OBVIOUS
<1> USE RouterAssumption DEF Init
<1>1. RouterTypes
  BY DEF RouterTypes
<1>2. ConnTypes
  BY DEF ConnTypes
<1>3. CallTypes
  BY DEF CallTypes, PcLabels, Results
<1>4. FlagTypes
  BY DEF FlagTypes
<1> QED
  BY <1>1, <1>2, <1>3, <1>4 DEF TypeOK

\* A reference count stays a size_t.
LEMMA RefCounts ==
  ASSUME NEW r \in 0 .. RefSpace - 1
  PROVE  /\ (r + 1) % RefSpace \in 0 .. RefSpace - 1
         /\ (r - 1) % RefSpace \in 0 .. RefSpace - 1
         /\ (IF r > 0 THEN r - 1 ELSE r) \in 0 .. RefSpace - 1
  BY RouterAssumption

\* Every call that begins keeps the types.
LEMMA BeginTypes ==
  ASSUME TypeOK, NEW t \in Threads, Begin(t)
  PROVE  TypeOK'
<1> USE RouterAssumption DEF TypeOK, routeVars, connVars, callVars, Goto, Return, Call
<1>1. ASSUME NEW n \in NetIds, NEW h \in Hosts, AddRoute(t, n, h) PROVE TypeOK'
  <2>1. RouterTypes'
    BY <1>1 DEF AddRoute, RouterTypes
  <2>2. ConnTypes'
    BY <1>1 DEF AddRoute, ConnTypes
  <2>3. CallTypes'
    BY <1>1 DEF AddRoute, CallTypes, PcLabels, Results, RouterTypes
  <2>4. FlagTypes'
    BY <1>1 DEF AddRoute, FlagTypes
  <2> QED
    BY <2>1, <2>2, <2>3, <2>4
<1>2. ASSUME NEW n \in NetIds, DelRoute(t, n) PROVE TypeOK'
  <2>1. RouterTypes'
    BY <1>2 DEF DelRoute, RouterTypes
  <2>2. ConnTypes'
    BY <1>2 DEF DelRoute, ConnTypes
  <2>3. CallTypes'
    BY <1>2 DEF DelRoute, CallTypes, PcLabels, Results, RouterTypes
  <2>4. FlagTypes'
    BY <1>2 DEF DelRoute, FlagTypes
  <2> QED
    BY <2>1, <2>2, <2>3, <2>4
<1>3. ASSUME NEW n \in NetIds, AdsRequestMissing(t, n) PROVE TypeOK'
  <2>1. RouterTypes'
    BY <1>3 DEF AdsRequestMissing, RouterTypes
  <2>2. ConnTypes'
    BY <1>3 DEF AdsRequestMissing, ConnTypes
  <2>3. CallTypes'
    BY <1>3 DEF AdsRequestMissing, CallTypes, PcLabels, Results, RouterTypes
  <2>4. FlagTypes'
    BY <1>3 DEF AdsRequestMissing, FlagTypes
  <2> QED
    BY <2>1, <2>2, <2>3, <2>4
<1>4. ASSUME NEW n \in NetIds, NEW retry \in BOOLEAN, AdsRequest(t, n, retry) PROVE TypeOK'
  <2>1. RouterTypes'
    BY <1>4 DEF AdsRequest, RouterTypes
  <2>2. ConnTypes'
    BY <1>4 DEF AdsRequest, ConnTypes
  <2>3. CallTypes'
    BY <1>4 DEF AdsRequest, CallTypes, PcLabels, Results, RouterTypes
  <2>4. FlagTypes'
    BY <1>4 DEF AdsRequest, FlagTypes
  <2> QED
    BY <2>1, <2>2, <2>3, <2>4
<1> QED
  BY <1>1, <1>2, <1>3, <1>4 DEF Begin

\* So does every step inside a call.
LEMMA StepTypes ==
  ASSUME TypeOK, NEW t \in Threads, Thread(t)
  PROVE  TypeOK'
<1> USE RouterAssumption, RefCounts DEF TypeOK, routeVars, connVars, callVars, Goto, Return, Conns, NoConn
<1>1. CASE ResolveFails(t)
  <2>1. RouterTypes'
    BY <1>1 DEF ResolveFails, RouterTypes
  <2>2. ConnTypes'
    BY <1>1 DEF ResolveFails, ConnTypes
  <2>3. CallTypes'
    BY <1>1 DEF ResolveFails, CallTypes, PcLabels, Results, RouterTypes
  <2>4. FlagTypes'
    BY <1>1 DEF ResolveFails, FlagTypes
  <2> QED
    BY <2>1, <2>2, <2>3, <2>4
<1>18. CASE Resolves(t)
  <2>1. RouterTypes'
    BY <1>18 DEF Resolves, RouterTypes
  <2>2. ConnTypes'
    BY <1>18 DEF Resolves, ConnTypes
  <2>3. CallTypes'
    BY <1>18 DEF Resolves, CallTypes, PcLabels, Results, RouterTypes
  <2>4. FlagTypes'
    BY <1>18 DEF Resolves, FlagTypes
  <2> QED
    BY <2>1, <2>2, <2>3, <2>4
<1>2. CASE AddRouteInUse(t)
  <2>1. RouterTypes'
    BY <1>2 DEF AddRouteInUse, RouterTypes
  <2>2. ConnTypes'
    BY <1>2 DEF AddRouteInUse, ConnTypes
  <2>3. CallTypes'
    BY <1>2 DEF AddRouteInUse, CallTypes, PcLabels, Results, RouterTypes
  <2>4. FlagTypes'
    BY <1>2 DEF AddRouteInUse, FlagTypes
  <2> QED
    BY <2>1, <2>2, <2>3, <2>4
<1>3. CASE AddRouteShares(t)
  <2>1. RouterTypes'
    BY SMTT(20), <1>3 DEF AddRouteShares, EnterRoute, RouterTypes, CallTypes, ConnTypes
  <2>2. ConnTypes'
    BY SMTT(20), <1>3 DEF AddRouteShares, EnterRoute, ConnTypes, CallTypes, RouterTypes
  <2>3. CallTypes'
    BY <1>3 DEF AddRouteShares, EnterRoute, CallTypes, PcLabels, Results, RouterTypes
  <2>4. FlagTypes'
    BY <1>3 DEF AddRouteShares, EnterRoute, FlagTypes
  <2> QED
    BY <2>1, <2>2, <2>3, <2>4
<1>4. CASE AddRouteConnects(t)
  <2>1. RouterTypes'
    BY <1>4 DEF AddRouteConnects, RouterTypes, CallTypes
  <2>2. ConnTypes'
    BY <1>4 DEF AddRouteConnects, ConnTypes
  <2>3. CallTypes'
    BY <1>4 DEF AddRouteConnects, CallTypes, PcLabels, Results, RouterTypes
  <2>4. FlagTypes'
    BY <1>4 DEF AddRouteConnects, FlagTypes
  <2> QED
    BY <2>1, <2>2, <2>3, <2>4
<1>5. CASE ConnectSucceeds(t)
  <2>1. RouterTypes'
    BY <1>5 DEF ConnectSucceeds, EnterRoute, AttemptEnds, RouterTypes, CallTypes, ConnTypes
  <2>2. ConnTypes'
    BY SMTT(20), <1>5 DEF ConnectSucceeds, EnterRoute, AttemptEnds, ConnTypes, CallTypes, RouterTypes
  <2>3. CallTypes'
    BY <1>5 DEF ConnectSucceeds, EnterRoute, AttemptEnds, CallTypes, PcLabels, Results, RouterTypes
  <2>4. FlagTypes'
    BY <1>5 DEF ConnectSucceeds, EnterRoute, AttemptEnds, FlagTypes
  <2> QED
    BY <2>1, <2>2, <2>3, <2>4
<1>6. CASE ConnectFails(t)
  <2>1. RouterTypes'
    BY <1>6 DEF ConnectFails, AttemptEnds, RouterTypes, CallTypes, ConnTypes
  <2>2. ConnTypes'
    BY <1>6 DEF ConnectFails, AttemptEnds, ConnTypes, CallTypes, RouterTypes
  <2>3. CallTypes'
    BY <1>6 DEF ConnectFails, AttemptEnds, CallTypes, PcLabels, Results, RouterTypes
  <2>4. FlagTypes'
    BY <1>6 DEF ConnectFails, AttemptEnds, FlagTypes
  <2> QED
    BY <2>1, <2>2, <2>3, <2>4
<1>7. CASE DelRouteMissing(t)
  <2>1. RouterTypes'
    BY <1>7 DEF DelRouteMissing, RouterTypes
  <2>2. ConnTypes'
    BY <1>7 DEF DelRouteMissing, ConnTypes
  <2>3. CallTypes'
    BY <1>7 DEF DelRouteMissing, CallTypes, PcLabels, Results, RouterTypes
  <2>4. FlagTypes'
    BY <1>7 DEF DelRouteMissing, FlagTypes
  <2> QED
    BY <2>1, <2>2, <2>3, <2>4
<1>8. CASE DelRouteFound(t)
  <2>1. RouterTypes'
    BY <1>8 DEF DelRouteFound, EraseRoute, Unlisted, CountLess, RouterTypes, CallTypes, ConnTypes
  <2>2. ConnTypes'
    BY <1>8 DEF DelRouteFound, EraseRoute, Unlisted, CountLess, ConnTypes, CallTypes, RouterTypes
  <2>3. CallTypes'
    BY <1>8 DEF DelRouteFound, EraseRoute, Unlisted, CountLess, CallTypes, PcLabels, Results, RouterTypes
  <2>4. FlagTypes'
    BY <1>8 DEF DelRouteFound, EraseRoute, Unlisted, CountLess, FlagTypes
  <2> QED
    BY <2>1, <2>2, <2>3, <2>4
<1>9. CASE Destroy(t)
  <2>1. RouterTypes'
    BY <1>9 DEF Destroy, RouterTypes
  <2>2. ConnTypes'
    BY <1>9 DEF Destroy, ConnTypes
  <2>3. CallTypes'
    BY <1>9 DEF Destroy, CallTypes, PcLabels, Results, RouterTypes
  <2>4. FlagTypes'
    BY <1>9 DEF Destroy, FlagTypes
  <2> QED
    BY <2>1, <2>2, <2>3, <2>4
<1>10. CASE RequestReturns(t)
  <2>1. RouterTypes'
    BY <1>10 DEF RequestReturns, RouterTypes
  <2>2. ConnTypes'
    BY <1>10 DEF RequestReturns, ConnTypes
  <2>3. CallTypes'
    BY <1>10 DEF RequestReturns, CallTypes, PcLabels, Results, RouterTypes
  <2>4. FlagTypes'
    BY <1>10 DEF RequestReturns, FlagTypes
  <2> QED
    BY <2>1, <2>2, <2>3, <2>4
<1>11. CASE RequestUnsent(t)
  <2>1. RouterTypes'
    BY <1>11 DEF RequestUnsent, RouterTypes
  <2>2. ConnTypes'
    BY <1>11 DEF RequestUnsent, ConnTypes
  <2>3. CallTypes'
    BY <1>11 DEF RequestUnsent, CallTypes, PcLabels, Results, RouterTypes
  <2>4. FlagTypes'
    BY <1>11 DEF RequestUnsent, FlagTypes
  <2> QED
    BY <2>1, <2>2, <2>3, <2>4
<1>12. CASE FindHost(t)
  <2>1. RouterTypes'
    BY <1>12 DEF FindHost, RouterTypes
  <2>2. ConnTypes'
    BY <1>12 DEF FindHost, ConnTypes
  <2>3. CallTypes'
    BY <1>12 DEF FindHost, CallTypes, PcLabels, Results, RouterTypes
  <2>4. FlagTypes'
    BY <1>12 DEF FindHost, FlagTypes
  <2> QED
    BY <2>1, <2>2, <2>3, <2>4
<1>13. CASE FindNoHost(t)
  <2>1. RouterTypes'
    BY <1>13 DEF FindNoHost, RouterTypes
  <2>2. ConnTypes'
    BY <1>13 DEF FindNoHost, ConnTypes
  <2>3. CallTypes'
    BY <1>13 DEF FindNoHost, CallTypes, PcLabels, Results, RouterTypes
  <2>4. FlagTypes'
    BY <1>13 DEF FindNoHost, FlagTypes
  <2> QED
    BY <2>1, <2>2, <2>3, <2>4
<1>14. CASE InvalidateRouteConnection(t)
  <2>1. RouterTypes'
    BY <1>14 DEF InvalidateRouteConnection, EraseRoute, Unlisted, RouterTypes, CallTypes, ConnTypes
  <2>2. ConnTypes'
    BY <1>14 DEF InvalidateRouteConnection, EraseRoute, Unlisted, ConnTypes, CallTypes, RouterTypes
  <2>3. CallTypes'
    BY <1>14 DEF InvalidateRouteConnection, EraseRoute, Unlisted, CallTypes, PcLabels, Results, RouterTypes
  <2>4. FlagTypes'
    BY <1>14 DEF InvalidateRouteConnection, EraseRoute, Unlisted, FlagTypes
  <2> QED
    BY <2>1, <2>2, <2>3, <2>4
<1>15. CASE InvalidateNothing(t)
  <2>1. RouterTypes'
    BY <1>15 DEF InvalidateNothing, RouterTypes
  <2>2. ConnTypes'
    BY <1>15 DEF InvalidateNothing, ConnTypes
  <2>3. CallTypes'
    BY <1>15 DEF InvalidateNothing, CallTypes, PcLabels, Results, RouterTypes
  <2>4. FlagTypes'
    BY <1>15 DEF InvalidateNothing, FlagTypes
  <2> QED
    BY <2>1, <2>2, <2>3, <2>4
<1>16. CASE RetryRequest(t)
  <2>1. RouterTypes'
    BY <1>16 DEF RetryRequest, RouterTypes
  <2>2. ConnTypes'
    BY <1>16 DEF RetryRequest, ConnTypes
  <2>3. CallTypes'
    BY <1>16 DEF RetryRequest, CallTypes, PcLabels, Results, RouterTypes
  <2>4. FlagTypes'
    BY <1>16 DEF RetryRequest, FlagTypes
  <2> QED
    BY <2>1, <2>2, <2>3, <2>4
<1>17. CASE RetryMissing(t)
  <2>1. RouterTypes'
    BY <1>17 DEF RetryMissing, RouterTypes
  <2>2. ConnTypes'
    BY <1>17 DEF RetryMissing, ConnTypes
  <2>3. CallTypes'
    BY <1>17 DEF RetryMissing, CallTypes, PcLabels, Results, RouterTypes
  <2>4. FlagTypes'
    BY <1>17 DEF RetryMissing, FlagTypes
  <2> QED
    BY <2>1, <2>2, <2>3, <2>4
<1> QED
  BY <1>1, <1>2, <1>3, <1>4, <1>5, <1>6, <1>7, <1>8, <1>9, <1>10, <1>11, <1>12, <1>13, <1>14, <1>15, <1>16, <1>17, <1>18 DEF Thread

LEMMA RouterTypeStep == TypeOK /\ [Next]_vars => TypeOK'
<1> SUFFICES ASSUME TypeOK, [Next]_vars PROVE TypeOK'
  OBVIOUS
<1>1. ASSUME NEW c \in Conns, Break(c) PROVE TypeOK'
  <2>1. RouterTypes' /\ ConnTypes' /\ CallTypes'
    BY <1>1 DEF Break, routeVars, callVars, TypeOK, RouterTypes, ConnTypes, CallTypes
  <2>2. FlagTypes'
    BY <1>1 DEF Break, callVars, TypeOK, FlagTypes
  <2> QED
    BY <2>1, <2>2 DEF TypeOK
<1>2. CASE UNCHANGED vars
  <2>1. RouterTypes' /\ ConnTypes' /\ CallTypes'
    BY <1>2 DEF vars, routeVars, connVars, callVars, TypeOK, RouterTypes, ConnTypes, CallTypes
  <2>2. FlagTypes'
    BY <1>2 DEF vars, callVars, TypeOK, FlagTypes
  <2> QED
    BY <2>1, <2>2 DEF TypeOK
<1> QED
  BY <1>1, <1>2, BeginTypes, StepTypes DEF Next

\* In every reachable state of the router the variables hold values of their
\* types: in particular a reference count stays a size_t.
THEOREM RouterTypeCorrect == Spec => []TypeOK
  BY RouterTypeInit, RouterTypeStep, PTL DEF Spec

-----------------------------------------------------------------------------
(* Ownership of the connections. *)

\* What RoutesLead, OwnedOnce and OneAttempt need to be inductive: connections
\* are numbered as they are made, so that a new one is not an old one.
RouterInv ==
    /\ TypeOK
    /\ Numbered
    /\ RoutesLead
    /\ OwnedOnce
    /\ OneAttempt
    /\ RouteReachesHost

LEMMA RouterInvInit == Init => RouterInv
<1> SUFFICES ASSUME Init PROVE RouterInv
  OBVIOUS
<1>1. TypeOK
  BY RouterTypeInit
<1>2. Numbered /\ RoutesLead /\ RouteReachesHost
  BY DEF Init, Numbered, RoutesLead, RouteReachesHost
<1>3. OwnedOnce /\ OneAttempt
  BY DEF Init, OwnedOnce, OneAttempt, Destroying
<1> QED
  BY <1>1, <1>2, <1>3 DEF RouterInv

\* A step that neither begins nor ends a connection, a connection attempt or a
\* route disturbs nothing.
Quiet(t) ==
    /\ UNCHANGED <<routeVars, made, hostOf, alive, doomed>>
    /\ pc[t] \notin {"connecting", "destroy"}
    /\ pc'[t] \notin {"connecting", "destroy"}
    /\ \A u \in Threads \ {t} : pc'[u] = pc[u] /\ ams'[u] = ams[u]

LEMMA QuietStep ==
  ASSUME RouterInv, NEW t \in Threads, Quiet(t), TypeOK'
  PROVE  RouterInv'
<1> USE DEF RouterInv, Quiet, routeVars
<1>1. Numbered' /\ RoutesLead' /\ RouteReachesHost'
  BY DEF Numbered, RoutesLead, RouteReachesHost
<1>2. Destroying' = Destroying
  BY DEF Destroying
<1>3. OwnedOnce'
  BY <1>2 DEF OwnedOnce
<1>4. {u \in Threads : pc'[u] = "connecting"} = {u \in Threads : pc[u] = "connecting"}
  OBVIOUS
<1>5. \A u \in Threads : pc[u] = "connecting" => ams'[u] = ams[u]
  OBVIOUS
<1>6. OneAttempt'
  BY <1>4, <1>5 DEF OneAttempt
<1> QED
  BY <1>1, <1>3, <1>6

LEMMA BeginQuiet ==
  ASSUME TypeOK, NEW t \in Threads, Begin(t)
  PROVE  Quiet(t)
  BY DEF Begin, AddRoute, DelRoute, AdsRequestMissing, AdsRequest, Call, Goto, Return, Quiet,
         routeVars, connVars, TypeOK, CallTypes

QuietThread(t) ==
    \/ Resolves(t) \/ ResolveFails(t) \/ AddRouteInUse(t) \/ DelRouteMissing(t)
    \/ RequestReturns(t) \/ RequestUnsent(t) \/ FindHost(t) \/ FindNoHost(t)
    \/ InvalidateNothing(t) \/ RetryRequest(t) \/ RetryMissing(t)

LEMMA ThreadQuiet ==
  ASSUME TypeOK, NEW t \in Threads, QuietThread(t)
  PROVE  Quiet(t)
<1> USE DEF Goto, Return, Quiet, routeVars, connVars, callVars, TypeOK, CallTypes
<1>1. CASE Resolves(t) \/ ResolveFails(t) \/ AddRouteInUse(t) \/ DelRouteMissing(t)
  BY <1>1 DEF Resolves, ResolveFails, AddRouteInUse, AddRouteLocked, DelRouteMissing, DelRouteLocked
<1>2. CASE RequestReturns(t) \/ RequestUnsent(t)
  BY <1>2 DEF RequestReturns, RequestUnsent, Requesting
<1>3. CASE FindHost(t) \/ FindNoHost(t) \/ InvalidateNothing(t)
  BY <1>3 DEF FindHost, FindNoHost, InvalidateNothing
<1>4. CASE RetryRequest(t) \/ RetryMissing(t)
  BY <1>4 DEF RetryRequest, RetryMissing
<1> QED
  BY <1>1, <1>2, <1>3, <1>4 DEF QuietThread

\* A thread that keeps the owners and the attempts: only a route changes.
KeepsOwners(t) ==
    /\ UNCHANGED <<attempts, connections, made, hostOf, alive, doomed, ams>>
    /\ pc[t] \notin {"connecting", "destroy"}
    /\ pc'[t] \notin {"connecting", "destroy"}
    /\ \A u \in Threads \ {t} : pc'[u] = pc[u]

LEMMA OwnersKept ==
  ASSUME RouterInv, NEW t \in Threads, KeepsOwners(t)
  PROVE  Numbered' /\ OwnedOnce' /\ OneAttempt'
<1> USE DEF RouterInv, KeepsOwners
<1>1. Destroying' = Destroying
  BY DEF Destroying
<1>2. {u \in Threads : pc'[u] = "connecting"} = {u \in Threads : pc[u] = "connecting"}
  OBVIOUS
<1> QED
  BY <1>1, <1>2 DEF Numbered, OwnedOnce, OneAttempt

LEMMA SharesStep ==
  ASSUME RouterInv, NEW t \in Threads, AddRouteShares(t), TypeOK'
  PROVE  RouterInv'
<1>1. PICK c \in connections : IsConnectedTo(c, target[t]) /\ EnterRoute(t, c)
  BY DEF AddRouteShares
<1>2. KeepsOwners(t)
  BY <1>1 DEF AddRouteShares, AddRouteLocked, EnterRoute, KeepsOwners, callVars, Goto, Return,
              RouterInv, TypeOK, CallTypes
<1>3. RoutesLead' /\ RouteReachesHost'
  BY <1>1 DEF AddRouteShares, EnterRoute, IsConnectedTo, RoutesLead, RouteReachesHost,
              RouterInv, TypeOK, RouterTypes, CallTypes
<1> QED
  BY <1>2, <1>3, OwnersKept DEF RouterInv

LEMMA ConnectsStep ==
  ASSUME RouterInv, NEW t \in Threads, AddRouteConnects(t), TypeOK'
  PROVE  RouterInv'
<1> USE DEF AddRouteConnects, AddRouteLocked, Goto, RouterInv, TypeOK, CallTypes
<1>1. Numbered' /\ RoutesLead' /\ RouteReachesHost'
  BY DEF connVars, Numbered, RoutesLead, RouteReachesHost
<1>2. OwnedOnce'
  <2>1. Destroying' = Destroying
    BY DEF Destroying
  <2> QED
    BY <2>1 DEF OwnedOnce, connVars, callVars
<1>3. OneAttempt'
  <2>1. {u \in Threads : pc'[u] = "connecting"} = {u \in Threads : pc[u] = "connecting"} \cup {t}
    OBVIOUS
  <2> QED
    BY <2>1 DEF OneAttempt, NoAttempt, callVars
<1> QED
  BY <1>1, <1>2, <1>3

\* The end of an attempt unblocks its NetId.
LEMMA AttemptOver ==
  ASSUME RouterInv, NEW t \in Threads, pc[t] = "connecting", pc'[t] # "connecting",
         \A u \in Threads \ {t} : pc'[u] = pc[u],
         attempts' = AttemptEnds(ams[t]), UNCHANGED ams
  PROVE  OneAttempt'
<1>1. {u \in Threads : pc'[u] = "connecting"} = {u \in Threads : pc[u] = "connecting"} \ {t}
  OBVIOUS
<1>2. \A u \in Threads : pc[u] = "connecting" /\ u # t => ams[u] # ams[t]
  BY DEF RouterInv, OneAttempt
<1> QED
  BY <1>1, <1>2 DEF RouterInv, OneAttempt, AttemptEnds

LEMMA ConnectFailsStep ==
  ASSUME RouterInv, NEW t \in Threads, ConnectFails(t), TypeOK'
  PROVE  RouterInv'
<1> USE DEF ConnectFails, Return, callVars, connVars
<1>1. pc'[t] = "idle" /\ \A u \in Threads \ {t} : pc'[u] = pc[u]
  BY DEF RouterInv, TypeOK, CallTypes
<1>2. Numbered' /\ RoutesLead' /\ RouteReachesHost'
  BY DEF RouterInv, Numbered, RoutesLead, RouteReachesHost
<1>3. OwnedOnce'
  <2>1. Destroying' = Destroying
    BY <1>1 DEF Destroying
  <2> QED
    BY <2>1 DEF RouterInv, OwnedOnce
<1>4. OneAttempt'
  BY <1>1, AttemptOver
<1> QED
  BY <1>2, <1>3, <1>4 DEF RouterInv

LEMMA ConnectSucceedsStep ==
  ASSUME RouterInv, NEW t \in Threads, ConnectSucceeds(t), TypeOK'
  PROVE  RouterInv'
<1> DEFINE c == made + 1
<1> USE DEF ConnectSucceeds, EnterRoute, callVars
<1>1. c \in Conns /\ c \notin alive /\ made' = c
  BY DEF RouterInv, TypeOK, ConnTypes, Numbered, Conns
<1>2. \A u \in Threads : doomed[u] \in alive \/ u \notin Destroying
  BY DEF RouterInv, OwnedOnce
<1>3. pc'[t] \in {"idle", "retry"} /\ \A u \in Threads \ {t} : pc'[u] = pc[u]
  BY DEF Goto, Return, RouterInv, TypeOK, CallTypes
<1>4. Numbered'
  BY <1>1 DEF RouterInv, Numbered, TypeOK, ConnTypes
<1>5. RoutesLead'
  BY <1>1 DEF RouterInv, RoutesLead, TypeOK, RouterTypes, CallTypes
<1>6. RouteReachesHost'
  <2>1. connections \subseteq alive
    BY DEF RouterInv, OwnedOnce
  <2>2. hostOf'[c] = target[t] /\ \A d \in connections : hostOf'[d] = hostOf[d]
    BY <1>1, <2>1 DEF RouterInv, TypeOK, ConnTypes, RouterTypes
  <2> QED
    BY <1>1, <2>2 DEF RouterInv, RoutesLead, RouteReachesHost, TypeOK, RouterTypes, CallTypes
<1>7. OwnedOnce'
  <2>1. Destroying' = Destroying
    BY <1>3 DEF Destroying
  <2> QED
    BY <1>1, <1>2, <2>1 DEF RouterInv, OwnedOnce
<1>8. OneAttempt'
  BY <1>3, AttemptOver
<1> QED
  BY <1>4, <1>5, <1>6, <1>7, <1>8 DEF RouterInv

\* Erasing a route hands its connection over to the thread, if it was the last.
LEMMA EraseStep ==
  ASSUME RouterInv, NEW t \in Threads, TypeOK',
         pc[t] \notin {"connecting", "destroy"}, mapping[ams[t]] # NoConn,
         \/ EraseRoute(t, mapping[ams[t]], Return(t, "void"))
         \/ EraseRoute(t, mapping[ams[t]], Goto(t, "resolve")),
         \A n \in NetIds : routeHosts'[n] \in {routeHosts[n], NoHost},
         UNCHANGED <<attempts, made, hostOf, alive, ams>>
  PROVE  RouterInv'
<1> DEFINE c == mapping[ams[t]]
<1> USE DEF EraseRoute, Goto, Return
<1>1. ams[t] \in NetIds /\ c \in connections /\ c \in alive
  BY DEF RouterInv, TypeOK, CallTypes, RoutesLead, OwnedOnce
<1>2. \A n \in NetIds : mapping'[n] = IF n = ams[t] THEN NoConn ELSE mapping[n]
  BY DEF RouterInv, TypeOK, RouterTypes
<1>3. RouteReachesHost'
  BY <1>2 DEF RouterInv, RouteReachesHost
<1>4. \A u \in Threads \ {t} : pc'[u] = pc[u]
  BY DEF RouterInv, TypeOK, CallTypes
<1>5. pc'[t] # "connecting"
  BY DEF RouterInv, TypeOK, CallTypes
<1>6. OneAttempt'
  <2>1. {u \in Threads : pc'[u] = "connecting"} = {u \in Threads : pc[u] = "connecting"}
    BY <1>4, <1>5
  <2> QED
    BY <2>1 DEF RouterInv, OneAttempt
<1>7. Numbered'
  BY DEF RouterInv, Numbered
<1>8. CASE IsLast(ams[t], c)
  <2>1. connections' = connections \ {c}
    BY <1>8 DEF Unlisted
  <2>2. pc'[t] = "destroy" /\ doomed'[t] = c
    BY <1>8 DEF RouterInv, TypeOK, CallTypes
  <2>3. \A u \in Threads \ {t} : doomed'[u] = doomed[u]
    BY <1>8 DEF RouterInv, TypeOK, CallTypes
  <2>4. RoutesLead'
    BY <1>2, <1>8, <2>1 DEF RouterInv, RoutesLead, IsLast
  <2>5. Destroying' = Destroying \cup {t} /\ t \notin Destroying
    BY <1>4, <2>2 DEF Destroying
  <2>6. \A u \in Destroying : doomed[u] # c /\ u # t
    BY <1>1, <2>5 DEF RouterInv, OwnedOnce
  <2>7. {doomed'[u] : u \in Destroying'} = {doomed[u] : u \in Destroying} \cup {c}
    BY <2>2, <2>3, <2>5, <2>6 DEF Destroying
  <2>8. alive' = connections' \cup {doomed'[u] : u \in Destroying'}
    BY <1>1, <2>1, <2>7 DEF RouterInv, OwnedOnce
  <2>9. \A u \in Destroying' :
          /\ doomed'[u] # NoConn
          /\ doomed'[u] \notin connections'
          /\ \A v \in Destroying' \ {u} : doomed'[v] # doomed'[u]
    <3>1. \A u \in Destroying :
            /\ doomed'[u] = doomed[u]
            /\ doomed[u] # NoConn
            /\ doomed[u] \notin connections
            /\ \A v \in Destroying \ {u} : doomed[v] # doomed[u]
      BY <2>3, <2>6 DEF RouterInv, OwnedOnce, Destroying
    <3> QED
      BY <2>1, <2>2, <2>5, <2>6, <3>1
  <2>10. OwnedOnce'
    BY <2>8, <2>9 DEF OwnedOnce
  <2> QED
    BY <1>3, <1>6, <1>7, <2>4, <2>10 DEF RouterInv
<1>9. CASE ~IsLast(ams[t], c)
  <2>1. pc'[t] # "destroy" /\ UNCHANGED <<connections, doomed>>
    BY <1>9 DEF RouterInv, TypeOK, CallTypes
  <2>2. Destroying' = Destroying
    BY <1>4, <2>1 DEF Destroying
  <2>3. OwnedOnce'
    BY <2>1, <2>2 DEF RouterInv, OwnedOnce
  <2>4. RoutesLead'
    BY <1>2, <2>1 DEF RouterInv, RoutesLead
  <2> QED
    BY <1>3, <1>6, <1>7, <2>3, <2>4 DEF RouterInv
<1> QED
  BY <1>8, <1>9

LEMMA DelRouteStep ==
  ASSUME RouterInv, NEW t \in Threads, DelRouteFound(t), TypeOK'
  PROVE  RouterInv'
<1> DEFINE c == mapping[ams[t]]
<1> USE DEF DelRouteFound, DelRouteLocked
<1>1. \A n \in NetIds : routeHosts'[n] \in {routeHosts[n], NoHost}
  BY DEF RouterInv, TypeOK, RouterTypes
<1>2. CASE refCount'[c] = 0
  BY <1>1, <1>2, EraseStep
<1>3. CASE refCount'[c] # 0
  <2>1. UNCHANGED mapping /\ KeepsOwners(t)
    BY <1>3 DEF KeepsOwners, Return, RouterInv, TypeOK, CallTypes
  <2>2. RoutesLead' /\ RouteReachesHost'
    BY <1>1, <2>1 DEF KeepsOwners, RouterInv, RoutesLead, RouteReachesHost
  <2> QED
    BY <2>1, <2>2, OwnersKept DEF RouterInv
<1> QED
  BY <1>2, <1>3

LEMMA InvalidateStep ==
  ASSUME RouterInv, NEW t \in Threads, InvalidateRouteConnection(t), TypeOK'
  PROVE  RouterInv'
  BY EraseStep DEF InvalidateRouteConnection, IsExpected

LEMMA DestroyStep ==
  ASSUME RouterInv, NEW t \in Threads, Destroy(t), TypeOK'
  PROVE  RouterInv'
<1> USE DEF Destroy, routeVars
<1>1. pc'[t] \in {"idle", "resolve"} /\ \A u \in Threads \ {t} : pc'[u] = pc[u]
  BY DEF Goto, Return, RouterInv, TypeOK, CallTypes
<1>2. \A u \in Threads \ {t} : doomed'[u] = doomed[u]
  BY DEF RouterInv, TypeOK, CallTypes
<1>3. Numbered' /\ RoutesLead' /\ RouteReachesHost'
  BY DEF RouterInv, Numbered, RoutesLead, RouteReachesHost
<1>4. {u \in Threads : pc'[u] = "connecting"} = {u \in Threads : pc[u] = "connecting"}
  BY <1>1
<1>5. OneAttempt'
  BY <1>1, <1>4 DEF RouterInv, OneAttempt
<1>6. Destroying' = Destroying \ {t} /\ t \in Destroying
  BY <1>1 DEF Destroying
<1>7. \A u \in Destroying' : doomed'[u] = doomed[u] /\ doomed[u] # doomed[t]
  BY <1>2, <1>6 DEF RouterInv, OwnedOnce, Destroying
<1>8. alive' = connections' \cup {doomed'[u] : u \in Destroying'}
  <2>1. alive = connections \cup {doomed[u] : u \in Destroying} /\ doomed[t] \notin connections
    BY <1>6 DEF RouterInv, OwnedOnce
  <2>2. {doomed'[u] : u \in Destroying'} = {doomed[u] : u \in Destroying} \ {doomed[t]}
    BY <1>6, <1>7
  <2> QED
    BY <2>1, <2>2
<1>9. OwnedOnce'
  BY <1>6, <1>7, <1>8 DEF RouterInv, OwnedOnce
<1> QED
  BY <1>3, <1>5, <1>9 DEF RouterInv

\* A step of the environment, or none.
LEMMA OutsideStep ==
  ASSUME RouterInv, (\E c \in Conns : Break(c)) \/ UNCHANGED vars, TypeOK'
  PROVE  RouterInv'
<1>1. UNCHANGED <<routeVars, made, hostOf, alive, pc, ams, doomed>>
  BY DEF Break, vars, connVars, callVars
<1>2. Destroying' = Destroying
  BY <1>1 DEF Destroying
<1>3. Numbered' /\ RoutesLead' /\ RouteReachesHost'
  BY <1>1 DEF routeVars, RouterInv, Numbered, RoutesLead, RouteReachesHost
<1>4. OwnedOnce' /\ OneAttempt'
  BY <1>1, <1>2 DEF routeVars, RouterInv, OwnedOnce, OneAttempt
<1> QED
  BY <1>3, <1>4 DEF RouterInv

LEMMA RouterInvStep == RouterInv /\ [Next]_vars => RouterInv'
<1> SUFFICES ASSUME RouterInv, [Next]_vars PROVE RouterInv'
  OBVIOUS
<1>1. TypeOK /\ TypeOK'
  BY RouterTypeStep DEF RouterInv
<1>2. ASSUME NEW t \in Threads, Begin(t) PROVE RouterInv'
  BY <1>1, <1>2, BeginQuiet, QuietStep
<1>3. ASSUME NEW t \in Threads, Thread(t) PROVE RouterInv'
  <2>1. CASE QuietThread(t)
    BY <1>1, <2>1, ThreadQuiet, QuietStep
  <2>2. CASE AddRouteShares(t) \/ AddRouteConnects(t)
    BY <1>1, <2>2, SharesStep, ConnectsStep
  <2>3. CASE ConnectSucceeds(t) \/ ConnectFails(t)
    BY <1>1, <2>3, ConnectSucceedsStep, ConnectFailsStep
  <2>4. CASE DelRouteFound(t) \/ InvalidateRouteConnection(t) \/ Destroy(t)
    BY <1>1, <2>4, DelRouteStep, InvalidateStep, DestroyStep
  <2> QED
    BY <1>3, <2>1, <2>2, <2>3, <2>4 DEF Thread, QuietThread
<1> QED
  BY <1>1, <1>2, <1>3, OutsideStep DEF Next

\* However threads add, delete and replace routes, and whatever breaks: a route
\* leads to a connection the router owns (AmsRouter.cpp:166-175), ...
THEOREM RoutesLeadToConnections == Spec => []RoutesLead
<1>1. RouterInv => RoutesLead
  BY DEF RouterInv
<1> QED
  BY <1>1, RouterInvInit, RouterInvStep, PTL DEF Spec

\* ... a connection is owned by the router or by the one thread that is going to
\* destroy it, so that it is destroyed once and never lost
\* (AmsRouter.cpp:261-285), ...
THEOREM ConnectionsOwnedOnce == Spec => []OwnedOnce
<1>1. RouterInv => OwnedOnce
  BY DEF RouterInv
<1> QED
  BY <1>1, RouterInvInit, RouterInvStep, PTL DEF Spec

\* ... and at most one thread connects for a NetId, whose mark goes with the
\* attempt, failed or not (AmsRouter.cpp:113-141).
THEOREM OneAttemptEach == Spec => []OneAttempt
<1>1. RouterInv => OneAttempt
  BY DEF RouterInv
<1> QED
  BY <1>1, RouterInvInit, RouterInvStep, PTL DEF Spec

\* The host a reconnect goes to is the one the route's connection reaches.
THEOREM RoutesReachTheirHosts == Spec => []RouteReachesHost
<1>1. RouterInv => RouteReachesHost
  BY DEF RouterInv
<1> QED
  BY <1>1, RouterInvInit, RouterInvStep, PTL DEF Spec

=============================================================================
