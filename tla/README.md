# A formal model of ADSLite

ADSLite is a C++ library that talks the Beckhoff ADS/AMS protocol to TwinCAT
controllers. It either forwards to the vendor's DLL (Windows) or runs a
*standalone* stack of its own over TCP: routes, connections, request slots and
a receiver thread per connection. On top of both lie the API with its symbols,
ids, files and processes, UDP discovery of devices, and the UDP exchanges that
enter routes. This directory holds TLA+ modules of these parts, the TLC
configurations that check them on small instances, and TLAPS proofs of most of
their safety properties for all instances.

Paths below are relative to `src/`; unless a directory is given, files are
under `src/standalone/`.

## 1. The system

### 1.1 Components, their state and operations

| Component | State | Operations | Talks to | Modelled in |
|---|---|---|---|---|
| **AmsConnection** (`AmsConnection.cpp/.h`) | socket; `queue` of one `AmsResponse` slot per port (`request`, `invokeId`, `errorCode`, mutex, condition variable); `invokeId` counter; `stopping`; receiver thread; dispatchers | `AdsRequest`, `Write`, `Reserve`, `Wait`, `Notify`, `Release`, `GetPending`, `Recv`, `ReceiveFrame`, `ReceiveJunk`, `ReceiveNotification`, constructor, destructor | router calls it; it calls router's `GetLocalAddress`, the socket and the dispatchers | `AmsConnection`, `AmsRequestSpec`; with a dispatcher `NotificationDispatcher` |
| **AmsRouter** (`AmsRouter.cpp/.h`) | `mapping` NetId → connection, `route_hosts`, `connection_attempts`, `connections`, `refCount` of each connection; table of ports | `AddRoute`, `DelRoute`, `AdsRequest` with one reconnect, `InvalidateRouteConnection`, `DeleteIfLastConnection`; `OpenPort`, `ClosePort`, `Get/SetTimeout`, `GetLocalAddress` | API calls it; it owns connections and ports | `AmsRouter`; the ports in `AdsPorts` |
| **AmsPort** (`AmsPort.cpp/.h`) | port number, timeout, set of notifications | `Open`, `Close`, `AddNotification`, `DelNotification` | owned by the router | `AdsPorts` (ports without notifications, the only ones there are) |
| **NotificationDispatcher, RingBuffer** | ring with read and write pointers, map of notifications, semaphore, thread | `Emplace`, `Erase`, `Notify`, `Run`, destructor; `WriteChunk`, `Write`, `ReadFromLittleEndian`, `Read` | receiver writes the ring, dispatcher thread reads it | `NotificationDispatcher`, `RingBuffer` |
| **Sockets** | file descriptors, `select` sets | `Connect`, `read`, `write`, `Select`, `Shutdown` | used by connection, UDP exchange, discovery | at the calls, as nondeterminism |
| **AdsLiteLib** (`AdsLiteLib.cpp`) | the one router | read, write, read-write, state, control; ports; local routes; UDP `AddRemoteRoute`, `GetRemoteAddress` | API → router, UDP socket | `AdsLiteAPI`, `AdsPorts`, `RemoteRoute` |
| **Frame, AMS headers** | byte buffer that grows to the front | `prepend`, `remove`, `pop`, `limit`, `reset` | built by AdsLiteLib, written by connection and UDP socket | `Frame` |
| **BackendSelector, StandaloneBackend** (`backend/`) | the selected backend | select; init and shut down routing; requests | API → AdsLiteLib | `AdsPorts`, `RemoteRoute`, `AdsLiteAPI` |
| **AdsLiteAPI** (`AdsLiteAPI.cpp/.h`) | none (symbol handles per call) | read, write and read-write, by name and by handle; state, control, ids, masters, processes, ports, routing, files, discovery | user → backend | `AdsLiteAPI`, and the modules of the services |
| **TargetSystemInfo** (`backend/`) | cached platform and system ids | read, clear | API and file service → requests | `AdsLiteAPI` |
| **AdsFileService** (`backend/`) | none between calls; within one its handles, a stack of directories, list offsets | open, read, write, rename, delete, list, create and delete trees | sequences of requests to the target's file service | `AdsFileService` over `AdsFileServer`; paths in `TargetPaths` |
| **AdsECatService, AdsStartProcessService** (`backend/`) | none between calls | list masters (a sequence of requests); start a process (one) | API → requests | `AdsLiteAPI` |
| **BroadcastDiscovery** (`backend/`) | socket, receive buffer, replies so far | `Discover` | UDP | `BroadcastDiscovery` |
| **NetworkUtils** (`backend/`) | none | the local address for a target | operating system | `RemoteRoute` |
| **TwinCATBackend** (`backend/`) | none | forwards to the vendor's DLL | DLL | its checks and its clamped timeouts: `AdsPorts`, `AdsLiteAPI` |
| **Log, examples, `TcAdsDll/`** | – | – | – | no: logging, sample programs, vendored |

### 1.2 How they interact, and what is hard

* Application threads call the API; a request goes router → connection →
  socket. Each thread is asked to use a port of its own
  (`AdsLiteAPI.h:197`), which is what keeps two requests out of one slot.
* The caller puts a pointer to its request, and through it to its *buffer*, in
  the slot of its port and waits. The receiver thread of the connection reads
  replies and writes **directly into that buffer**. The two synchronise by a
  compare-and-swap or exchange of the slot's `invokeId` (whoever zeroes it
  decides), a store of `errorCode`, and a condition variable. A reply that
  comes at the deadline, after it, or for an earlier request is the central
  hazard.
* The router's mutex protects its tables, but not DNS, connecting, requests or
  destruction, which all run outside it. Connections are shared between NetIds
  of a host, counted by hand, and replaced when a request cannot be sent.
* The peer and the network may answer late, never, with errors, with too much,
  close in order, or break in the middle of a frame; `send` may fail, wholly or
  in part. Datagrams are lost, repeated and late, and come from anybody.
* Most calls of the API are *sequences* of requests to a target that other
  clients use at the same time. A request in the middle may fail, or take effect
  and report a failure, and what the sequence holds (symbol handles, file
  handles, marker files) must be given back on every path.
* The receiver and the dispatcher's thread share a ring with no lock, and the
  user erases handles while the thread reads samples of them.

What makes each component correct:

* *AmsConnection*: one request per slot and no lost slots; buffers written only
  for callers that wait; the result of a call is about that call; the receiver
  stays in step with the byte stream; every call returns; the destructor's join
  returns.
* *AmsRouter*: routes lead to live connections; each connection has one owner
  and is destroyed once; marks of connection attempts are always cleared; calls
  return.
* *Port table*: a port has one owner, and its timeout is the one that owner set.
* *RingBuffer, dispatcher*: the ring holds just what is not yet read; each
  callback gets a sample as it was sent, in order; nothing that was signalled is
  left undispatched; the destructor ends.
* *RemoteRoute, Frame*: requests are well formed however their frame grows; what
  an exchange takes for the answer of its target is that (it need not be, once
  another target was asked from the same port); exchanges end.
* *BroadcastDiscovery*: no device twice, none left out (but of those behind one
  address), each with what it said itself, within the window.
* *API, TargetSystemInfo, AdsECatService*: a name reaches its own symbol; handles
  are released; cached ids end with the routing; the ids in a list are of one
  configuration.
* *AdsFileService*: what a call reports as done is done, whichever request in it
  failed and whatever other clients do to the same tree; a rename never loses the
  file; handles are closed and marker files removed; a path has one spelling.

The full list of hazards, each at its line with the properties that cover it or
the reason why none does, is in `PROJECT.json` under `hazards`.

## 2. The modules

| Module | What it is |
|---|---|
| `AmsRequestSpec` | What `AmsConnection::AdsRequest` promises: a call returns once, with the peer's answer *to this call*, with a timeout after *its* deadline, or as unsent if the peer has not answered it and never will. |
| `AmsConnection` | The connection: slots, application threads, receiver, wire, peer. |
| `MCAmsConnection` | Small instances of it. |
| `AmsConnectionProofs` | Theorems about it: types, slots, who may write a buffer, whose answer a call returns; that the steps of the connection are steps of `AmsRequestSpec`; how the receiver follows the reply stream, and what is in a buffer. |
| `AmsRouter` | Routes and connections, with reconnect. |
| `MCAmsRouter` | A small instance of it. |
| `AmsRouterProofs` | Theorems about it. |
| `AdsFileServer` | The target's file service, which is not in the repository: the possible answers to each request. |
| `AdsFileService` | The clients of it: every call as the sequence of requests it makes. |
| `AdsFileServiceProofs` | Theorems about it: handles, trees created and deleted, lists, renames, marker files. |
| `MCAdsFileService` | A small drive and the calls made on it. |
| `TargetPaths` | The path functions of the file service, character by character. |
| `TargetPathsProofs` | Theorems about it: one spelling for each path, where the climb to the root goes and ends. |
| `MCTargetPaths` | An alphabet of four characters. |
| `RingBuffer` | The pointer arithmetic of the ring, with the two loads of the read pointer apart. |
| `NotificationDispatcher` | Receiver, ring, dispatcher's thread and user of notifications. Extends `RingBuffer`. |
| `NotificationDispatcherProofs` | Theorems about it, and about the arithmetic of the ring. |
| `MCNotificationDispatcher` | Two handles and four kinds of notification. |
| `Frame` | The operations of a frame. |
| `RemoteRoute` | The UDP exchanges that read a NetId and enter a route. Extends `Frame`. |
| `RemoteRouteProofs` | Theorems about both: what the requests and answers look like, where a local route comes from. |
| `MCRemoteRoute` | Two targets and four adapters. |
| `AdsPorts` | The choice of the backend and the port table. |
| `AdsLiteAPI` | The calls of the API as sequences of requests. Extends `AdsPorts`. |
| `AdsLiteAPIProofs` | Theorems about both: ports, symbols and their handles, cached ids, lists of masters. |
| `MCAdsLiteAPI` | Two targets and the calls of two clients. |
| `BroadcastDiscovery` | `Discover`, from the checks of its arguments to the caller's array. |
| `BroadcastDiscoveryProofs` | Theorems about it. |
| `MCBroadcastDiscovery` | Four devices, three adapters and noise. |

`AmsRouter` uses of `AmsConnection` only what `AmsRequestSpec` promises: a
request returns, with -1 only if the peer did not get it. `AdsLiteAPI` and
`AdsFileService` use of the router that a request succeeds, is refused, or times
out, executed or not.

### 2.1 AmsConnection

Each `std::atomic` operation, each critical section and each blocking point of
the code is an action of its own; local computation is folded into the action
before or after it.

| Code | Actions |
|---|---|
| `AdsRequest`, prologue | `AdsRequest`, `GetLocalAddress`, `PortNotOpen` |
| `GetInvokeId` (fetch-add, skipping 0) | `GetInvokeId` |
| `Reserve` (compare-and-swap of `request`) | `Reserve`, `PortInUse` |
| `Write` (store of the id, `send`, `Release` on failure) | `StoreInvokeId`, `WriteFrame`, `WriteFails`, `WriteTorn` |
| `Wait` (timed wait, exchange, untimed wait) | `WaitTimeout`, `WaitConsumed`, `WaitNotify` |
| `Release` (two stores) | `ReleaseErrorCode`, `ReleaseRequest` |
| `Recv` loop | `RecvReply`, `RecvShort`, `RecvNotification`, `RecvBodyAsHeader`, `RecvOutOfStep`, `RecvStops` |
| `GetPending` (compare-and-swap of `invokeId`) | `GetPending`, `NoResponsePending` |
| `ReceiveFrame` | `ReceiveError`, `ReceiveTooLong`, `ReceiveFrame`, `ReceiveResponseHeader`, `ReceivePayload`, `DeliverFrame`, `ReceiveTimeout` |
| `ReceiveJunk`, `TryRecv` | `ReceiveJunk`, `ReceiveFails` |
| destructor up to `join` | `Stop` |

*Units.* Bytes are grouped: the TCP and AoE headers of a frame are one unit of
the wire, the response header of its body (result and length) is one, the payload
any number. A deadline can fall between any two units. The bytes of a header are
read in one action, which leaves out deadlines in the middle of a header.

*Tags.* Requests, answers and codes carry the call they belong to. The program
stores no such thing and no guard reads it; properties compare it.

*Initial memory.* The constructor of `AmsResponse` does not initialise its
`invokeId`, so a slot starts with any id of `InitialIds`.

*Faults* (constant `Faults`): an orderly hangup between frames, a loss
anywhere with what was on the wire gone, a `send` that fails, a `send` that
sends a part, a command id the client does not know, a TCP frame too short for
AoE, a notification nobody asked for, and a reply without error whose body lacks
the response header (`short_body`; without it, `WholeBodies` holds). The peer
otherwise keeps the protocol: it answers only requests it received, once each,
with complete bodies.

*Unsigned lengths.* `bytesLeft` is a `size_t`, and line 380 takes the response
header from it whatever it is: `LeftAfterHeader` subtracts modulo `SizeSpace`.

*Out of step.* When body bytes are read as a header the receiver goes to
`out_of_step` and is assumed to match no request from then on; a counterexample
never depends on what such garbage decodes to.

*Outside the model*: the destructor runs only when no call is inside the
connection (whether the router guarantees that is a property of `AmsRouter`,
which says no); two threads may use one port, which the code rejects with
`PortInUse`; the notification dispatchers, which are in `NotificationDispatcher`.

### 2.2 AmsRouter

What runs while the router's mutex is held is one action. DNS (`resolve` until
`Resolves` or `ResolveFails`), connecting (`connecting` until `ConnectSucceeds`
or `ConnectFails`), the request (`request`, `retry_request`) and the destruction
of a connection (`destroy`) run without it and interleave. DNS is over before
the lock is taken and connection attempts are awaited, so that a thread that
waits for one leaves only when its mark is cleared. Connections are numbered
in the order they are made; since the code appends to its vector, "the first
that matches" is the one with the smallest number. `mayRetry` is
`allowReconnectRetry`: set for reads, and for a read-write with a nonzero read
length (`AdsLiteLib.cpp:308`). The table of ports, which shares the mutex but no
other state with the routes, is in `AdsPorts`.

### 2.3 AdsFileServer and AdsFileService

A call of the file service is a sequence of requests with error paths between
them; each request is one action, together with what the client does with the
answer until the next request. What the code keeps in local variables is the record
`st[c]`. Two variables are history, which no guard reads: `touched`, what others have
created or deleted during a call, and `original`, what was at the call's path when it
began.

| Code | Actions |
|---|---|
| `FileOpenImpl` with `ENSURE_DIR` (also the target of a rename) | `FileOpen`, then the actions of `DirCreateImpl` and `FileOpen` again |
| `DirCreateImpl`, its recursion as the list `WithAncestors` | `CreateMarker`, `AppendMarker`, `CloseMarker`, `DeleteMarker` |
| `FileRenameImpl` | `OpenSource`, `FileOpen`, `DropSource`, `CopyRead`, `CopyWrite`, `CloseTarget`, `CloseSource`, `DeleteSource` |
| `FileFindFirstImpl`, `FileFindNextImpl` in `FileListImpl` and `DeleteTreeImpl` | `FindFirstEntry`, `FindNextEntry`, `CloseFind`, `AbortFind` |
| `DeleteTreeImpl`, loop over its stack | `ExpandDirectory`, `DeleteEntry`, `DeleteDirectory`, `DeleteAsFile`, `KeepRoot`, `TreeDeleted` |
| `FileCloseImpl`, `FileDeleteImpl` | `FileClose`, `FileDelete` |

Each action chooses one of the `Replies` to its request: an answer the service may
give in the present state of the drive, or (up to `MaxFaults` times) an error
although the request has, or has not, taken effect; that is what a timeout or a
lost connection looks like to the caller.

`AdsFileServer` is external. It takes from the client's code and comments what the
service does: it creates missing directories when a file in them is opened with
`ENSURE_DIR`, or does not find itself able to (`AdsFileService.cpp:404`); it
enumerates a snapshot that starts with "."; NOTFOUND ends an enumeration; a number
that is no handle is answered with INVALIDOFFSET, which is what the repository's
test program expects (`example/main_file.cpp:152`); a file that is open may or may
not be deleted or truncated. Paths are sequences of names, and a spelling of a path
is a pair with the form it is written in: `NormalizePathForStyle` forgets the form,
`strcmp` does not. A block stands for the 64 KiB that a rename reads at once.

Not in this model: `FileRead`, `FileWrite`, and `FileOpen` with other flags for the
user, which are single requests; the path functions character by character, which
are `TargetPaths`; arguments that are null or empty.

### 2.4 TargetPaths

`NormalizePathForStyle`, `GetParentDirectory`, `JoinPath` and `MakeDirMarkerPath`
are operators of the same names over sequences of characters. A caller types a
string (`Type`); then `DirCreateImpl` climbs from it to the outermost directory it
can create (`Climb`), or `DeleteTreeImpl` descends from it (`Descend`). The
reference that they are checked against splits a string at its separators and
spells the names anew (`Canonical`; `DirectoriesFrom` for the directories on the
way, `BelowShare` and `Outermost` for where they begin, `Marks` for their marker
files).

The loops of the code are recursive functions of the number of characters read
(`Output`, and in the reference `Names` and `Joined`): the value after each character is there to speak of,
and the theorems do.

### 2.5 NotificationDispatcher and RingBuffer

| Code | Actions |
|---|---|
| `ReceiveNotification`: `BytesFree` up to its comparison, then its subtraction, the check and the length prefix | `LookForRoom`; `RefuseNotification`, `AcceptNotification` |
| its loop: `WriteChunk` up to its comparison, then its subtraction, the bytes, at the end `Notify` | `LookForChunk`, `MeasureChunk`, `ReceiveChunk`, `ReceiveFails`, `Notify` |
| `Run` of the dispatcher, `Semaphore::acquire` | `Acquire` |
| loop over the samples, lookup, callback | `FindSample`, `CallBack`, `SkipSample`, `Cleanup` |
| `DispatcherListAdd`, `Emplace`, `Erase` | the same names |
| destructor: `stopExecution`, `Notify`, `join` | `Destroy`, `Join` |

A cell of the ring is a field (header of the stamps, header of a sample, a
unit of data), not a byte, and a notification has one stamp; the length, which is
written byte by byte, has two cells. Each pointer of the
ring is moved by one thread and read by the other, at the place where the code
loads it. `BytesFree` and `WriteChunk` load `read`, a plain member, once to compare
and once to subtract (`RingBuffer.h:16`, `:26`): `seen` is the first value, the
dispatcher may move the pointer before the second, and a difference below zero
is taken modulo `SizeSpace`. `torn` records that a notification was accepted by two
values between which the reader had wrapped (`Torn`); unread bytes are then
overwritten, and what either thread makes of them is not modelled: both stop.
`CreateNotifyMapping` has no caller in the library, so that the user
thread of the module is the caller the class is written for. The request that
`Erase` makes to the device is `AmsConnection`'s. A notification is the sequence of the
fields the device sends; `LaidOut`, an assumption, says that behind a sample's header
lies as much data as it announces, and behind that the next header.

The receiver measures a chunk, by two loads, before it waits for the bytes (`chunk`)
and stores them after it, by which time the reader may have moved: `ChunksFit` says
that this does no harm. The histories `stream` and `begin` are what the properties compare the ring with:
all fields received so far or on their way, one after the other, and where each
notification begins.

### 2.6 Frame and RemoteRoute

| Code | Actions |
|---|---|
| `InitRouting` of both backends, `AdsLiteGetDeviceNetId`, the choice of the local address among the adapters | `Call`, `UnknownHost`, `NoSocket` |
| `AddRemoteRoute`, `GetRemoteAddress` up to the write | `Send` |
| `SendRecv`: `select`, `read`, the checks of the answer, the tags | `SelectTimesOut`, `ReadFails`, `Receive` |
| `AddLocalRoute` | `AddLocalRoute` |
| `ShutdownRouting` | `ShutdownRouting` |
| the target's side (external) | `TellsNetId`, `EntersRoute`, `RefusesRoute` |

`Frame` has cells for fields. `prepend` moves the content into a longer buffer as
the code does, so that a frame that starts too small really grows.
Sockets are bound to ephemeral ports that are used again; a datagram goes to a
port, whoever holds it by then. `ShutdownRouting` calls `DelRoute`, which may leave
the route in place (section 5, item 3), so the action may, too. Requests and answers are sets that nothing is
taken out of: any of them may be lost, repeated and late.

### 2.7 AdsPorts and AdsLiteAPI

| Code | Actions |
|---|---|
| `State()` of `BackendSelector` | `Selected`, in the initial state: it runs once, in the initialisation of a function-local static |
| `OpenPort`, `ClosePort`, `Get/SetTimeout`, `Get/SetLocalAddress` through AdsLiteLib and either backend | `AdsLitePortOpen` … `AdsLiteSetLocalAddress`, of `AdsPorts` |
| `AdsLiteSyncReadReq` and the others, the asynchronous ones (which are the synchronous ones) | one action each |
| `ReadByName`, `WriteByName`, by handle | `GetSymbolHandle`, `AccessByHandle`, `ReleaseSymbolHandle` |
| `ReadPlatformId`, `ReadSystemId`, `Clear` | `ReadDeviceInfo`, `CopyId`, `ShutdownRouting` |
| `ListECatMasters` | `ReadDevCount`, `ReadDevIds`, `ReadDevType`, `ReadDevName`, `ReadDevNetId` |
| `StartProcess` | `StartProcess` |
| another client of the target (external) | `Reconfigure` |

`Begin` makes the checks of the arguments in the order of the code, of whichever
backend is selected. Each further action is a request: the target executes it and
answers, refuses it, or it times out with or without effect (`Outcomes`, at most
`MaxFaults` times). Names, payloads and encodings are abstracted: a symbol is a
name, a value tells which symbol it is of. The vendor's DLL is external: it opens
ports, checks them and carries requests. Shutting the routing down or adding a
route is one action here; its exchanges are `RemoteRoute`'s, and the route may stay
where `AmsRouter` keeps it. An answer that is not of the length `AdsECatService`
expects (lines 67, 133, 179) counts as one of the faults (`WrongLength`).

### 2.8 BroadcastDiscovery

| Code | Actions |
|---|---|
| checks of `DiscoverDevices` and `Discover`, `getaddrinfo` | `RefuseTarget`, `RefuseArray`, `ResolveFails` |
| targets (the address given, the broadcast of each adapter), `sendto` | `Send`, `SendFails` |
| the loop: `select` with the time left, `recvfrom`, parse, duplicates | `Receive`, `Tick` |
| end of the window, copy to the caller's array | `DeadlinePasses`, `SelectFails` |

A tag is a record with the form of its value (text, number, version), because the
parser decides by the form; the receive buffer keeps the tags of earlier, longer
replies, as the code's does. What a sequence of tags tells is the function `ReadTags`,
and `Said(p)` is the entry that a reply's own tags make. Addresses have `Width` bits. The network is external:
each device that was asked answers at any time, from any of its interfaces, any
number of times or never.

### 2.9 Faulty variants

The modules define operators such as `MatchesPort` or `KeepsListed` beside the
operator they are a mistaken form of: a compare that ignores the id, an erase that
forgets a list. No specification uses them. Each is listed in `PROJECT.json`
under `mutants` with a property that TLC finds violated when it takes the
place of the real one; that is how each property is known to be able to fail.

## 3. The runs

`tlc -config X.cfg M`, with the module given in `PROJECT.json`. Every run is
exhaustive within its bounds. `CHECK_DEADLOCK FALSE` throughout: callers have a
bounded number of calls, after which the system rightly stops.

| Run | Instance | Shows |
|---|---|---|
| `connection_threads` | 2 threads, 2 ports, one call each, payload ≤ 1, orderly faults; 1.1 M states | `SlotsExclusive`, `BufferOwned`, `OwnResult`, `UnsentNotReceived` |
| `connection_reuse` | 1 thread, 1 port, two calls over the same slot, buffer 2, payload ≤ 3, every fault but `short_body`; 0.9 M states | `OwnPayload`, `BufferNotOverrun`, `SettledOnce`, `InStepUnlessPayloadCut` |
| `connection_live` | 2 threads contending for 1 port, invoke ids 0..2 so that they wrap | `StopJoins`, and `KeepsFairPromise`: the connection implements `AmsRequestSpec` with its fairness |
| `router` | 2 threads, 2 calls each, 2 NetIds, 2 hosts, 3 connections; 0.47 M states | `RoutesLead`, `OwnedOnce`, `OneAttempt`, `EveryCallReturns` |
| `files` | 2 clients, one call each of: rename with a missing directory, delete a tree or its content, list with a buffer that fits exactly or is one short; beside create two levels of directories, open, delete a file or a part of the same tree; one request lost; 0.17 M states | `RenameKeepsContent`, `NoStrayMarker`, `DirCreateMakes`, `DirDeleteClears`, `DirDeleteStaysInside`, `ListComplete`, `HandlesClosed` |
| `paths` | every string of up to 7 characters of `C`, `:`, `/`, `\`, in both styles; 0.29 M states | `PathsAreCanonical`, `ClimbEnds` |
| `discovery` | 4 devices, two of them behind one address, 4 kinds of noise, 6 calls; 0.26 M states | `LoneDeviceOnce`, `OwnInfo`, `DiscoverReturns` |
| `notifications` | ring of 10 cells and the one that stays free, 3 notifications of 4 kinds, 3 calls of the user; 0.43 M states | `RingHoldsUnread`, `ChunksFit`, `DeliveredAsSent`, `SignalledIsDispatched`, `DispatcherJoins` |
| `routing` | 2 threads with a call each to one of two targets, which makes up to two exchanges, 2 ephemeral ports; 0.11 M states | `RequestWellFormed`, `AnsweredByTarget`, `ExchangesEnd` |
| `api` | 2 clients with sequences of 5 and 3 calls, 2 targets, 2 ports, 1 symbol handle, 3 environments, 1 fault; 0.69 M states | `OwnTimeout`, `OwnSymbol`, `HandlesReturned`, `CachedSinceClear`, `ListsOneConfiguration` |

Two more runs each check one property that a comment of the code states, and end in
a counterexample (section 5):

| Run | Instance | Finds violated |
|---|---|---|
| `connection_loss` | 1 thread, connections lost inside a reply | `EveryCallReturns` of `AmsConnection` |
| `connection_short_body` | 1 thread, replies without a response header | `BufferNotOverrun` |

Six further properties are stated where they belong and do not hold; section 5 says
what a document or an assertion promises, and how the code comes to break it. TLC
finds each counterexample within seconds when the property takes the place of those
of a run: `DeletedRouteIsGone` in `router`, `StopsBelowShare` in `paths`,
`EveryDeviceListed` in `discovery`, `WritesFit` in `notifications` with
`MaxMessages = 4`, `RoutedBothWays` in `routing`, `IdIsOfTarget` in `api`. What the
runs check instead, next to them, is what does hold.

### 3.1 Bounds, and why they are enough

* *Threads and ports 2.* A slot is shared by at most the receiver, its holder
  and contenders for it; two threads give a contender, two ports give a
  bystander whose slot must not be touched.
* *Calls.* Two calls in one slot are what a stale reply, a stale error code or a
  stale id needs; the second contention case is in `connection_threads` with two
  threads that take the same slot one after the other.
* *Payload and buffer.* A buffer of 2 with payloads up to 3 has the empty, the
  partial, the exactly full and the overlong reply; every one can be cut by a
  deadline or a loss.
* *`IdSpace`*: 8 is more than the ids given out, so nothing wraps; 3 in
  `connection_live` makes the counter pass 0. Wrapping while an old reply is still
  on its way needs 2^32 requests in between and is excluded (`NoWrap`, a hypothesis
  of the theorems that speak of ids).
* *`SizeSpace` 64* is more than any length there is, so that a number that has
  dropped below zero is larger than all of them.
* *`InitialIds` {0, 2}*: an empty slot, and one that holds by accident an id that
  will be used.
* *Router: `MaxConns` 3, `MaxCalls` 2.* Two NetIds with two hosts and two calls of each
  thread give share, break, reconnect while another shares or deletes, delete twice.
  When the bound on connections is reached an attempt can still fail, so no
  thread is stuck by it. `RefSpace` 8 is more than the number of times a count can be
  raised. That a count wraps below 0 takes more calls than these; the theorems
  are for any number of them, wrapping included.
* *Files.* The tree has a file, a directory and a directory in it that another client
  makes, which is one level below `MaxDepth` 1: the stack holds nodes of all kinds
  and the limit is met. Two blocks are a copy that can fail in the middle. One lost
  request is at any place of any call; the calls keep nothing between them that a
  second could add to. Handles are numbered from 2, so that the number 1, which
  `DirDelete` closes by mistake (section 5), is nobody's file; with 1 in use it
  would be.
* *Paths.* Seven characters hold a drive root, a share (`\\C\C`), a directory in
  either with doubled and trailing separators, and every wrong mixture of them.
* *Discovery.* Addresses of 4 bits with prefixes 1 and 2 give distinct broadcast
  addresses, one of which is the global one. The window is 1 or 2 ticks: a
  reply before, at and after a tick. `BufferTags` 3 is met by a reply of 4 tags.
  Two devices share an address, so that which of them is listed depends on the order.
  The caller's array has 0, 1, 2 and 5 entries: none, fewer and more than there are
  devices.
* *Notifications.* The longest notification takes 8 of the 10 cells that can be
  used, so that two do not fit together, chunks end at the array's end, and a full
  ring is met; three notifications are enough to wrap, and for the reader to wrap
  between two loads of its pointer. A full ring that is torn needs a fourth.
* *Routing.* Two threads, two targets and two ports give an answer of one exchange
  that arrives in another on the same port, of the same target and of the other.
  `FrameCells` 8 is less than the
  request that enters a route, so that its frame grows; the name of the route is one
  character too long.
* *API.* One symbol handle is given out again as soon as it is released, one fault
  can hit any request of any call, two ports let one client open the port the
  other has closed. The calls of each client are chosen so that they meet those of
  the other; the environments select either backend.
* Symmetry (threads and ports) is used in `connection_threads` only, for invariants: no
  action or invariant names one of them.

### 3.2 Fairness

`AmsConnection!Fairness`: every thread inside a call runs, its deadline passes,
and the receiver runs. These are threads the operating system schedules, and
time. Callers owe no further call; the peer and the network owe nothing.
`AmsRouter!FairSpec`: threads inside the router run. This includes that a
request returns, which is what `AmsRequestSpec` promises (and what
`connection_loss` shows is not kept when a connection is lost inside a reply), and
that connecting ends, which `Sockets.cpp:101` bounds by six seconds. Weak
fairness of a whole thread is enough: at each label but one, one of its actions
stays enabled until it moves. Where a thread awaits connection attempts, others may
begin new ones again and again, and `notify_all` promises a waiter no turn; but they
make `MaxCalls` calls each, after which only a mark that is never cleared could
hold it.

`BroadcastDiscovery!Fairness`: time passes, and the thread runs when `select` has
waited to the deadline; no datagram owes to come or to stop coming.
`NotificationDispatcher!FairSpec`: the dispatcher's thread runs, which includes that
callbacks return; the receiver that has written a notification signals it; the
destructor's join ends when the thread has. The peer owes no data.
`RemoteRoute!FairSpec`: threads inside an exchange run, and `select` returns after
its time; the target owes no answer.

## 4. What is proved

TLAPS proves the following for every value of the constants: any number of threads,
ports, NetIds, hosts, connections, clients, targets, devices, calls and failing
requests, and any sizes. The assumptions on the constants are `ConstantsAssumption`,
`RouterAssumption`, `PortAssumption`, `APIAssumption`, `DiscoveryAssumption`,
`RouteAssumption`, `PathAssumption`, `ServerAssumption`, and `CallsAssumption` of the API and of the file service. They type
the constants (and say, for instance, that with a path the paths above it belong to the
model, that what is on the drive at the start lies in directories, and that a call names
a function and a target); TLC evaluates each in the run of
its module. A theorem that needs more says so in its statement, and the table in its
last column.

| Theorem | Property | Hypotheses |
|---|---|---|
| *AmsConnectionProofs* | | |
| `TypeCorrect` | – (`TypeOK`, with `PortKnown` and `ReceiverShape`) | whole bodies |
| `SlotsAreExclusive` | `SlotsExclusive` | whole bodies |
| `BuffersAreOwned` | `BufferOwned`, with `FreshErrorCode` | whole bodies, whole sends, `NoWrap` |
| `UnsentIsNotReceived` | `UnsentNotReceived` | whole bodies, whole sends |
| `ResultsAreOwn` | `OwnResult` | whole bodies, whole sends, `NoWrap` |
| `PromiseIsKept` | `KeepsPromise`: the connection implements `AmsRequestSpec` | whole bodies, whole sends, `NoWrap` |
| `RequestsSettleOnce` | `SettledOnce` | whole bodies, whole sends, `NoWrap` |
| `StepsStayInStep` | `InStepUnlessPayloadCut` | whole bodies |
| `PayloadsAreOwn` | `OwnPayload`, `BufferNotOverrun` | whole bodies, whole sends, `NoWrap` |
| *AmsRouterProofs* | | |
| `RouterTypeCorrect` | – (`TypeOK`) | – |
| `RoutesLeadToConnections` | `RoutesLead` | – |
| `ConnectionsOwnedOnce` | `OwnedOnce` | – |
| `OneAttemptEach` | `OneAttempt` | – |
| `RoutesReachTheirHosts` | – (`RouteReachesHost`) | – |
| *AdsLiteAPIProofs* | | |
| `PortsAreOwn` | `OwnTimeout` | – |
| `NamesReachTheirSymbols` | `OwnSymbol` | – |
| `HandlesHaveOwners` | `HandlesReturned` | – |
| `IdsEndWithTheRouting` | `CachedSinceClear` | – |
| `ListsAreOfOneTable` | `ListsOneConfiguration` | – |
| *RemoteRouteProofs* | | |
| `RoutesInvariant` | – (`RouteInv`) | – |
| `RequestsAreWellFormed` | `RequestWellFormed` | – |
| `LocalRoutesAreAnswered` | – (`LocalRoutesInv`, for any number of targets) | – |
| `AnswersAreOfTarget` | `AnsweredByTarget` | – (any number of targets) |
| *BroadcastDiscoveryProofs* | | |
| `LoneDevicesAreListedOnce` | `LoneDeviceOnce` | – |
| `EntriesAreOwn` | `OwnInfo` | – |
| *AdsFileServiceProofs* | | |
| `FileInvariant` | `FileInv` | `FlagsAreNoHandle` |
| `HandlesAreClosed` | `HandlesClosed` | `FlagsAreNoHandle` |
| `DeletionStaysInside` | `DirDeleteStaysInside` | `FlagsAreNoHandle` |
| `DriveStaysTree` | – (`DriveInv`, what is there lies in directories) | `FlagsAreNoHandle` |
| `DirsAreMade` | `DirCreateMakes` | `FlagsAreNoHandle` |
| `ListsAreComplete` | `ListComplete` | `FlagsAreNoHandle` |
| `TreesAreCleared` | `DirDeleteClears` | `FlagsAreNoHandle` |
| `FilesAreKept` | `RenameKeepsContent` | `FlagsAreNoHandle`, `RenamesApart` |
| `MarkersAreDeleted` | `NoStrayMarker` | `FlagsAreNoHandle`, `MarkersApart` |
| *TargetPathsProofs* | | |
| `PathsInvariant` | – (`PathInv`) | – |
| `OneSpelling` | `PathsAreCanonical` | – |
| `ClimbInvariant` | – (`ClimbInv`) | – |
| `ClimbPassesAll` | `ClimbEnds` | – |
| *NotificationDispatcherProofs* | | |
| `TypesKept` | – (`TypeInv`) | until `torn` |
| `RingIsExact` | `RingHoldsUnread` | until `torn`, as the property says |
| `ChunksStayInside` | `ChunksFit` | until `torn`, as the property says |
| `CallbacksInOrder` | `DeliveredAsSent` | until `torn`, as the property says |

*Whole bodies*: `WholeBodies`, a reply without error has its response header. Without
it nothing is claimed: what the receiver writes then lies outside every variable of
the model (section 5, item 2). *Whole sends*: `"torn_write" \notin Faults`. *`NoWrap`*: the invoke ids do not wrap,
`[][NoWrap]_nextId`. The hypotheses on files are explained below; each holds of the
constants of the run `files`.

### 4.1 The connection

**`TypeOK`** is proved for all constants and takes no run of its own.

**`SlotsExclusive`** is inductive together with the types: a thread is between
`Reserve` and `Release` exactly when the slot points to it.

**`BufferOwned`** is not inductive: it says nothing of the moment before, when
the receiver matches a reply by its id. What has to be excluded is that a reply
matches an id that is in the slot for another reason. `OwnershipInv` says where ids
can come from: invoke ids name requests, since each is given out once and the
peer uses only ids of requests it received (`IdsUnique`); an id in a slot is that of
its holder while it writes or waits, or was left behind by a failed write and
is known to nobody else, or is what the memory held in a slot never used
(`SlotIds`); and a slot the receiver has taken has id 0 and no error code yet
(`SlotUnsettled`). So a reply that matches finds its holder (lemma
`PendingIsCurrent`), and the holder cannot leave `Wait`, because only the
receiver's `Notify` ends its untimed half. The two hypotheses are needed: a frame
cut by `send` is completed later by other bytes, so that a request "left behind"
is received after all (section 5); and ids name requests only until the counter
wraps.

**`UnsentNotReceived`** follows a call up to its frame (`UnsentInv`): the peer has no
request of a call that has not written, and no thread but its own says of a call that it
was not sent. Ids play no part, so wrapping does not matter; a frame completed by other
bytes does.

**`OwnResult`** needs what the receiver knows of the frame it holds: ids and tags go
together (`IdsName`), so that every header on the wire and in the receiver's hands is the
peer's answer to the request it names (`FrameInv`), and what is stored in a slot is
justified by an answer to its holder or by its holder's deadline (`Attributed`). From
this, `OwnershipInv` and `UnsentInv` follow `OwnResult`, `SettledOnce`, and step by step
the **refinement**: every step of `AmsConnection` is, under the mapping that `KeepsPromise`
instantiates, a step of `AmsRequestSpec` or changes nothing of it.

**`InStepUnlessPayloadCut`** says that the receiver reads a header where the peer wrote
one. Its invariant (`StreamInv`) describes the wire as a sequence with no help of
recursion: behind each header lie as many units of its body as its length says, or as
many as the peer has sent so far while the rest is still to come (`Framed`), and behind
the receiver lies the rest of the frame it is in (`InFrame`). This needs whole bodies and
nothing else: every other fault of the model keeps the stream framed or ends it. Its
exception is a deadline that passes inside a payload (section 5, item 14).

**`OwnPayload`, `BufferNotOverrun`**: with both, a buffer is empty until its call is
matched and holds from then on just what has been read of that call's body
(`BuffersFilled`). The subtraction of the response header, modulo `SizeSpace` in the
model, is an ordinary one because a whole body is not shorter than its header.

### 4.2 The router

Its safety properties are inductive only together (`RouterInv`), with one addition,
`Numbered`: live connections have numbers up to the number made, so that a new
connection is nobody's old one. `RoutesLead` needs `OwnedOnce` (a thread that erases a
route takes the connection out of the list only if no other NetId leads to it),
`OneAttempt` keeps two threads from connecting for one NetId, and `RouteReachesHost`
relies on a connection's host never changing.

### 4.3 The API

Over a common invariant, which says at which stage a call can be and what a target holds
(`CommonInv`), each property has its own. `PortInv`: a port that is not open waits as
long as a new one, because `Close` resets it. `SymbolInv`: every open handle has just one
owner, a client that holds it or a call by name that is in progress, or was lost; the
handle of a call by name is of the symbol that was named, which no release by another can
change. `CacheInv`: the calls for ids that are under way are among those asked since the
cache was cleared. `ListInv`: what a listing has at each stage is of tables it saw; the
count and the ids may be of two, which is why the property speaks of a table with that
count and of one with those ids. The choice of the least free port is treated with the
library's theorem on least elements (`WFMin`); an induction over data is not needed.

### 4.4 Discovery

`DiscoveryInv`: each entry is made of one reply that was heard and whose tags had all
arrived; each reply heard has an entry or stands behind one of the same NetId or address;
two entries differ in both. `LoneDeviceOnce` follows: where nobody shares its address, an
entry with a device's address is one with its NetId. `OwnInfo` rests on the number of tags that the code compares
with what `recvfrom` returned, since the buffer holds more.

### 4.5 Files

`FileInv` says, for each client: at which stage its call is (`StageInv`); that the handles
it will use there are open, its own, and of the file it takes them for (`UseInv`); that
the user's handles are of earlier calls (`HeldInv`); that a call that has not failed holds
every handle it was given and did not close (`LeakInv`); that the nodes on the stack of
`DeleteTree` lie in the tree (`WalkInv`). A step of one client leaves calls and handles of
others alone (`Frame`), so the proof is one per action, for the client that acts.
`HandlesClosed` and `DirDeleteStaysInside` follow from it. `FlagsAreNoHandle` says that 1,
the value of the find flags, is not a handle number of the service: an enumeration that
finds nothing closes number 1, which it was never given (section 5, item 13); if it were
in use it would be somebody's handle, and the theorems would be false.

`DirCreateMakes`, `ListComplete` and `DirDeleteClears` say what a call has done while
others work on the same drive. Their proofs start from `DriveStaysTree`, and from what a
call knows of a path: it is what the call found there, or another client has `touched` it
since (`Known`), which no step of another can make false (`OthersLeaveKnown`). Each
property then has an invariant that says of every path either that the goal is reached or
where in the call its turn comes. `MakeInv`: a directory of the path is there or its marker
is still to be opened. `NameInv`: an entry is named or left in the enumeration, and what
was counted fits exactly as long as every name was copied, because offset and required
size then differ by the final 0. `ClearInv`: what is in the directory is gone or awaited,
below a directory on the stack, among the entries left, or as the entry in hand
(`Awaited`); and an entry about to be deleted as a file is not a directory, so that
"not found" means it is gone. No induction over the depth of the tree is needed: a node
awaits all that is below it, and expanding it hands this over to its entries, since what
is below a directory is below something in it (`ChildAbove`).

`RenameKeepsContent` adds `CopyInv`: the source is what it was when the call began, the
target holds the blocks written so far in order, and all of them when the source is about to
be deleted. Here a failing request with effect matters: one that read or wrote before it
failed has moved a position, but its error ends the copy. `RenamesApart` says that no other
client writes or deletes either file, that neither is a marker, and that they are two: a
rename to itself under another spelling is the defect of section 5, item 12.

`NoStrayMarker` adds `MarkInv`, for as long as no request has failed: a marker that is open
is held by a client that will close it next, and a marker file is one that some client is
about to delete, be it the one that made it or another that creates the same directory.
`MarkersApart` says that callers do not open or rename files with the marker's name.

### 4.6 Notifications

The theorems are about a ring of any size and any notifications that are laid out as they
say, up to the moment at which a notification is accepted by two values of the read
pointer that do not belong together (`torn`). The inductive invariant (`Safe`) says of a
state after it only that the receiver has come no further, and of all others `IInv`. None of the three properties is inductive: that the reader finds a length at its
place, and that it ends where the next notification begins, depends on all that was
written before. `IInv` consists of: `StreamInv`, the stream is the notifications' records one
behind the other; `ReceiverInv`, only the last one may be incomplete, and the chunk ends
with the array at the latest; `CountInv`, the semaphore counts just the notifications that
are whole and not begun, so that a reader that is woken finds a whole one, with one count
more once the destructor has run; `RingInv`, the ring holds the stream from what is taken
to what is written, and the rest of the stream has room in it; `SeenInv`, what the
receiver has loaded of the read pointer is where the reader was before it moved on, and
what is awaited had room already then; `ParserInv`, the reader
stands at a sample's header or behind one, with as many samples before it as it counts;
`DeliveredInv`, what was delivered lies before that place. `ChunksFit` follows since the
reader only ever frees cells, and whatever is still awaited had room when it was accepted.

`WriteChunk` and `BytesFree` have the same two loads, but not the same fate. When the
reader wraps between the two loads of `WriteChunk`, the chunk is a huge number, too; but
what is received is the smaller of it and the bytes left, and these had room in front of
the reader as it was loaded first, which was beyond the write pointer and so in one piece
before the array's end (`SeenInv`). There the torn read is harmless, and `ChunksStayInside`
proves it with the loads apart. `BytesFree` has nothing to stand on: it is what the room
is known from.

The lemmas on the ring say what one round of it means: the distance of the pointers gives
the number of cells held (`Counts`), what is stored at the write pointer comes last
(`Writes`), what is read leaves at the front (`Reads`). The modulus is replaced by a case
distinction once (`Wraps`), since no pointer moves by a round or more.

### 4.7 Routing

**What a frame holds.** A frame is a buffer, a position and two sizes; what it holds is
`Cells(f)`, the buffer from the position on. `Prepends` says of `prepend` alone that the new cells stand in front
of the old ones, whether the buffer has room, grows by half or moves to one of another
size; everything else about frames on the way out is a use of it. A tag is written by its
last field first, so that `PrependUdpTag` puts identifier, length and text in front, or nothing
(`Written`); five of them under the header, in one order of concatenation as the code builds them and
in the other as the property reads them, are the same sequence (`FromTheRight`, `FromTheLeft`).
`tagCount` counts the tags that fit, which are those that were written. Each of this is a
statement about at most five tags, so that no induction over the number of tags is needed.
On the way in, `Holds(f, cells)` says that the frame starts with these cells, whatever stands behind them
in a buffer longer than the answer; the pops of the header and of the
tags are followed through it for the two layouts a target can send.

**`RouteInv`** is inductive. It says that every request is one of the two that are built here, for the
target it goes to (`RequestsInv`); that every answer is of a target that was asked from the port it goes
to, and is its NetId, a refusal, or an acceptance after it has entered the way back (`AnswersInv`); and at
which step of its exchange each thread is (`ThreadsInv`): it holds a NetId only if a target has
told it, and it comes to `AddLocalRoute` only if a target has entered the way back. The
last needs what the answers hold, cell by cell: that no refusal, no other tag, no
answer of the other service and no field behind the end of an answer is read as the result 0.

**Whose answer.** That the route bears the NetId of *its* target and that *this* one has the way back
(`RoutedBothWays`) does not hold: an exchange that gets the ephemeral port of an earlier one accepts that
one's late answer, since `SendRecv` looks neither at the sender nor at an identity of the request
(`AdsLiteLib.cpp:94`; section 5, item 7). Two things remain, for any number of targets. `AnsweredByTarget`,
an action property: in an exchange from whose port no other target was ever asked (`AskedOnly`), the NetId that is
taken is that of the target, and the step to `AddLocalRoute` is made only when that target has the way back. It
follows from `AnswersInv`, since an answer on that port is of a target that was asked from it. And `LocalRoutesInv`, without
any condition: *some* target has told the NetId of a local route and *some* target has entered the way back.

`RouteAssumption` says that a target has a NetId of its own (not `None`), that an answer fits into
the response frame (11 cells for 4096 bytes), and that a refusal is not the code for success.

### 4.8 Paths

The theorems are about every string, of any length over any alphabet that has the two separators, and
both styles. The run has strings of up to seven characters.

**Loops without an induction theorem.** The library's induction theorems take an operator and cannot be
used, so that both recursion and induction are derived from one lemma, that every set of positions has a
least one (`HasFirst`): a recursive function exists because there is no least position up to which there is none
(`Iteration`), and what holds at the first position and is kept by each step holds at all (`UpTo`). With
`Iteration`, each loop has its step as a fact (`OutputSteps`, `NamesSteps`, `JoinedSteps`).

**One spelling.** After each character the loop of `NormalizePathForStyle` has put out what is in front, the names
among the characters read with a separator between each two, and a separator if the last character was one and there
is a name (`OutputShape`). The loop at the end takes that separator away, but for the root of a drive
(`TrimmedOnce`, `KeptIsDrive`); what is left is `Canonical`. A text is `Normal` if its separators are those of
the style, stand alone but for the two of a share, and do not end it but for a root: what comes out is
normal, a normal text goes through unchanged (`NormalKept`), and children and parents of normal texts are normal
(`ChildNormal`, `ParentNormal`). `PathInv` says that the path of a call always is. So a path that
is put together on the way and goes to the target without being normalized again is the one spelling, too.

**The climb.** `ParentOfDirectory` computes the parent of the directory of the first *n* names: it is the directory of
the first *n* - 1, up to the outermost one, which is the first, or the second in a share; above that is the
root, if it is a lone separator, or nothing. It needs where the last separator is, that of the characters in front of it none
is a root by accident (`DriveText`, `NameIsNoRoot`), and where a share's first two separators are
(`ShareBelow`). `ClimbInv` is inductive: the climb is at one of these directories, and the markers are those of the
directories below it. Its last step is at the outermost, where the markers are all of `DirectoriesFrom` the outermost
and no other; the outermost is the root of a share, for a path below one, and otherwise the first directory.

`PathAssumption` says that no letter is a separator or the colon, and that the name of an entry on the target is not empty and
has no separator in it, which is all the code relies on when it puts such a name behind a path.

### 4.9 Model-checked only

* *Liveness*: `StopJoins`, `EveryCallReturns`, `DiscoverReturns`, `SignalledIsDispatched`, `DispatcherJoins`,
  `ExchangesEnd`, and `KeepsFairPromise`, the refinement with fairness. The prover handles neither ENABLED nor fairness.
* `AdsFileService` takes a path as the sequence of its names, of which `ServerAssumption` asks that those above
  a path are paths; that the strings behave like that is 4.8, but the two modules are not composed.

Every safety property that a passing run checks, invariant or action property, is a theorem.

## 5. What the models found

Two disagreements have a run:

1. **A lost connection hangs a caller** (`connection_loss`). Once the receiver
   has consumed the invoke id, `Wait` has no deadline (`AmsConnection.cpp:36`). If
   the connection is lost before the rest of the reply is there, `Receive` throws
   an error other than `TimeoutEx`, nothing notifies the slot and the
   receiver ends: the caller waits for ever, although `AmsConnection.h:54`
   promises a response or a timeout.
2. **A reply that is too short overruns the caller's buffer**
   (`connection_short_body`). A comment says "We already checked bytesLeft <=
   request->bufferLength" (`AmsConnection.cpp:388`); line 364 checks it from above
   only. If the body of a reply without error is shorter than the response header,
   `bytesLeft -= sizeof(header)` drops below zero (line 380), and line 381 reads
   that many bytes from the stream into the buffer.

Six properties that a document or an assertion promises are stated in the modules and
do not hold (section 3 says how to see each):

3. **A deleted route stays** (`DeletedRouteIsGone`). `AdsLiteAPI.h:151` says that
   `AdsLiteShutdownRouting` removes the entry of the local routing table. `DelRoute`
   erases it only when the `refCount` of the connection drops to 0
   (`AmsRouter.cpp:157`): *add A, add B at the same host, delete A* leaves the route of A,
   without the host that a reconnect would need. Deleting A once more brings the count to
   0, while B is routed; deleting B then wraps it below 0. A route that was added twice
   stays, too.
4. **The climb of `DirCreate` does not stop below a share's root** (`StopsBelowShare`),
   as the comment at `backend/AdsFileService.cpp:155` says: the parent of `\\C\C\C` is
   `\\C\C`, and only that has none. Its marker is created and deleted there.
   `ClimbEnds` demands the directories below the share, and allows its root and no other.
5. **A device behind the address of another is dropped** (`EveryDeviceListed`).
   `AdsLiteAPI.h:59` and the repository's `README.md:116` say that all responding devices
   are collected, and a comment (`backend/BroadcastDiscovery.cpp:541`) compares
   addresses only where NetIds cannot be compared. `IsDuplicateDevice` drops a reply if
   either is known: of two devices behind one router only the one that answers first is
   listed. `LoneDeviceOnce` says what does hold: none twice, and none missing that
   shares no address.
6. **A torn read of the ring's read pointer overwrites what is unread** (`WritesFit`).
   `RingBuffer.h:31` asserts that there is room for what is written. `BytesFree` loads the
   plain member `read` to compare it with `write` and again to subtract (line 16): *the
   receiver compares while the reader is ahead of it in the array; the dispatcher wraps;
   the receiver subtracts*. `read - write - 1` drops below zero, the ring seems empty, and the
   length prefix is written over unread bytes. In `WriteChunk` the same two loads do no
   harm (4.6).
7. **A late answer of another target passes** (`RoutedBothWays`). `AdsLiteAPI.h:113`
   names the steps of `AdsLiteInitRouting`: the NetId of the target, the local and the
   remote routing table. Cookie and invoke id are the same in every exchange and the
   sender is not looked at (`AdsLiteLib.cpp:94`): *an exchange with one target times out; its
   port is given to an exchange with another; the first target answers.* The local route then
   bears the NetId of the wrong target, or has no way back.
8. **The cached ids have no key** (`IdIsOfTarget`). `AdsLiteAPI.h:80` promises the platform
   id "of the target device" at `pAddr`; the cache is filled by the first target asked and
   returned for every other until the routing is shut down
   (`backend/TargetSystemInfo.cpp:44`).

The following were found by runs that have given way to other components; the
models still contain them.

9. **A cut frame leaves its id in the slot.** After a short `send` the slot is
   released with the id stored (`AmsConnection.cpp:142-147`). The next request's
   bytes complete the frame for the peer, whose answer then matches a slot without
   a request (a null pointer is dereferenced) or with another one; and a request that
   was reported as unsent, and repeated by the router, is executed after all.
10. **A connection is destroyed while in use**: the pointer `GetConnection` returns
    is used without the mutex (`AmsRouter.cpp:184`).
11. **A retry uses the broken connection again** when another NetId still shares it
    (`AmsRouter.cpp:104`); and when two threads have connected to one host for two
    NetIds at once, adding the later route again moves it to the earlier connection
    (line 107) and leaves the later one with a count of 1 and no route to it.
12. **A rename to another spelling of the same path deletes the file.** The comment
    on normalisation (`backend/AdsFileService.cpp:88`) says that spellings shall make
    no difference; `FileRename` compares them as given (line 716), opens the one file
    to read and then to write, which empties it, and deletes it after copying
    nothing. Whether the second open succeeds is up to the file service.
13. **Deleting a missing directory closes a handle that was never obtained and
    returns its error**, although `AdsLiteAPI.h:458` promises success: the entry's
    handle still holds the find flags (`backend/AdsFileService.cpp:921`). The test
    program accepts the resulting `ADSERR_DEVICE_INVALIDOFFSET`
    (`example/main_file.cpp:152`).
14. **A deadline inside a payload puts the receiver out of step.** *The response header and
    a part of the payload have been read; the deadline passes; the rest arrives.*
    `ReceiveJunk(bytesLeft)` skips as many bytes as the whole payload has
    (`AmsConnection.cpp:399`), those that had been read included, so that it takes the next
    frame's header for junk. `InStepUnlessPayloadCut` excepts this case and no other: no
    document says more, and the calls that follow time out.

Met while writing the models, with no property:

* *Router.* A reconnect that fails throws out of a read that promises a code
  (`AmsRouter.cpp:140`, `AdsLiteLib.cpp:192`, `AdsLiteAPI.h:256`), and leaves no
  mapping, so that later requests do not try again. A NetId that moves to another
  connection can leave its earlier one in the list with no route. A reconnect can
  enter a route again that was deleted meanwhile. -1 for a port in use makes the
  router drop a healthy connection. `AmsRouter.cpp:190` indexes the ports before
  the range is checked.
* *Ports and API.* `ClosePort`, `SetTimeout` and `GetTimeout` do not look whether the
  port is open, although the API names `PORTNOTOPEN` for that; a timeout set on a
  closed port stays for its next opener. `ReadState` and `WriteControl` of
  `StandaloneBackend` (lines 218, 229, 235) use the address before AdsLiteLib checks it
  for null, where the model answers with the error; `TwinCATBackend` checks first. A
  read of no bytes into a null buffer is refused by
  one backend and accepted by the other. An id
  read while the routing is shut down is cached afterwards; the check of the
  cache and the copy from it are two loads, so that a clear between them gives the
  unknown id with success. The number of bytes read for an id is not checked.
* *Routing.* With the standalone backend `InitRouting` of a host *name* always fails,
  since `inet_addr` takes numerals only. `ShutdownRouting` is documented to tell the
  remote side; the code deletes the local route. When `AddLocalRoute` fails, the
  remote route stays. The result of the write of a request is not looked at; the
  answer then never comes. `Frame::pop` is documented to return a
  default if the frame is too short (`Frame.h:64`), but it compares with the
  capacity.
* *Discovery.* A platform id of 40, 50, 60 or 100 in tag 4 is printable and is taken
  for a text; the platform id 100 passes for a build number in tag 20, and a build
  number there replaces the platform id that tag 4 has told. Errors of `select` end
  the window early. After a refused argument `*pBytesRequired` is computed from whatever
  `*pDeviceCount` held.
* *Notifications.* `CreateNotifyMapping` has no caller, so that the first notification
  ends the receiver, while callers see only timeouts; a callback may run after the
  `Erase` of its handle has returned.
* *ECat.* The type, name and NetId of a master may be of a later configuration than its
  id, and the ids of a later one than their count.
* *Files.* Calls that fail can leave handles open at the target: that of an enumeration
  when `DeleteTree` cannot delete a file in it (`backend/AdsFileService.cpp:1101`), and any
  that a request to close has failed for, which is not repeated. `HandlesClosed` is about
  calls that succeed.

## 6. Plan

The components are modelled. What is left:

1. `AmsPort` with notifications, composed with `NotificationDispatcher`, as soon as the
   library registers any.
2. `FileRead` and `FileWrite` of the user between the requests of other calls.

## 7. Not modelled, and why

`FileRead`, `FileWrite` and `FileOpen` with other flags than those of a rename for the
user, which are single requests without state; `AddNotification` and
`DelNotification` of `AmsPort`, which nothing calls; what the vendor's DLL does behind
`TwinCATBackend`; the system calls of `Sockets` and the operating system queries of
`NetworkUtils`, beyond what they may return; logging; message layouts and
endianness (data without control); timing beyond "the deadline has passed"; the C++
memory model (atomics are sequentially consistent by default in the code, and the
plain fields are listed as hazards); the examples.
