--------------------------- MODULE AmsConnection ---------------------------
(***************************************************************************)
(* One AmsConnection (standalone/AmsConnection.cpp): application threads   *)
(* send AMS requests over one TCP socket and wait, each in the slot of its *)
(* AMS port (queue[port - PORT_BASE]); one receiver thread reads the reply *)
(* stream and completes the slots.  The slots, their two atomics and the   *)
(* condition variable are the whole synchronisation between them.          *)
(*                                                                         *)
(* Bytes are grouped into units: the TCP and AoE headers of a frame are    *)
(* one unit, the response header of a body is one, the payload any number. *)
(***************************************************************************)
EXTENDS Integers, Sequences, FiniteSets

CONSTANTS
    Threads,       \* application threads inside the library
    NoThread,      \* the null AmsRequest pointer
    Ports,         \* open AMS ports
    NoPort,
    IdSpace,       \* number of invoke ids: 2^32 in the code
    InitialIds,    \* bound: what a slot's memory may hold before it is used
    MaxRequests,   \* bound: AdsRequest calls per thread
    BufferLength,  \* capacity of a caller's buffer, in units
    MaxPayload,    \* bound: payload units of a reply
    SizeSpace,     \* number of values of a size_t, 2^64 bytes in the code
    Faults         \* which faults of the peer and of the network may happen

AllFaults == {"hangup",           \* the peer closes between two frames
              "hangup_mid_frame", \* the connection is lost anywhere
              "unsent_write",     \* send() fails and sends nothing
              "torn_write",       \* send() sends a part of the frame
              "unknown_command",  \* a reply with a command id not handled
              "short_frame",      \* a TCP frame too short for an AoE header
              "short_body",       \* a reply without error and without a body
              "notification"}     \* a notification nobody subscribed to

ASSUME ConstantsAssumption ==
    /\ NoThread \notin Threads
    /\ NoPort \notin Ports
    /\ IdSpace \in Nat \ {0, 1}
    /\ InitialIds \subseteq 0 .. IdSpace - 1
    /\ MaxRequests \in Nat
    /\ BufferLength \in Nat
    /\ MaxPayload \in Nat
    /\ SizeSpace \in Nat /\ SizeSpace > MaxPayload + 1
    /\ Faults \subseteq AllFaults

VARIABLES
    \* the queue of response slots, one per port
    request,    \* AmsResponse::request, as the thread whose request it is
    invokeId,   \* AmsResponse::invokeId, 0 once consumed
    errorCode,  \* AmsResponse::errorCode
    nextId,     \* AmsConnection::invokeId
    \* the application threads
    pc,         \* where thread t is in AdsRequest
    port,       \* port of the current request of t
    callId,     \* its invoke id
    calls,      \* number of the current request of t
    expired,    \* its deadline has passed
    buffer,     \* content of its user buffer
    result,     \* what the last AdsRequest of t returned
    \* the receiver thread
    rxpc,       \* where it is in Recv
    frame,      \* header of the frame it reads
    slot,       \* slot it completes
    owner,      \* request pointer it loaded from that slot
    bytesLeft,  \* bytesLeft of ReceiveFrame or ReceiveJunk
    got,        \* units of the payload read so far
    stopping,   \* AmsConnection::stopping
    \* the socket and the peer
    link,       \* "up" or "down"
    wire,       \* units on their way to the client
    sending,    \* body of the frame the peer is in the middle of sending
    asked,      \* requests the peer has received
    torn,       \* request whose frame was cut short by send()
    answers     \* answers the peer has given

slotVars == <<request, invokeId, errorCode>>
callVars == <<port, callId, calls, expired>>
threadVars == <<pc, callVars, result>>
rxVars == <<rxpc, frame, slot, owner, bytesLeft, got>>
peerVars == <<wire, sending, asked, torn, answers>>
socketVars == <<stopping, link, peerVars>>
farVars == <<rxVars, socketVars>>
clientVars == <<slotVars, nextId, threadVars, buffer>>
vars == <<slotVars, nextId, threadVars, buffer, rxVars, stopping, link, peerVars>>

-----------------------------------------------------------------------------
Tags == Threads \X (0 .. MaxRequests)
NoTag == <<NoThread, 0>>

InvokeIds == 0 .. IdSpace - 1

\* A request as the peer sees it, and the peer's answer to it.
Requests == [id : InvokeIds, port : Ports, tag : Tags]
NoRequest == [id |-> 0, port |-> NoPort, tag |-> NoTag]
AnswerKinds == {"ok", "aoe", "unknown"}
Answers == [kind : AnswerKinds, tag : Tags, size : 0 .. MaxPayload]

\* A peer that keeps the protocol starts the body of a reply without error
\* with its response header.
WholeBodies == "short_body" \notin Faults

\* Units on the wire: the headers of a reply, of another frame, or body data.
\* len is what the header says of the body that follows.
Heads == {h \in [kind : AnswerKinds, id : InvokeIds, port : Ports, tag : Tags,
                 len : 0 .. MaxPayload + 1] :
             WholeBodies /\ h.kind = "ok" => h.len > 0}
AlienHeads == [kind : {"short", "notification"}, len : 0 .. 1]
Data == [kind : {"data"}, tag : Tags \cup {NoTag}]
Units == Heads \cup AlienHeads \cup Data

NoFrame == [kind |-> "none", len |-> 0]

\* Values of errorCode and results of AdsRequest.  Each names the request it
\* is about, which the program does not store: it is what the checks compare.
Codes == {"RESULT", "AOE_ERROR", "INVALIDSIZE", "SYNCRESINVALID",
          "SYNCTIMEOUT", "SEND_FAILED", "PORTNOTOPEN"}
Results == [code : Codes, tag : Tags, size : 0 .. MaxPayload]
WaitingForResponse == [code |-> "WAITING_FOR_RESPONSE", tag |-> NoTag, size |-> 0]
NoResult == [code |-> "none", tag |-> <<>>, size |-> 0]

Tag(t) == <<t, calls[t]>>
Local(code, tag) == [code |-> code, tag |-> tag, size |-> 0]

\* The constructor of AmsResponse does not initialize its invokeId.
Init ==
    /\ request = [p \in Ports |-> NoThread]
    /\ invokeId \in [Ports -> InitialIds]
    /\ errorCode = [p \in Ports |-> WaitingForResponse]
    /\ nextId = 0
    /\ pc = [t \in Threads |-> "idle"]
    /\ port = [t \in Threads |-> NoPort]
    /\ callId = [t \in Threads |-> 0]
    /\ calls = [t \in Threads |-> 0]
    /\ expired = [t \in Threads |-> FALSE]
    /\ buffer = [t \in Threads |-> <<>>]
    /\ result = [t \in Threads |-> NoResult]
    /\ rxpc = "header"
    /\ frame = NoFrame
    /\ slot = NoPort
    /\ owner = NoThread
    /\ bytesLeft = 0
    /\ got = 0
    /\ stopping = FALSE
    /\ link = "up"
    /\ wire = <<>>
    /\ sending = [tag |-> NoTag, left |-> 0]
    /\ asked = {}
    /\ torn = NoRequest
    /\ answers = {}

-----------------------------------------------------------------------------
(* AdsRequest, on an application thread. *)

Goto(t, label) == pc' = [pc EXCEPT ![t] = label]
Return(t, r) == Goto(t, "idle") /\ result' = [result EXCEPT ![t] = r]

\* A call begins; its buffer belongs to the library until it returns.
AdsRequest(t, p) ==
    /\ pc[t] = "idle"
    /\ calls[t] < MaxRequests
    /\ ~stopping
    /\ port' = [port EXCEPT ![t] = p]
    /\ calls' = [calls EXCEPT ![t] = @ + 1]
    /\ expired' = [expired EXCEPT ![t] = FALSE]
    /\ buffer' = [buffer EXCEPT ![t] = <<>>]
    /\ result' = [result EXCEPT ![t] = NoResult]
    /\ Goto(t, "local_address")
    /\ UNCHANGED <<slotVars, nextId, callId, farVars>>

\* The router knows the port, and the deadline is set.
GetLocalAddress(t) ==
    /\ pc[t] = "local_address"
    /\ Goto(t, "invoke_id")
    /\ UNCHANGED <<slotVars, nextId, callVars, buffer, result, farVars>>

\* The port is not open in the router.
PortNotOpen(t) ==
    /\ pc[t] = "local_address"
    /\ Return(t, Local("PORTNOTOPEN", Tag(t)))
    /\ UNCHANGED <<slotVars, nextId, callVars, buffer, farVars>>

\* 0 is the value that means "consumed".
IsReservedId(id) == id = 0

\* fetch_add until the id is one that may be used.
GetInvokeId(t) ==
    /\ pc[t] = "invoke_id"
    /\ callId' = [callId EXCEPT ![t] = nextId]
    /\ nextId' = (nextId + 1) % IdSpace
    /\ Goto(t, IF IsReservedId(nextId) THEN "invoke_id" ELSE "reserve")
    /\ UNCHANGED <<slotVars, port, calls, expired, buffer, result, farVars>>

\* Faulty variants, here and below: what a plausible mistake in the operator
\* that follows would make of it.  No specification uses them.
IgnoresHolder(p) == TRUE

IsFree(p) == request[p] = NoThread

\* Compare-and-swap of the slot's request pointer.
Reserve(t) ==
    /\ pc[t] = "reserve"
    /\ IsFree(port[t])
    /\ request' = [request EXCEPT ![port[t]] = t]
    /\ Goto(t, "store")
    /\ UNCHANGED <<invokeId, errorCode, nextId, callVars, buffer, result,
                   farVars>>

\* It fails: another request uses the port; Write returns nullptr.
PortInUse(t) ==
    /\ pc[t] = "reserve"
    /\ ~IsFree(port[t])
    /\ Return(t, Local("SEND_FAILED", Tag(t)))
    /\ UNCHANGED <<slotVars, nextId, callVars, buffer, farVars>>

StoreInvokeId(t) ==
    /\ pc[t] = "store"
    /\ invokeId' = [invokeId EXCEPT ![port[t]] = callId[t]]
    /\ Goto(t, "write")
    /\ UNCHANGED <<request, errorCode, nextId, callVars, buffer, result,
                   farVars>>

Request(t) == [id |-> callId[t], port |-> port[t], tag |-> Tag(t)]

\* socket.write sends the whole frame.  On a connection the peer has left the
\* bytes are lost; after a torn frame they are the rest of that frame.
WriteFrame(t) ==
    /\ pc[t] = "write"
    /\ asked' = CASE link = "down"    -> asked
                  [] torn # NoRequest -> asked \cup {torn}
                  [] OTHER            -> asked \cup {Request(t)}
    /\ Goto(t, "wait")
    /\ UNCHANGED <<slotVars, nextId, callVars, buffer, result, rxVars, stopping,
                   link, wire, sending, torn, answers>>

\* socket.write returns less than the frame's size: Release, then -1.
FailWrite(t) ==
    /\ pc[t] = "write"
    /\ result' = [result EXCEPT ![t] = Local("SEND_FAILED", Tag(t))]
    /\ Goto(t, "release")
    /\ UNCHANGED <<slotVars, nextId, callVars, buffer, rxVars, stopping, link,
                   wire, sending, asked, answers>>

\* Nothing was sent.
WriteFails(t) ==
    /\ link = "down" \/ "unsent_write" \in Faults
    /\ FailWrite(t)
    /\ UNCHANGED torn

\* A part of the frame was sent.
WriteTorn(t) ==
    /\ link = "up" /\ "torn_write" \in Faults /\ torn = NoRequest
    /\ FailWrite(t)
    /\ torn' = Request(t)

TrustsDeadline(t) == FALSE
ReportsUnsent(t) == Local("SEND_FAILED", Tag(t))

\* What the exchange of the invoke id finds.
Consumed(t) == invokeId[port[t]] = 0

TimedOut(t) == Local("SYNCTIMEOUT", Tag(t))

\* The first half of Wait lasts until the id is consumed or the deadline
\* passes; the exchange decides between the two.  Not consumed: no reply came.
WaitTimeout(t) ==
    /\ pc[t] = "wait"
    /\ expired[t]
    /\ ~Consumed(t)
    /\ invokeId' = [invokeId EXCEPT ![port[t]] = 0]
    /\ result' = [result EXCEPT ![t] = TimedOut(t)]
    /\ Goto(t, "release")
    /\ UNCHANGED <<request, errorCode, nextId, callVars, buffer, farVars>>

\* Consumed: the receiver has the reply, whatever the deadline says.
WaitConsumed(t) ==
    /\ pc[t] = "wait"
    /\ Consumed(t)
    /\ Goto(t, "wait_notify")
    /\ UNCHANGED <<slotVars, nextId, callVars, buffer, result, farVars>>

\* The second half: the receiver is using the buffer; no deadline here.
WaitNotify(t) ==
    /\ pc[t] = "wait_notify"
    /\ errorCode[port[t]] # WaitingForResponse
    /\ result' = [result EXCEPT ![t] = errorCode[port[t]]]
    /\ Goto(t, "release")
    /\ UNCHANGED <<slotVars, nextId, callVars, buffer, farVars>>

\* The error code a slot is released with.
ReleasedErrorCode(p) == WaitingForResponse

\* Release, two stores: the error code, then the request pointer.
ReleaseErrorCode(t) ==
    /\ pc[t] = "release"
    /\ errorCode' = [errorCode EXCEPT ![port[t]] = ReleasedErrorCode(port[t])]
    /\ Goto(t, "release_request")
    /\ UNCHANGED <<request, invokeId, nextId, callVars, buffer, result,
                   farVars>>

ReleaseRequest(t) ==
    /\ pc[t] = "release_request"
    /\ request' = [request EXCEPT ![port[t]] = NoThread]
    /\ Goto(t, "idle")
    /\ UNCHANGED <<invokeId, errorCode, nextId, callVars, buffer, result,
                   farVars>>

\* Time reaches the deadline of the current request.
DeadlinePasses(t) ==
    /\ pc[t] \notin {"idle", "local_address"}
    /\ ~expired[t]
    /\ expired' = [expired EXCEPT ![t] = TRUE]
    /\ UNCHANGED <<slotVars, nextId, pc, port, callId, calls, buffer, result,
                   farVars>>

-----------------------------------------------------------------------------
(* Recv, on the receiver thread. *)

rxState == <<frame, slot, owner, bytesLeft, got>>

Forget == frame' = NoFrame /\ slot' = NoPort /\ owner' = NoThread /\ got' = 0

\* The receiver leaves the current frame and reads the next header.
NextFrame == rxpc' = "header" /\ bytesLeft' = 0 /\ Forget

\* ReceiveJunk(n), after which the next header is read, or Recv returns.
Junk(n, then) ==
    IF n = 0 THEN NextFrame ELSE rxpc' = then /\ bytesLeft' = n /\ Forget

\* The receiver thread ends: Recv returns or TryRecv catches its exception.
Exit == rxpc' = "exited" /\ UNCHANGED rxState

TakeUnit ==
    /\ wire # <<>>
    /\ wire' = Tail(wire)
    /\ UNCHANGED <<stopping, link, sending, asked, torn, answers>>

Notify(p, r) == errorCode' = [errorCode EXCEPT ![p] = r]

\* One turn of the loop in Recv: the headers of the next frame.
NextHeader ==
    /\ rxpc = "header"
    /\ ~stopping
    /\ TakeUnit
    /\ UNCHANGED clientVars

RecvReply ==
    /\ NextHeader
    /\ Head(wire) \in Heads
    /\ rxpc' = "pending"
    /\ frame' = Head(wire)
    /\ UNCHANGED <<slot, owner, bytesLeft, got>>

\* The frame is too short to be AoE.
RecvShort ==
    /\ NextHeader
    /\ Head(wire) \in AlienHeads
    /\ Head(wire).kind = "short"
    /\ Junk(Head(wire).len, "junk")

\* ReceiveNotification finds no dispatcher; its FALSE makes Recv return.
RecvNotification ==
    /\ NextHeader
    /\ Head(wire) \in AlienHeads
    /\ Head(wire).kind = "notification"
    /\ IF Head(wire).len = 0 THEN Exit ELSE Junk(Head(wire).len, "junk_then_exit")

\* Body bytes are taken for a header: the receiver is out of step with the
\* stream from now on.
RecvBodyAsHeader ==
    /\ NextHeader
    /\ Head(wire) \in Data
    /\ rxpc' = "out_of_step"
    /\ UNCHANGED rxState

\* A receiver that has lost the frame boundaries reads whatever comes; the
\* fields it finds match no pending request.
RecvOutOfStep ==
    /\ rxpc = "out_of_step"
    /\ ~stopping
    /\ TakeUnit
    /\ UNCHANGED <<clientVars, rxVars>>

MatchesPort(head) == invokeId[head.port] # 0

\* The compare of the compare-and-swap in GetPending.
Matches(head) == invokeId[head.port] = head.id

\* GetPending: the id is consumed by compare-and-swap.
GetPending ==
    /\ rxpc = "pending"
    /\ Matches(frame)
    /\ invokeId' = [invokeId EXCEPT ![frame.port] = 0]
    /\ slot' = frame.port
    /\ rxpc' = "frame"
    /\ UNCHANGED <<request, errorCode, nextId, threadVars, buffer, frame, owner,
                   bytesLeft, got, socketVars>>

\* Nobody waits for this reply (any more).
NoResponsePending ==
    /\ rxpc = "pending"
    /\ ~Matches(frame)
    /\ Junk(frame.len, "junk")
    /\ UNCHANGED <<clientVars, socketVars>>

\* sizeof(header): the response header every delivered body starts with.
HeaderUnits == 1

AllowsOneMore(head) == head.len > HeaderUnits + BufferLength + 1

TooLong(head) == head.len > HeaderUnits + BufferLength

ReadsRefusedFrame(code) ==
    /\ Notify(slot, Local(code, frame.tag))
    /\ rxpc' = "response_header"
    /\ owner' = request[slot]
    /\ bytesLeft' = frame.len
    /\ UNCHANGED <<frame, slot, got>>

\* A frame that is not delivered: the error is notified, the body is skipped.
RefuseFrame(code) ==
    /\ Notify(slot, Local(code, frame.tag))
    /\ Junk(frame.len, "junk")

\* The switch over the command id in Recv and the first half of ReceiveFrame.
OnFrame(kind) ==
    /\ rxpc = "frame"
    /\ frame.kind = kind
    /\ UNCHANGED <<request, invokeId, nextId, threadVars, buffer, socketVars>>

ReceiveError ==
    \/ OnFrame("unknown") /\ RefuseFrame("SYNCRESINVALID")
    \/ OnFrame("aoe") /\ RefuseFrame("AOE_ERROR")

ReceiveTooLong ==
    /\ OnFrame("ok")
    /\ request[slot] # NoThread
    /\ TooLong(frame)
    /\ RefuseFrame("INVALIDSIZE")

\* The request pointer is dereferenced whatever it is; a null pointer ends the
\* process.
ReceiveFrame ==
    /\ OnFrame("ok")
    /\ request[slot] = NoThread \/ ~TooLong(frame)
    /\ rxpc' = IF request[slot] = NoThread THEN "crashed" ELSE "response_header"
    /\ owner' = request[slot]
    /\ bytesLeft' = frame.len
    /\ UNCHANGED <<errorCode, frame, slot, got>>

CountsHeader == bytesLeft

\* bytesLeft is a size_t, and only its upper bound was checked.
LeftAfterHeader == (bytesLeft - HeaderUnits) % SizeSpace

\* Receive(&header, sizeof(header), request->deadline): the next unit, whether
\* or not it belongs to this frame.
ReceiveResponseHeader ==
    /\ rxpc = "response_header"
    /\ ~expired[owner]
    /\ TakeUnit
    /\ rxpc' = "payload"
    /\ bytesLeft' = LeftAfterHeader
    /\ UNCHANGED <<clientVars, frame, slot, owner, got>>

\* Receive(request->buffer, bytesLeft, request->deadline), unit by unit
ReceivePayload ==
    /\ rxpc = "payload"
    /\ got < bytesLeft
    /\ ~expired[owner]
    /\ TakeUnit
    /\ got' = got + 1
    /\ buffer' = [buffer EXCEPT ![owner] = Append(@, Head(wire))]
    /\ UNCHANGED <<slotVars, nextId, threadVars, rxpc, frame, slot, owner, bytesLeft>>

NeedsNoPayload == rxpc = "payload"

BodyComplete == rxpc = "payload" /\ got = bytesLeft

\* The body is complete: bytesRead is set and the result notified.
DeliverFrame ==
    /\ BodyComplete
    /\ Notify(slot, [code |-> "RESULT", tag |-> frame.tag, size |-> bytesLeft])
    /\ NextFrame
    /\ UNCHANGED <<request, invokeId, nextId, threadVars, buffer, socketVars>>

\* Receive throws TimeoutEx: what bytesLeft says is still to come is skipped.
ReceiveTimeout ==
    /\ rxpc = "response_header" \/ (rxpc = "payload" /\ got < bytesLeft)
    /\ expired[owner]
    /\ Notify(slot, Local("SYNCTIMEOUT", frame.tag))
    /\ Junk(bytesLeft, "junk")
    /\ UNCHANGED <<request, invokeId, nextId, threadVars, buffer, socketVars>>

ReceiveJunk ==
    /\ rxpc \in {"junk", "junk_then_exit"}
    /\ TakeUnit
    /\ IF bytesLeft > 1
       THEN bytesLeft' = bytesLeft - 1 /\ UNCHANGED <<rxpc, frame, slot, owner, got>>
       ELSE IF rxpc = "junk" THEN NextFrame ELSE Exit
    /\ UNCHANGED clientVars

PollingHeaders == {"header", "out_of_step"}

\* Where the receiver is inside ReceiveWithIdlePoll.
Polling == {"header", "out_of_step", "junk", "junk_then_exit"}

\* A read finds the connection closed, or the poll finds the library stopping.
\* Nobody is notified, whatever the receiver was doing.
ReceiveFails ==
    /\ wire = <<>> /\ link = "down"
    /\ \/ rxpc \in Polling
       \/ rxpc = "response_header" /\ ~expired[owner]
       \/ rxpc = "payload" /\ got < bytesLeft /\ ~expired[owner]
    /\ Exit
    /\ UNCHANGED <<clientVars, socketVars>>

\* The loop condition of Recv.
RecvStops ==
    /\ rxpc \in {"header", "out_of_step"}
    /\ stopping
    /\ Exit
    /\ UNCHANGED <<clientVars, socketVars>>

\* The destructor up to join().  The model destroys a connection nobody is
\* using; whether the router does is the subject of AmsRouter.
Stop ==
    /\ ~stopping
    /\ \A t \in Threads : pc[t] = "idle"
    /\ stopping' = TRUE
    /\ link' = "down"
    /\ UNCHANGED <<clientVars, rxVars, peerVars>>

-----------------------------------------------------------------------------
(* The peer and the network.  They owe the client nothing: a request may be *)
(* answered late, never, or in pieces that arrive far apart.                *)

\* The peer answers a request: the headers go out, len body units will follow.
PeerAnswers(q, kind, size, len) ==
    /\ link = "up"
    /\ sending.left = 0
    /\ q \in asked
    /\ \A a \in answers : a.tag # q.tag
    /\ kind = "unknown" => "unknown_command" \in Faults
    /\ \/ kind = "ok" /\ len = size + 1
       \/ kind = "ok" /\ ~WholeBodies /\ size = 0 /\ len = 0
       \/ kind # "ok" /\ size = 0 /\ len <= 1
    /\ answers' = answers \cup {[kind |-> kind, tag |-> q.tag, size |-> size]}
    /\ wire' = Append(wire, [kind |-> kind, id |-> q.id, port |-> q.port,
                              tag |-> q.tag, len |-> len])
    /\ sending' = [tag |-> q.tag, left |-> len]
    /\ UNCHANGED <<clientVars, rxVars, stopping, link, asked, torn>>

PeerSendsBody ==
    /\ link = "up"
    /\ sending.left > 0
    /\ wire' = Append(wire, [kind |-> "data", tag |-> sending.tag])
    /\ sending' = [sending EXCEPT !.left = @ - 1]
    /\ UNCHANGED <<clientVars, rxVars, stopping, link, asked, torn, answers>>

\* A frame no request asked for; bound: one of them on the wire at a time.
PeerSendsAlien(kind, len) ==
    /\ link = "up"
    /\ sending.left = 0
    /\ CASE kind = "short"        -> "short_frame" \in Faults
         [] kind = "notification" -> "notification" \in Faults
    /\ \A i \in DOMAIN wire : wire[i] \notin AlienHeads
    /\ wire' = Append(wire, [kind |-> kind, len |-> len])
    /\ sending' = [tag |-> NoTag, left |-> len]
    /\ UNCHANGED <<clientVars, rxVars, stopping, link, asked, torn, answers>>

\* The peer closes in order: what it has sent still arrives, in whole frames.
Hangup ==
    /\ "hangup" \in Faults
    /\ link = "up"
    /\ sending.left = 0
    /\ link' = "down"
    /\ UNCHANGED <<clientVars, rxVars, stopping, peerVars>>

\* The connection breaks anywhere; what was on the wire may be lost.
HangupMidFrame ==
    /\ "hangup_mid_frame" \in Faults
    /\ link = "up"
    /\ link' = "down"
    /\ wire' \in {wire, <<>>}
    /\ UNCHANGED <<clientVars, rxVars, stopping, sending, asked, torn, answers>>

-----------------------------------------------------------------------------
Thread(t) ==
    \/ GetLocalAddress(t) \/ PortNotOpen(t)
    \/ GetInvokeId(t)
    \/ Reserve(t) \/ PortInUse(t)
    \/ StoreInvokeId(t)
    \/ WriteFrame(t) \/ WriteFails(t) \/ WriteTorn(t)
    \/ WaitTimeout(t) \/ WaitConsumed(t) \/ WaitNotify(t)
    \/ ReleaseErrorCode(t) \/ ReleaseRequest(t)

Receiver ==
    \/ RecvReply \/ RecvShort \/ RecvNotification \/ RecvBodyAsHeader
    \/ RecvOutOfStep
    \/ GetPending \/ NoResponsePending
    \/ ReceiveError \/ ReceiveTooLong
    \/ ReceiveFrame \/ ReceiveResponseHeader \/ ReceivePayload \/ DeliverFrame
    \/ ReceiveTimeout \/ ReceiveJunk \/ ReceiveFails \/ RecvStops

Peer ==
    \/ \E q \in asked, kind \in AnswerKinds,
          size \in 0 .. MaxPayload, len \in 0 .. MaxPayload + 1 :
            PeerAnswers(q, kind, size, len)
    \/ PeerSendsBody
    \/ \E kind \in {"short", "notification"}, len \in 0 .. 1 :
            PeerSendsAlien(kind, len)
    \/ Hangup \/ HangupMidFrame

Next ==
    \/ \E t \in Threads, p \in Ports : AdsRequest(t, p)
    \/ \E t \in Threads : Thread(t) \/ DeadlinePasses(t)
    \/ Receiver
    \/ Peer
    \/ Stop

Spec == Init /\ [][Next]_vars

\* The threads the operating system runs, and time.  Neither the callers nor
\* the peer are obliged to do anything.
Fairness ==
    /\ \A t \in Threads : WF_vars(Thread(t)) /\ WF_vars(DeadlinePasses(t))
    /\ WF_vars(Receiver)

FairSpec == Spec /\ Fairness

-----------------------------------------------------------------------------
(* Properties. *)

PcLabels == {"idle", "local_address", "invoke_id", "reserve", "store", "write",
             "wait", "wait_notify", "release", "release_request"}
RxLabels == {"header", "pending", "frame", "response_header", "payload",
             "junk", "junk_then_exit", "out_of_step", "crashed", "exited"}

SlotTypes ==
    /\ request \in [Ports -> Threads \cup {NoThread}]
    /\ invokeId \in [Ports -> InvokeIds]
    /\ errorCode \in [Ports -> Results \cup {WaitingForResponse}]
    /\ nextId \in InvokeIds

ThreadTypes ==
    /\ pc \in [Threads -> PcLabels]
    /\ port \in [Threads -> Ports \cup {NoPort}]
    /\ callId \in [Threads -> InvokeIds]
    /\ calls \in [Threads -> 0 .. MaxRequests]
    /\ buffer \in [Threads -> Seq(Units)]
    /\ result \in [Threads -> Results \cup {NoResult}]

ReceiverTypes ==
    /\ rxpc \in RxLabels
    /\ frame \in Heads \cup {NoFrame}
    /\ slot \in Ports \cup {NoPort}
    /\ owner \in Threads \cup {NoThread}
    /\ bytesLeft \in 0 .. MaxPayload + 1
    /\ got \in 0 .. MaxPayload + 1

FlagTypes ==
    /\ expired \in [Threads -> BOOLEAN]
    /\ stopping \in BOOLEAN

PeerTypes ==
    /\ link \in {"up", "down"}
    /\ wire \in Seq(Units)
    /\ sending \in [tag : Tags \cup {NoTag}, left : 0 .. MaxPayload + 1]
    /\ asked \subseteq Requests
    /\ torn \in Requests \cup {NoRequest}
    /\ answers \subseteq Answers

\* Every variable holds a value of its C++ type.
TypeOK == SlotTypes /\ ThreadTypes /\ ReceiverTypes /\ FlagTypes /\ PeerTypes

\* Labels between the compare-and-swap of Reserve and the store of Release.
Holding == {"store", "write", "wait", "wait_notify", "release", "release_request"}

\* Reserve hands a slot to one request at a time, and no slot is lost: a slot
\* is taken exactly while the request it points to is between Reserve and
\* Release (AmsConnection.cpp:200-216).  A lost slot would make its port
\* unusable on this connection for good.
SlotsExclusive ==
    /\ \A t \in Threads : pc[t] \in Holding => request[port[t]] = t
    /\ \A p \in Ports : request[p] # NoThread =>
          pc[request[p]] \in Holding /\ port[request[p]] = p

\* The receiver between GetPending and Notify.
Completing == {"frame", "response_header", "payload"}

\* AmsConnection.cpp:35: while the receiver processes a response it uses the
\* user supplied buffer, so the caller it belongs to is still inside Wait (or
\* about to enter it), in that slot, whatever deadline has passed.
BufferOwned ==
    rxpc \in Completing =>
        /\ request[slot] \in Threads
        /\ pc[request[slot]] \in {"wait", "wait_notify"}
        /\ rxpc # "frame" => owner = request[slot]

\* A request starts on a slot whose error code is WAITING_FOR_RESPONSE, and it
\* stays so until its reply is notified: otherwise Wait would return at once
\* with the code of an earlier request.
FreshErrorCode ==
    \A p \in Ports :
        \/ errorCode[p] = WaitingForResponse
        \/ /\ request[p] # NoThread
           /\ pc[request[p]] \in {"wait", "wait_notify", "release"}
           /\ invokeId[p] = 0

\* What AdsRequest returns is about the request it was called with: a reply
\* that comes late, or to another thread, is never taken for this one's.
OwnResult ==
    \A t \in Threads : result[t] # NoResult => result[t].tag = Tag(t)

\* A successful read leaves exactly the peer's payload in the caller's buffer.
OwnPayload ==
    \A t \in Threads : result[t] # NoResult /\ result[t].code = "RESULT" =>
        /\ [kind |-> "ok", tag |-> Tag(t), size |-> result[t].size] \in answers
        /\ buffer[t] = [i \in 1 .. result[t].size |-> [kind |-> "data", tag |-> Tag(t)]]

\* AmsConnection.cpp:388: "We already checked bytesLeft <= request->bufferLength".
BufferNotOverrun == \A t \in Threads : Len(buffer[t]) <= BufferLength

\* A call that returns -1 was not executed: the router repeats it
\* (AmsRouter.cpp:192), so the peer must not have received it.
UnsentNotReceived ==
    \A t \in Threads :
        result[t] = Local("SEND_FAILED", Tag(t)) => \A q \in asked : q.tag # Tag(t)

\* A request is settled once: an error code that was notified stays until its
\* waiter has taken it and releases the slot.
SettledOnce ==
    [][\A p \in Ports : errorCode'[p] # errorCode[p] =>
          errorCode[p] = WaitingForResponse \/ errorCode'[p] = WaitingForResponse]_vars

\* Body units between the receiver and the next header the peer sends.
BodyAhead ==
    LET heads == {i \in DOMAIN wire : wire[i] \notin Data}
    IN  IF heads = {} THEN Len(wire) + sending.left
                      ELSE (CHOOSE i \in heads : \A j \in heads : i <= j) - 1

\* Body units the receiver still means to take for the current frame.
Remaining ==
    CASE rxpc = "header"                -> 0
      [] rxpc \in {"pending", "frame"}  -> frame.len
      [] rxpc = "payload"               -> bytesLeft - got
      [] OTHER                          -> bytesLeft

InStep == link = "down" \/ rxpc = "exited" \/ (rxpc # "out_of_step" /\ BodyAhead = Remaining)

\* Every path through Recv takes from the stream exactly the body its header
\* announced (AmsConnection.cpp:349-401, 484-546), so that the next header is
\* read where the peer wrote one.  The only exception is a deadline that passes
\* when a part of the payload has been read: bytesLeft still counts that part.
\* (A response header, one unit here, that is cut by a deadline is another.)
InStepUnlessPayloadCut ==
    [][InStep /\ ~InStep' => rxpc = "payload" /\ got > 0 /\ expired[owner]]_vars

\* Every call returns: by the reply, by its deadline or by a failure to send
\* (AmsConnection.h:54).
EveryCallReturns == \A t \in Threads : (pc[t] # "idle") ~> (pc[t] = "idle")

\* The destructor's join() returns: a stopped receiver always ends.
StopJoins == stopping ~> (rxpc = "exited")

-----------------------------------------------------------------------------
(* The inductive invariant behind SlotsExclusive, BufferOwned and           *)
(* FreshErrorCode.                                                          *)

\* A thread inside AdsRequest has a port.
PortKnown == \A t \in Threads : pc[t] # "idle" => port[t] \in Ports

\* The receiver's variables in each of its states.
ReceiverShape ==
    /\ rxpc \in Completing \cup {"pending"} => frame \in Heads
    /\ rxpc \in Completing => slot \in Ports
    /\ rxpc \in {"response_header", "payload"} => owner \in Threads
    /\ rxpc \in {"header", "pending", "frame", "response_header"} => got = 0
    /\ rxpc = "response_header" => bytesLeft > 0
    /\ rxpc = "payload" => got <= bytesLeft /\ bytesLeft <= MaxPayload

\* Labels at which a thread's callId is that of its current request, and
\* those before the request has reached the peer.
HasId == Holding \cup {"reserve"}
Unsent == {"reserve", "store", "write"}

\* Invoke ids name requests: each is given out once, and the peer only uses
\* ids of requests it has received.
IdsUnique ==
    /\ torn = NoRequest
    /\ \A t \in Threads : pc[t] \in HasId => 0 < callId[t] /\ callId[t] < nextId
    /\ \A t, u \in Threads :
          t # u /\ pc[t] \in HasId /\ pc[u] \in HasId => callId[t] # callId[u]
    /\ \A q \in asked : 0 < q.id /\ q.id < nextId
    /\ \A q \in asked, t \in Threads : pc[t] \in Unsent => q.id # callId[t]
    /\ \A i \in DOMAIN wire : wire[i] \in Heads =>
          \E q \in asked : q.id = wire[i].id /\ q.port = wire[i].port
    /\ rxpc = "pending" => \E q \in asked : q.id = frame.id /\ q.port = frame.port

\* The id in slot p is the one its holder waits for.
Current(p) ==
    /\ request[p] \in Threads
    /\ pc[request[p]] \in {"write", "wait"}
    /\ callId[request[p]] = invokeId[p]

\* It was left behind by a failed write: the peer never sees it.
LeftBehind(p) ==
    /\ invokeId[p] < nextId
    /\ \A q \in asked : q.id # invokeId[p]
    /\ \A t \in Threads : pc[t] \in Unsent => callId[t] # invokeId[p]

\* The slot has not been used yet; its id is whatever the memory held.
NeverUsed(p) ==
    /\ \A q \in asked : q.port # p
    /\ \A t \in Threads : pc[t] = "write" => port[t] # p

SlotIds ==
    \A p \in Ports : invokeId[p] # 0 => Current(p) \/ LeftBehind(p) \/ NeverUsed(p)

\* The slot the receiver completes has been consumed and not yet notified.
SlotUnsettled ==
    rxpc \in Completing => invokeId[slot] = 0 /\ errorCode[slot] = WaitingForResponse

OwnershipInv ==
    /\ PortKnown
    /\ ReceiverShape
    /\ IdsUnique
    /\ SlotIds
    /\ SlotUnsettled

-----------------------------------------------------------------------------
(* AdsRequest implements its abstract specification. *)

Promise == INSTANCE AmsRequestSpec WITH
    busy <- [t \in Threads |-> pc[t] # "idle"],
    late <- expired,
    result <- [t \in Threads |-> IF pc[t] = "idle" THEN result[t] ELSE NoResult]

KeepsPromise == Promise!Spec
KeepsFairPromise == Promise!FairSpec
=============================================================================
