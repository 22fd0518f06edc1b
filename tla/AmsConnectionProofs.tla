----------------------- MODULE AmsConnectionProofs -----------------------
(***************************************************************************)
(* Theorems about AmsConnection, for every number of threads and ports and *)
(* every value of the other constants; that AdsRequest keeps its promise   *)
(* (AmsRequestSpec), over the same inductive invariant; and how the        *)
(* receiver follows the reply stream.                                      *)
(***************************************************************************)
EXTENDS AmsConnection, TLAPS, WellFoundedInduction

\* The theorems are about peers that send whole bodies: behind a buffer that is
\* overrun the behaviour of the program is undefined.
TypeInv == WholeBodies /\ TypeOK /\ PortKnown /\ ReceiverShape

\* What is left of a body that is not empty, when its header has been read.
LEMMA HeaderTaken ==
  ASSUME bytesLeft \in 1 .. MaxPayload + 1
  PROVE  LeftAfterHeader = bytesLeft - 1
  BY ConstantsAssumption DEF LeftAfterHeader, HeaderUnits

\* The next invoke id is an invoke id.
LEMMA NextIdInRange == ASSUME NEW n \in InvokeIds PROVE (n + 1) % IdSpace \in InvokeIds
  BY ConstantsAssumption DEF InvokeIds

\* The counter moves with every id it gives out.
LEMMA NextIdDiffers == ASSUME NEW n \in InvokeIds PROVE (n + 1) % IdSpace # n
<1>1. n + 1 = IdSpace => (n + 1) % IdSpace = 0
  BY ConstantsAssumption DEF InvokeIds
<1>2. n + 1 # IdSpace => (n + 1) % IdSpace = n + 1
  BY ConstantsAssumption DEF InvokeIds
<1> QED
  BY <1>1, <1>2, ConstantsAssumption DEF InvokeIds

\* Sequences of wire units keep their type when a unit is taken or added.
LEMMA WireTypes ==
  ASSUME NEW w \in Seq(Units)
  PROVE  w # <<>> => Head(w) \in Units /\ Tail(w) \in Seq(Units)
  OBVIOUS

LEMMA AppendTypes == \A w \in Seq(Units), u \in Units : Append(w, u) \in Seq(Units)
  OBVIOUS

LEMMA EmptySequence == <<>> \in Seq(Units)
  OBVIOUS

LEMMA LocalIsResult ==
  \A code \in Codes, tag \in Tags : Local(code, tag) \in Results
  BY ConstantsAssumption DEF Local, Results

\* The name of a thread's current call.
LEMMA TagIsTag == ASSUME TypeInv, NEW t \in Threads PROVE Tag(t) \in Tags
  BY DEF TypeInv, TypeOK, ThreadTypes, Tag, Tags

LEMMA TypeInit == WholeBodies /\ Init => TypeInv
<1> SUFFICES ASSUME WholeBodies, Init PROVE TypeInv
  OBVIOUS
<1> USE ConstantsAssumption, EmptySequence DEF Init
<1>1. SlotTypes
  <2>1. InitialIds \subseteq InvokeIds /\ 0 \in InvokeIds
    BY DEF InvokeIds
  <2>2. invokeId \in [Ports -> InvokeIds] /\ nextId \in InvokeIds
    BY <2>1
  <2> QED
    BY <2>2 DEF SlotTypes
<1>2. ThreadTypes
  BY DEF ThreadTypes, PcLabels, InvokeIds
<1>3. ReceiverTypes
  BY DEF ReceiverTypes, RxLabels
<1>4. FlagTypes
  BY DEF FlagTypes
<1>5. PeerTypes
  BY DEF PeerTypes
<1>6. PortKnown
  BY DEF PortKnown
<1>7. ReceiverShape
  BY DEF ReceiverShape, Completing
<1> QED
  BY <1>1, <1>2, <1>3, <1>4, <1>5, <1>6, <1>7 DEF TypeInv, TypeOK

\* What a step of an application thread leaves alone: the receiver, and the
\* wire but for the request it writes.
LEMMA ThreadLeaves ==
  ASSUME NEW t \in Threads,
         (\E p \in Ports : AdsRequest(t, p)) \/ Thread(t) \/ DeadlinePasses(t)
  PROVE  /\ UNCHANGED <<rxVars, stopping, link, wire, sending, answers>>
         /\ UNCHANGED <<asked, torn>> \/ WriteFrame(t) \/ WriteTorn(t)
         /\ \/ UNCHANGED <<slotVars, nextId>>
            \/ GetInvokeId(t) \/ Reserve(t) \/ StoreInvokeId(t)
            \/ WaitTimeout(t) \/ ReleaseErrorCode(t) \/ ReleaseRequest(t)
         /\ \/ UNCHANGED expired
            \/ DeadlinePasses(t) \/ \E p \in Ports : AdsRequest(t, p)
  BY DEF Thread, AdsRequest, GetLocalAddress, PortNotOpen, GetInvokeId, Reserve, PortInUse,
     StoreInvokeId, WriteFrame, WriteFails, WriteTorn, FailWrite, WaitTimeout, WaitConsumed,
     WaitNotify, ReleaseErrorCode, ReleaseRequest, DeadlinePasses, Return,
     slotVars, callVars, farVars, rxVars, socketVars, peerVars

\* Every step of an application thread keeps the types.
LEMMA ThreadStepTypes ==
  ASSUME TypeInv, NEW t \in Threads,
         (\E p \in Ports : AdsRequest(t, p)) \/ Thread(t) \/ DeadlinePasses(t)
  PROVE  TypeInv'
<1> USE ConstantsAssumption DEF TypeInv, TypeOK
<1>1. ReceiverTypes' /\ ReceiverShape'
  BY ThreadLeaves DEF ReceiverTypes, ReceiverShape, rxVars
<1>2. FlagTypes'
  BY ThreadLeaves DEF FlagTypes, AdsRequest, DeadlinePasses
<1>3. PeerTypes'
  <2>1. pc[t] = "write" => Request(t) \in Requests
    BY TagIsTag DEF Request, Requests, ThreadTypes, PortKnown
  <2> QED
    BY <2>1, ThreadLeaves DEF PeerTypes, WriteFrame, WriteTorn, FailWrite
<1>4. SlotTypes'
  <2> USE DEF SlotTypes, ThreadTypes, PortKnown, InvokeIds, callVars
  <2>1. CASE UNCHANGED <<slotVars, nextId>>
    BY <2>1 DEF slotVars
  <2>2. CASE GetInvokeId(t)
    BY <2>2, NextIdInRange DEF GetInvokeId, slotVars
  <2>3. CASE Reserve(t) \/ ReleaseRequest(t)
    BY <2>3 DEF Reserve, ReleaseRequest
  <2>4. CASE StoreInvokeId(t)
    BY <2>4 DEF StoreInvokeId
  <2>5. CASE WaitTimeout(t)
    BY <2>5 DEF WaitTimeout
  <2>6. CASE ReleaseErrorCode(t)
    BY <2>6 DEF ReleaseErrorCode, ReleasedErrorCode
  <2> QED
    BY <2>1, <2>2, <2>3, <2>4, <2>5, <2>6, ThreadLeaves
<1>5. ThreadTypes' /\ PortKnown'
  <2>a. \A code \in Codes : Local(code, Tag(t)) \in Results
    BY LocalIsResult, TagIsTag
  <2> USE DEF ThreadTypes, PortKnown, PcLabels, Goto, Return, threadVars, callVars
  <2>1. ASSUME NEW p \in Ports, AdsRequest(t, p) PROVE ThreadTypes' /\ PortKnown'
    BY <2>1, EmptySequence DEF AdsRequest
  <2>2. CASE GetLocalAddress(t) \/ DeadlinePasses(t)
    BY <2>2 DEF GetLocalAddress, DeadlinePasses
  <2>3. CASE PortNotOpen(t) \/ PortInUse(t)
    BY ZenonT(30), <2>3, <2>a DEF PortNotOpen, PortInUse, Codes
  <2>4. CASE GetInvokeId(t)
    BY <2>4 DEF GetInvokeId, SlotTypes
  <2>5. CASE Reserve(t) \/ StoreInvokeId(t)
    BY <2>5 DEF Reserve, StoreInvokeId
  <2>6. CASE WriteFrame(t) \/ WaitConsumed(t)
    BY <2>6 DEF WriteFrame, WaitConsumed
  <2>7. CASE WriteFails(t) \/ WriteTorn(t)
    BY ZenonT(30), <2>7, <2>a DEF WriteFails, WriteTorn, FailWrite, Codes
  <2>8. CASE WaitTimeout(t)
    BY <2>8, <2>a DEF WaitTimeout, TimedOut, Codes
  <2>9. CASE WaitNotify(t)
    BY <2>9 DEF WaitNotify, SlotTypes
  <2>10. CASE ReleaseErrorCode(t) \/ ReleaseRequest(t)
    BY <2>10 DEF ReleaseErrorCode, ReleaseRequest
  <2> QED
    BY <2>1, <2>2, <2>3, <2>4, <2>5, <2>6, <2>7, <2>8, <2>9, <2>10 DEF Thread
<1> QED
  BY <1>1, <1>2, <1>3, <1>4, <1>5

-----------------------------------------------------------------------------
\* Where the receiver goes after a frame.
LEMMA NextFrameTypes ==
  ASSUME TypeInv, NextFrame
  PROVE  ReceiverTypes' /\ ReceiverShape'
  BY ConstantsAssumption DEF NextFrame, Forget, ReceiverTypes, ReceiverShape, RxLabels, Completing

LEMMA JunkTypes ==
  ASSUME TypeInv, NEW n \in 0 .. MaxPayload + 1,
         NEW then \in {"junk", "junk_then_exit"}, Junk(n, then)
  PROVE  ReceiverTypes' /\ ReceiverShape'
<1>1. CASE n = 0
  BY <1>1, NextFrameTypes DEF Junk
<1>2. CASE n # 0
  BY <1>2, ConstantsAssumption DEF Junk, Forget, ReceiverTypes, ReceiverShape, RxLabels, Completing
<1> QED
  BY <1>1, <1>2

LEMMA ExitTypes ==
  ASSUME TypeInv, Exit
  PROVE  ReceiverTypes' /\ ReceiverShape'
  BY DEF Exit, rxState, TypeInv, TypeOK, ReceiverTypes, ReceiverShape, RxLabels, Completing

\* A unit taken from the wire, and what its kind says of it.
LEMMA TakeUnitTypes ==
  ASSUME TypeInv, TakeUnit
  PROVE  Head(wire) \in Units /\ wire' \in Seq(Units)
  BY WireTypes DEF TakeUnit, TypeInv, TypeOK, PeerTypes

\* What a step of the receiver leaves alone: everything of the threads but
\* the payload of a reply, everything of the peer but the units it takes.
LEMMA ReceiverLeaves ==
  ASSUME Receiver
  PROVE  /\ UNCHANGED <<request, nextId, threadVars, stopping, link, sending, asked, torn, answers>>
         /\ UNCHANGED wire \/ TakeUnit
         /\ UNCHANGED buffer \/ ReceivePayload
         /\ \/ UNCHANGED errorCode
            \/ ReceiveError \/ ReceiveTooLong \/ DeliverFrame \/ ReceiveTimeout
         /\ UNCHANGED invokeId \/ GetPending
  BY DEF Receiver, RecvReply, RecvShort, RecvNotification, RecvBodyAsHeader, NextHeader,
     RecvOutOfStep, GetPending, NoResponsePending, ReceiveError, ReceiveTooLong, OnFrame,
     ReceiveFrame, ReceiveResponseHeader, ReceivePayload, DeliverFrame, ReceiveTimeout,
     ReceiveJunk, ReceiveFails, RecvStops, TakeUnit,
     slotVars, threadVars, callVars, clientVars, rxVars, peerVars, socketVars

\* A notified slot holds an error code.
LEMMA NotifyTypes ==
  ASSUME TypeInv, NEW p, NEW r \in Results, Notify(p, r)
  PROVE  errorCode' \in [Ports -> Results \cup {WaitingForResponse}]
  BY DEF Notify, TypeInv, TypeOK, SlotTypes

\* Every step of the receiver keeps the types.
LEMMA ReceiverStepTypes ==
  ASSUME TypeInv, Receiver
  PROVE  TypeInv'
<1> USE ConstantsAssumption
<1>1. FlagTypes'
  <2>1. UNCHANGED <<stopping, expired>>
    BY ReceiverLeaves DEF threadVars, callVars
  <2> QED
    BY <2>1 DEF TypeInv, TypeOK, FlagTypes
<1>2. PeerTypes'
  <2>1. wire' \in Seq(Units)
    BY ReceiverLeaves, TakeUnitTypes DEF TypeInv, TypeOK, PeerTypes
  <2> QED
    BY <2>1, ReceiverLeaves DEF TypeInv, TypeOK, PeerTypes
<1>3. ThreadTypes' /\ PortKnown'
  <2>1. buffer' \in [Threads -> Seq(Units)]
    <3>1. CASE ReceivePayload
      <4>1. owner \in Threads /\ Head(wire) \in Units
        BY <3>1, TakeUnitTypes DEF ReceivePayload, TypeInv, ReceiverShape
      <4>2. buffer' = [buffer EXCEPT ![owner] = Append(@, Head(wire))]
        BY <3>1 DEF ReceivePayload
      <4> QED
        BY <4>1, <4>2, AppendTypes DEF TypeInv, TypeOK, ThreadTypes
    <3>2. CASE UNCHANGED buffer
      BY <3>2 DEF TypeInv, TypeOK, ThreadTypes
    <3> QED
      BY <3>1, <3>2, ReceiverLeaves
  <2> QED
    BY <2>1, ReceiverLeaves DEF TypeInv, TypeOK, ThreadTypes, PortKnown, threadVars, callVars
<1>4. SlotTypes'
  <2>1. invokeId' \in [Ports -> InvokeIds]
    BY ReceiverLeaves DEF GetPending, TypeInv, TypeOK, SlotTypes, InvokeIds
  <2>2. errorCode' \in [Ports -> Results \cup {WaitingForResponse}]
    <3>1. ASSUME rxpc \in Completing PROVE frame.tag \in Tags
      BY <3>1 DEF TypeInv, ReceiverShape, Heads
    <3>2. CASE ReceiveError
      BY <3>1, <3>2, NotifyTypes, LocalIsResult
         DEF ReceiveError, OnFrame, RefuseFrame, Completing, Codes
    <3>3. CASE ReceiveTooLong
      BY <3>1, <3>3, NotifyTypes, LocalIsResult
         DEF ReceiveTooLong, OnFrame, RefuseFrame, Completing, Codes
    <3>4. CASE DeliverFrame
      <4>1. bytesLeft \in 0 .. MaxPayload /\ rxpc = "payload"
        BY <3>4 DEF DeliverFrame, BodyComplete, TypeInv, TypeOK, ReceiverTypes, ReceiverShape
      <4>2. [code |-> "RESULT", tag |-> frame.tag, size |-> bytesLeft] \in Results
        BY <3>1, <4>1 DEF Results, Codes, Completing
      <4> QED
        BY <3>4, <4>2, NotifyTypes DEF DeliverFrame
    <3>5. CASE ReceiveTimeout
      BY <3>1, <3>5, NotifyTypes, LocalIsResult DEF ReceiveTimeout, Completing, Codes
    <3>6. CASE UNCHANGED errorCode
      BY <3>6 DEF TypeInv, TypeOK, SlotTypes
    <3> QED
      BY <3>2, <3>3, <3>4, <3>5, <3>6, ReceiverLeaves
  <2> QED
    BY <2>1, <2>2, ReceiverLeaves DEF TypeInv, TypeOK, SlotTypes
<1>5. ReceiverTypes' /\ ReceiverShape'
  <2> USE DEF TypeInv, TypeOK, ReceiverTypes, ReceiverShape, RxLabels, Completing
  <2>1. CASE RecvReply
    BY <2>1 DEF RecvReply, NextHeader
  <2>2. CASE RecvShort
    BY <2>2, JunkTypes DEF RecvShort, NextHeader, AlienHeads
  <2>3. CASE RecvNotification
    BY <2>3, JunkTypes, ExitTypes DEF RecvNotification, NextHeader, AlienHeads
  <2>4. CASE RecvBodyAsHeader
    BY <2>4 DEF RecvBodyAsHeader, NextHeader, rxState
  <2>5. CASE RecvOutOfStep
    BY <2>5 DEF RecvOutOfStep, rxVars
  <2>6. CASE GetPending
    BY <2>6 DEF GetPending, Heads
  <2>7. CASE NoResponsePending
    BY <2>7, JunkTypes DEF NoResponsePending, Heads
  <2>8. CASE ReceiveError
    BY <2>8, JunkTypes DEF ReceiveError, OnFrame, RefuseFrame, Heads
  <2>9. CASE ReceiveTooLong
    BY <2>9, JunkTypes DEF ReceiveTooLong, OnFrame, RefuseFrame, Heads
  <2>10. CASE ReceiveFrame
    BY <2>10 DEF ReceiveFrame, OnFrame, SlotTypes, Heads
  <2>11. CASE ReceiveResponseHeader
    BY <2>11, HeaderTaken DEF ReceiveResponseHeader
  <2>12. CASE ReceivePayload
    BY <2>12 DEF ReceivePayload
  <2>13. CASE DeliverFrame
    BY <2>13, NextFrameTypes DEF DeliverFrame
  <2>14. CASE ReceiveTimeout
    BY <2>14, JunkTypes DEF ReceiveTimeout
  <2>15. CASE ReceiveJunk
    <3>1. CASE bytesLeft > 1
      BY <2>15, <3>1 DEF ReceiveJunk
    <3>2. CASE ~(bytesLeft > 1)
      BY <2>15, <3>2, NextFrameTypes, ExitTypes DEF ReceiveJunk
    <3> QED
      BY <3>1, <3>2
  <2>16. CASE ReceiveFails \/ RecvStops
    BY <2>16, ExitTypes DEF ReceiveFails, RecvStops
  <2> QED
    BY <2>1, <2>2, <2>3, <2>4, <2>5, <2>6, <2>7, <2>8, <2>9, <2>10, <2>11, <2>12, <2>13, <2>14,
       <2>15, <2>16 DEF Receiver
<1> QED
  BY <1>1, <1>2, <1>3, <1>4, <1>5 DEF TypeInv, TypeOK

-----------------------------------------------------------------------------
\* Steps of the peer, of the network and of the destructor.
LEMMA PeerStepTypes ==
  ASSUME TypeInv, Peer \/ Stop
  PROVE  TypeInv'
<1> USE ConstantsAssumption DEF slotVars, threadVars, callVars, clientVars, rxVars, peerVars, socketVars, farVars
<1>1. SlotTypes' /\ ThreadTypes' /\ PortKnown'
  BY ZenonT(30) DEF Peer, PeerAnswers, PeerSendsBody, PeerSendsAlien, Hangup, HangupMidFrame, Stop,
     TypeInv, TypeOK, SlotTypes, ThreadTypes, PortKnown
<1>2. ReceiverTypes' /\ ReceiverShape'
  <2>1. UNCHANGED rxVars
    BY ZenonT(30) DEF Peer, PeerAnswers, PeerSendsBody, PeerSendsAlien, Hangup, HangupMidFrame, Stop
  <2> QED
    BY <2>1 DEF TypeInv, TypeOK, ReceiverTypes, ReceiverShape
<1>3. FlagTypes'
  <2>1. UNCHANGED expired /\ (UNCHANGED stopping \/ stopping' = TRUE)
    BY ZenonT(30) DEF Peer, PeerAnswers, PeerSendsBody, PeerSendsAlien, Hangup, HangupMidFrame, Stop
  <2> QED
    BY <2>1 DEF TypeInv, TypeOK, FlagTypes
<1>4. PeerTypes'
  <2>1. ASSUME NEW q \in asked, NEW kind \in AnswerKinds, NEW size \in 0 .. MaxPayload,
               NEW len \in 0 .. MaxPayload + 1, PeerAnswers(q, kind, size, len)
        PROVE  PeerTypes'
    <3> DEFINE head == [kind |-> kind, id |-> q.id, port |-> q.port, tag |-> q.tag, len |-> len]
               answer == [kind |-> kind, tag |-> q.tag, size |-> size]
    <3>1. q \in Requests /\ (kind = "ok" => len > 0)
      BY <2>1 DEF PeerAnswers, TypeInv, TypeOK, PeerTypes
    <3>2. head \in Units
      BY <3>1 DEF Requests, Heads, Units
    <3>3. answer \in Answers
      BY <3>1 DEF Requests, Answers
    <3>4. [tag |-> q.tag, left |-> len] \in [tag : Tags \cup {NoTag}, left : 0 .. MaxPayload + 1]
      BY <3>1 DEF Requests
    <3>5. /\ wire' = Append(wire, head) /\ answers' = answers \cup {answer}
          /\ sending' = [tag |-> q.tag, left |-> len] /\ UNCHANGED <<link, asked, torn>>
      BY <2>1 DEF PeerAnswers
    <3> HIDE DEF head, answer
    <3> QED
      BY <3>2, <3>3, <3>4, <3>5, AppendTypes DEF TypeInv, TypeOK, PeerTypes
  <2>2. CASE PeerSendsBody
    <3>1. [kind |-> "data", tag |-> sending.tag] \in Units
      BY DEF TypeInv, TypeOK, PeerTypes, Units, Data
    <3> QED
      BY <2>2, <3>1, AppendTypes, ConstantsAssumption DEF PeerSendsBody, TypeInv, TypeOK, PeerTypes
  <2>3. ASSUME NEW kind \in {"short", "notification"}, NEW len \in 0 .. 1,
               PeerSendsAlien(kind, len)
        PROVE  PeerTypes'
    <3>1. [kind |-> kind, len |-> len] \in Units
      BY DEF Units, AlienHeads
    <3> QED
      BY <2>3, <3>1, AppendTypes DEF PeerSendsAlien, TypeInv, TypeOK, PeerTypes
  <2>4. CASE Hangup
    BY <2>4 DEF Hangup, TypeInv, TypeOK, PeerTypes
  <2>5. CASE HangupMidFrame
    BY <2>5, EmptySequence DEF HangupMidFrame, TypeInv, TypeOK, PeerTypes
  <2>6. CASE Stop
    BY <2>6 DEF Stop, TypeInv, TypeOK, PeerTypes
  <2> QED
    BY <2>1, <2>2, <2>3, <2>4, <2>5, <2>6 DEF Peer
<1> QED
  BY <1>1, <1>2, <1>3, <1>4 DEF TypeInv, TypeOK

LEMMA TypeStutter == ASSUME TypeInv, UNCHANGED vars PROVE TypeInv'
  BY DEF vars, slotVars, threadVars, callVars, clientVars, rxVars, peerVars, socketVars, farVars, TypeInv, TypeOK, SlotTypes, ThreadTypes,
     ReceiverTypes, FlagTypes, PeerTypes, PortKnown, ReceiverShape

LEMMA TypeStep == TypeInv /\ [Next]_vars => TypeInv'
  BY ThreadStepTypes, ReceiverStepTypes, PeerStepTypes, TypeStutter DEF Next

\* Every variable of the connection keeps its type, whatever faults occur but
\* bodies without a response header (AmsConnection.cpp:380 subtracts it without
\* a check; all theorems here need it), and a thread inside AdsRequest always has a port and the receiver a frame.
THEOREM TypeCorrect == WholeBodies => (Spec => [](TypeOK /\ PortKnown /\ ReceiverShape))
<1> SUFFICES ASSUME WholeBodies PROVE Spec => [](TypeOK /\ PortKnown /\ ReceiverShape)
  OBVIOUS
<1>0. Init => TypeInv
  BY TypeInit
<1>1. TypeInv => TypeOK /\ PortKnown /\ ReceiverShape
  BY DEF TypeInv
<1> QED
  BY <1>0, <1>1, TypeStep, PTL DEF Spec

-----------------------------------------------------------------------------
(* Slots. *)

SlotInv == TypeInv /\ SlotsExclusive

\* A step that leaves the threads' labels, their ports and the slots' request
\* pointers alone keeps the slots exclusive.
LEMMA SlotsUntouched ==
  ASSUME SlotsExclusive, UNCHANGED <<pc, port, request>>
  PROVE  SlotsExclusive'
  BY DEF SlotsExclusive

LEMMA ThreadStepSlots ==
  ASSUME SlotInv, NEW t \in Threads,
         (\E p \in Ports : AdsRequest(t, p)) \/ Thread(t) \/ DeadlinePasses(t)
  PROVE  SlotsExclusive'
<1> USE ConstantsAssumption DEF SlotInv, TypeInv, TypeOK, SlotTypes, ThreadTypes, PortKnown, Goto,
        SlotsExclusive, Holding
<1>1. ASSUME NEW p \in Ports, AdsRequest(t, p) PROVE SlotsExclusive'
  BY <1>1 DEF AdsRequest, slotVars, callVars
<1>2. CASE GetLocalAddress(t)
  BY <1>2 DEF GetLocalAddress, slotVars, callVars
<1>3. CASE PortNotOpen(t)
  BY <1>3 DEF PortNotOpen, Return, slotVars, callVars
<1>4. CASE GetInvokeId(t)
  BY <1>4 DEF GetInvokeId, slotVars, callVars
<1>5. CASE Reserve(t)
  BY <1>5 DEF Reserve, IsFree, callVars
<1>6. CASE PortInUse(t)
  BY <1>6 DEF PortInUse, Return, slotVars, callVars
<1>7. CASE StoreInvokeId(t)
  BY <1>7 DEF StoreInvokeId, slotVars, callVars
<1>8. CASE WriteFrame(t)
  BY <1>8 DEF WriteFrame, slotVars, callVars
<1>9. CASE WriteFails(t)
  BY <1>9 DEF WriteFails, FailWrite, slotVars, callVars
<1>10. CASE WriteTorn(t)
  BY <1>10 DEF WriteTorn, FailWrite, slotVars, callVars
<1>11. CASE WaitTimeout(t)
  BY <1>11 DEF WaitTimeout, slotVars, callVars
<1>12. CASE WaitConsumed(t)
  BY <1>12 DEF WaitConsumed, slotVars, callVars
<1>13. CASE WaitNotify(t)
  BY <1>13 DEF WaitNotify, slotVars, callVars
<1>14. CASE ReleaseErrorCode(t)
  BY <1>14 DEF ReleaseErrorCode, slotVars, callVars
<1>15. CASE ReleaseRequest(t)
  BY <1>15 DEF ReleaseRequest, callVars
<1>16. CASE DeadlinePasses(t)
  BY <1>16 DEF DeadlinePasses, slotVars, callVars
<1> QED
  BY <1>1, <1>2, <1>3, <1>4, <1>5, <1>6, <1>7, <1>8, <1>9, <1>10, <1>11, <1>12, <1>13, <1>14, <1>15, <1>16 DEF Thread

LEMMA SlotStep == SlotInv /\ [Next]_vars => SlotsExclusive'
<1> SUFFICES ASSUME SlotInv, [Next]_vars PROVE SlotsExclusive'
  OBVIOUS
<1>1. ASSUME NEW t \in Threads,
             (\E p \in Ports : AdsRequest(t, p)) \/ Thread(t) \/ DeadlinePasses(t)
      PROVE  SlotsExclusive'
  BY <1>1, ThreadStepSlots
<1>2. CASE Receiver
  <2>1. UNCHANGED <<pc, port, request>>
    BY <1>2, ReceiverLeaves DEF threadVars, callVars
  <2> QED
    BY <2>1, SlotsUntouched DEF SlotInv
<1>3. CASE Peer \/ Stop
  <2>1. UNCHANGED <<pc, port, request>>
    BY ZenonT(30), <1>3 DEF Peer, PeerAnswers, PeerSendsBody, PeerSendsAlien, Hangup, HangupMidFrame, Stop,
       slotVars, threadVars, callVars, clientVars
  <2> QED
    BY <2>1, SlotsUntouched DEF SlotInv
<1>4. CASE UNCHANGED vars
  BY <1>4, SlotsUntouched DEF SlotInv, vars, slotVars, threadVars, callVars, clientVars
<1> QED
  BY <1>1, <1>2, <1>3, <1>4 DEF Next

\* No slot is ever held by two requests, and none is lost, whatever other faults
\* occur and however many threads share a port.
THEOREM SlotsAreExclusive == WholeBodies => (Spec => []SlotsExclusive)
<1> SUFFICES ASSUME WholeBodies PROVE Spec => []SlotsExclusive
  OBVIOUS
<1>1. Init => SlotInv
  <2>1. Init => SlotsExclusive
    BY DEF Init, SlotsExclusive, Holding
  <2> QED
    BY <2>1, TypeInit DEF SlotInv
<1>2. SlotInv /\ [Next]_vars => SlotInv'
  BY TypeStep, SlotStep DEF SlotInv
<1>3. SlotInv => SlotsExclusive
  BY DEF SlotInv
<1> QED
  BY <1>1, <1>2, <1>3, PTL DEF Spec

-----------------------------------------------------------------------------
(* Ownership of the slots and buffers, as long as the 32-bit counter of     *)
(* invoke ids has not wrapped and no frame is cut short by send().          *)

NoWrap == nextId' = nextId + 1

Owned ==
    /\ SlotInv
    /\ IdsUnique
    /\ SlotIds
    /\ SlotUnsettled
    /\ BufferOwned
    /\ FreshErrorCode

LEMMA OwnedInit == WholeBodies /\ Init => Owned
<1> SUFFICES ASSUME WholeBodies, Init PROVE Owned
  OBVIOUS
<1>1. SlotInv
  BY TypeInit DEF Init, SlotInv, SlotsExclusive, Holding
<1>2. IdsUnique /\ SlotIds
  BY DEF Init, IdsUnique, HasId, Holding, Unsent, SlotIds, NeverUsed
<1>3. SlotUnsettled /\ BufferOwned /\ FreshErrorCode
  BY DEF Init, SlotUnsettled, BufferOwned, FreshErrorCode, Completing
<1> QED
  BY <1>1, <1>2, <1>3 DEF Owned

\* A step after which every slot's id is as it was or consumed, and every id not
\* yet sent is as it was or new, leaves no id unaccounted for.
LEMMA SlotIdsKept ==
  ASSUME TypeInv, SlotIds, UNCHANGED asked,
         nextId' \in {nextId, nextId + 1},
         \A p \in Ports : invokeId'[p] # 0 =>
            invokeId'[p] = invokeId[p] /\ (Current(p) => Current(p)'),
         \A u \in Threads : pc'[u] \in Unsent =>
            (pc[u] \in Unsent /\ callId'[u] = callId[u]) \/ callId'[u] = nextId,
         \A u \in Threads : pc'[u] = "write" => pc[u] = "write" /\ port'[u] = port[u]
  PROVE  SlotIds'
<1> SUFFICES ASSUME NEW p \in Ports, invokeId'[p] # 0
             PROVE  Current(p)' \/ LeftBehind(p)' \/ NeverUsed(p)'
  BY DEF SlotIds
<1>1. invokeId'[p] = invokeId[p] /\ (Current(p) \/ LeftBehind(p) \/ NeverUsed(p))
  BY DEF SlotIds
<1>2. CASE LeftBehind(p)
  BY <1>1, <1>2 DEF LeftBehind, TypeInv, TypeOK, SlotTypes, InvokeIds
<1>3. CASE NeverUsed(p)
  BY <1>1, <1>3 DEF NeverUsed
<1> QED
  BY <1>1, <1>2, <1>3

\* A new invoke id is larger than all before it; 0 is skipped.
LEMMA GetInvokeIdOwned ==
  ASSUME Owned, NEW t \in Threads, GetInvokeId(t), NoWrap \/ UNCHANGED nextId
  PROVE  IdsUnique' /\ SlotIds' /\ SlotUnsettled' /\ BufferOwned' /\ FreshErrorCode'
<1> USE ConstantsAssumption DEF Owned, SlotInv, TypeInv, TypeOK, Goto, SlotsExclusive, Holding
<1>1. nextId' = nextId + 1 /\ nextId \in Nat
  BY NextIdDiffers DEF GetInvokeId, NoWrap, SlotTypes, InvokeIds
<1>2. /\ callId' = [callId EXCEPT ![t] = nextId]
      /\ pc[t] = "invoke_id"
      /\ UNCHANGED <<slotVars, port, calls, expired, buffer, rxVars, peerVars>>
  BY DEF GetInvokeId, farVars, socketVars
<1>3. CASE nextId = 0
  <2>1. UNCHANGED pc
    BY <1>2, <1>3 DEF GetInvokeId, IsReservedId, ThreadTypes
  <2>2. IdsUnique'
    BY <1>1, <1>2, <1>3, <2>1 DEF slotVars, rxVars, peerVars, socketVars, farVars, IdsUnique, HasId, Unsent,
       SlotTypes, ThreadTypes, PeerTypes, Requests, InvokeIds
  <2>3. SlotIds'
    BY <1>1, <1>2, <1>3, <2>1 DEF slotVars, rxVars, peerVars, socketVars, farVars, IdsUnique, HasId, Unsent,
       SlotIds, Current, LeftBehind, NeverUsed, SlotTypes, ThreadTypes, InvokeIds
  <2> QED
    BY <1>2, <2>1, <2>2, <2>3 DEF slotVars, rxVars, SlotUnsettled, BufferOwned, Completing,
       FreshErrorCode
<1>4. CASE nextId # 0
  <2>1. pc' = [pc EXCEPT ![t] = "reserve"]
    BY <1>4 DEF GetInvokeId, IsReservedId
  <2>2. IdsUnique'
    <3>1. \A u \in Threads : pc'[u] \in HasId =>
             callId'[u] = (IF u = t THEN nextId ELSE callId[u]) /\ (u # t => pc[u] \in HasId)
      BY <1>2, <2>1 DEF ThreadTypes
    <3>2. \A u \in Threads : pc'[u] \in Unsent =>
             callId'[u] = (IF u = t THEN nextId ELSE callId[u]) /\ (u # t => pc[u] \in Unsent)
      BY <1>2, <2>1 DEF ThreadTypes
    <3>3. /\ \A u \in Threads : pc'[u] \in HasId => 0 < callId'[u] /\ callId'[u] < nextId'
          /\ \A u, v \in Threads :
                u # v /\ pc'[u] \in HasId /\ pc'[v] \in HasId => callId'[u] # callId'[v]
      <4>1. \A u \in Threads : pc[u] \in HasId => 0 < callId[u] /\ callId[u] < nextId
        BY DEF IdsUnique
      <4>2. \A u \in Threads : callId[u] \in Nat
        BY DEF ThreadTypes, InvokeIds
      <4>3. \A u \in Threads : pc'[u] \in HasId => 0 < callId'[u] /\ callId'[u] < nextId'
        BY <1>1, <1>4, <3>1, <4>1, <4>2
      <4>4. \A u, v \in Threads :
              u # v /\ pc[u] \in HasId /\ pc[v] \in HasId => callId[u] # callId[v]
        BY DEF IdsUnique
      <4> QED
        BY <1>1, <3>1, <4>1, <4>2, <4>3, <4>4
    <3>4. /\ \A q \in asked : 0 < q.id /\ q.id < nextId'
          /\ \A q \in asked, u \in Threads : pc'[u] \in Unsent => q.id # callId'[u]
      BY <1>1, <3>2 DEF IdsUnique, PeerTypes, Requests, InvokeIds
    <3> QED
      BY <1>2, <3>3, <3>4 DEF peerVars, socketVars, farVars, rxVars, IdsUnique
  <2>3. SlotIds'
    BY <1>1, <1>2, <1>4, <2>1, SlotIdsKept DEF slotVars, rxVars, peerVars, socketVars, farVars, Unsent, Current,
       SlotTypes, ThreadTypes, InvokeIds
  <2>4. SlotUnsettled' /\ BufferOwned'
    BY <1>2, <2>1 DEF slotVars, rxVars, SlotUnsettled, BufferOwned, Completing, ReceiverShape,
       SlotTypes, ThreadTypes
  <2>5. FreshErrorCode'
    BY <1>2, <2>1 DEF slotVars, FreshErrorCode, SlotTypes, ThreadTypes
  <2> QED
    BY <2>2, <2>3, <2>4, <2>5
<1> QED
  BY <1>3, <1>4

LEMMA ThreadStepOwned ==
  ASSUME Owned, NEW t \in Threads, "torn_write" \notin Faults, NoWrap \/ UNCHANGED nextId,
         (\E p \in Ports : AdsRequest(t, p)) \/ Thread(t) \/ DeadlinePasses(t)
  PROVE  IdsUnique' /\ SlotIds' /\ SlotUnsettled' /\ BufferOwned' /\ FreshErrorCode'
<1> USE ConstantsAssumption DEF Owned, SlotInv, TypeInv, TypeOK, Goto, Return, SlotsExclusive,
        Holding, SlotTypes, ThreadTypes, PortKnown, slotVars, threadVars, callVars, rxVars, farVars,
        socketVars, peerVars
<1>1. CASE \/ \E p \in Ports : AdsRequest(t, p)
          \/ GetLocalAddress(t) \/ PortNotOpen(t) \/ PortInUse(t) \/ DeadlinePasses(t)
  <2>1. /\ UNCHANGED <<slotVars, nextId, callId, rxVars, peerVars>>
        /\ \A u \in Threads : pc'[u] \in HasId => pc'[u] = pc[u] /\ port'[u] = port[u]
        /\ \A u \in Threads : pc[u] \in Holding => pc'[u] = pc[u] /\ port'[u] = port[u]
    BY <1>1 DEF AdsRequest, GetLocalAddress, PortNotOpen, PortInUse, DeadlinePasses, HasId
  <2>2. IdsUnique'
    BY <2>1 DEF IdsUnique, HasId, Unsent
  <2>3. SlotIds'
    BY <2>1, SlotIdsKept DEF Current, Unsent, HasId
  <2>4. SlotUnsettled' /\ BufferOwned' /\ FreshErrorCode'
    BY <2>1 DEF SlotUnsettled, BufferOwned, FreshErrorCode, Completing, ReceiverShape
  <2> QED
    BY <2>2, <2>3, <2>4
<1>2. CASE GetInvokeId(t)
  BY <1>2, GetInvokeIdOwned
<1>3. CASE Reserve(t)
  <2>1. IdsUnique'
    BY <1>3 DEF Reserve, IsFree, IdsUnique, HasId, Unsent
  <2>2. SlotIds'
    BY <1>3, SlotIdsKept DEF Reserve, IsFree, Current, Unsent
  <2>3. SlotUnsettled' /\ BufferOwned'
    BY <1>3 DEF Reserve, IsFree, SlotUnsettled, BufferOwned, Completing, ReceiverShape
  <2>4. FreshErrorCode'
    BY <1>3 DEF Reserve, IsFree, FreshErrorCode
  <2> QED
    BY <2>1, <2>2, <2>3, <2>4
<1>4. CASE StoreInvokeId(t)
  <2>1. IdsUnique'
    BY <1>4 DEF StoreInvokeId, IdsUnique, HasId, Unsent
  <2>2. SlotIds'
    BY <1>4 DEF StoreInvokeId, IdsUnique, HasId, Unsent, SlotIds, Current, LeftBehind, NeverUsed
  <2>3. SlotUnsettled' /\ BufferOwned'
    BY <1>4 DEF StoreInvokeId, SlotUnsettled, BufferOwned, Completing, ReceiverShape
  <2>4. FreshErrorCode'
    BY <1>4 DEF StoreInvokeId, FreshErrorCode
  <2> QED
    BY <2>1, <2>2, <2>3, <2>4
<1>5. CASE WriteFrame(t)
  <2>1. IdsUnique'
    BY <1>5 DEF WriteFrame, Request, IdsUnique, HasId, Unsent
  <2>2. SlotIds'
    BY <1>5 DEF WriteFrame, Request, IdsUnique, HasId, Unsent, SlotIds, Current, LeftBehind, NeverUsed
  <2>3. SlotUnsettled' /\ BufferOwned'
    BY <1>5 DEF WriteFrame, Request, SlotUnsettled, BufferOwned, Completing, ReceiverShape
  <2>4. FreshErrorCode'
    BY <1>5 DEF WriteFrame, Request, FreshErrorCode
  <2> QED
    BY <2>1, <2>2, <2>3, <2>4
<1>6. CASE WriteFails(t)
  <2>1. IdsUnique'
    BY <1>6 DEF WriteFails, FailWrite, IdsUnique, HasId, Unsent
  <2>2. SlotIds'
    <3>1. /\ pc[t] = "write" /\ pc' = [pc EXCEPT ![t] = "release"]
          /\ UNCHANGED <<request, invokeId, nextId, port, callId, asked>>
      BY <1>6 DEF WriteFails, FailWrite
    <3>2. \A u \in Threads : pc'[u] \in Unsent => u # t /\ pc[u] \in Unsent
      BY <3>1 DEF Unsent
    <3> SUFFICES ASSUME NEW p \in Ports, invokeId[p] # 0
                 PROVE  Current(p)' \/ LeftBehind(p)' \/ NeverUsed(p)'
      BY <3>1 DEF SlotIds
    <3>3. CASE LeftBehind(p) \/ NeverUsed(p)
      BY <3>1, <3>2, <3>3 DEF LeftBehind, NeverUsed
    <3>4. CASE Current(p) /\ request[p] # t
      BY <3>1, <3>4 DEF Current
    <3>5. CASE Current(p) /\ request[p] = t
      BY <3>1, <3>2, <3>5 DEF Current, LeftBehind, IdsUnique, HasId, Unsent
    <3> QED
      BY <3>3, <3>4, <3>5 DEF SlotIds
  <2>3. SlotUnsettled' /\ BufferOwned'
    BY <1>6 DEF WriteFails, FailWrite, SlotUnsettled, BufferOwned, Completing, ReceiverShape
  <2>4. FreshErrorCode'
    BY <1>6 DEF WriteFails, FailWrite, FreshErrorCode
  <2> QED
    BY <2>1, <2>2, <2>3, <2>4
<1>7. CASE WaitTimeout(t)
  <2>1. IdsUnique'
    BY <1>7 DEF WaitTimeout, Consumed, IdsUnique, HasId, Unsent
  <2>2. SlotIds'
    BY <1>7, SlotIdsKept DEF WaitTimeout, Consumed, Current, Unsent
  <2>3. SlotUnsettled' /\ BufferOwned'
    <3>1. rxpc \in Completing => slot # port[t]
      BY <1>7 DEF WaitTimeout, Consumed, SlotUnsettled
    <3>2. SlotUnsettled'
      BY <1>7, <3>1 DEF WaitTimeout, SlotUnsettled, Completing, ReceiverShape
    <3>3. BufferOwned'
      BY <1>7, <3>1 DEF WaitTimeout, BufferOwned, Completing, ReceiverShape
    <3> QED
      BY <3>2, <3>3
  <2>4. FreshErrorCode'
    BY <1>7 DEF WaitTimeout, Consumed, FreshErrorCode
  <2> QED
    BY <2>1, <2>2, <2>3, <2>4
<1>8. CASE WriteTorn(t)
  BY <1>8 DEF WriteTorn
<1>9. CASE WaitConsumed(t)
  <2>1. IdsUnique'
    BY <1>9 DEF WaitConsumed, Consumed, IdsUnique, HasId, Unsent
  <2>2. SlotIds'
    <3>1. invokeId[port[t]] = 0
      BY <1>9 DEF WaitConsumed, Consumed
    <3>2. \A p \in Ports : request[p] = t => port[t] = p
      OBVIOUS
    <3> QED
      BY <1>9, <3>1, <3>2, SlotIdsKept DEF WaitConsumed, Current, Unsent
  <2>3. SlotUnsettled' /\ BufferOwned'
    BY <1>9 DEF WaitConsumed, Consumed, SlotUnsettled, BufferOwned, Completing, ReceiverShape
  <2>4. FreshErrorCode'
    BY <1>9 DEF WaitConsumed, Consumed, FreshErrorCode
  <2> QED
    BY <2>1, <2>2, <2>3, <2>4
<1>10. CASE WaitNotify(t)
  <2>1. IdsUnique'
    BY <1>10 DEF WaitNotify, IdsUnique, HasId, Unsent
  <2>2. SlotIds'
    BY <1>10, SlotIdsKept DEF WaitNotify, Current, Unsent
  <2>3. SlotUnsettled' /\ BufferOwned'
    <3>1. rxpc \in Completing => slot # port[t]
      BY <1>10 DEF WaitNotify, SlotUnsettled
    <3>2. SlotUnsettled'
      BY <1>10, <3>1 DEF WaitNotify, SlotUnsettled, Completing, ReceiverShape
    <3>3. BufferOwned'
      BY <1>10, <3>1 DEF WaitNotify, BufferOwned, Completing, ReceiverShape
    <3> QED
      BY <3>2, <3>3
  <2>4. FreshErrorCode'
    BY <1>10 DEF WaitNotify, FreshErrorCode
  <2> QED
    BY <2>1, <2>2, <2>3, <2>4
<1>11. CASE ReleaseErrorCode(t)
  <2>1. IdsUnique'
    BY <1>11 DEF ReleaseErrorCode, ReleasedErrorCode, IdsUnique, HasId, Unsent
  <2>2. SlotIds'
    BY <1>11, SlotIdsKept DEF ReleaseErrorCode, ReleasedErrorCode, Current, Unsent
  <2>3. SlotUnsettled' /\ BufferOwned'
    BY <1>11 DEF ReleaseErrorCode, ReleasedErrorCode, SlotUnsettled, BufferOwned, Completing, ReceiverShape
  <2>4. FreshErrorCode'
    BY <1>11 DEF ReleaseErrorCode, ReleasedErrorCode, FreshErrorCode
  <2> QED
    BY <2>1, <2>2, <2>3, <2>4
<1>12. CASE ReleaseRequest(t)
  <2>1. IdsUnique'
    BY <1>12 DEF ReleaseRequest, IdsUnique, HasId, Unsent
  <2>2. SlotIds'
    BY <1>12, SlotIdsKept DEF ReleaseRequest, Current, Unsent
  <2>3. SlotUnsettled' /\ BufferOwned'
    BY <1>12 DEF ReleaseRequest, SlotUnsettled, BufferOwned, Completing, ReceiverShape
  <2>4. FreshErrorCode'
    BY <1>12 DEF ReleaseRequest, FreshErrorCode
  <2> QED
    BY <2>1, <2>2, <2>3, <2>4
<1> QED
  BY <1>1, <1>2, <1>3, <1>4, <1>5, <1>6, <1>7, <1>8, <1>9, <1>10, <1>11, <1>12 DEF Thread

\* Between GetPending and Notify the receiver keeps to one slot; every other
\* step leads to a state in which it is not completing any.
LEMMA ReceiverKeepsSlot ==
  ASSUME TypeInv, Receiver, rxpc' \in Completing
  PROVE  \/ GetPending
         \/ /\ ReceiveFrame \/ ReceiveResponseHeader \/ ReceivePayload
            /\ rxpc \in Completing
            /\ UNCHANGED <<slot, invokeId, errorCode>>
            /\ rxpc = "frame" => owner' = request[slot]
            /\ rxpc # "frame" => owner' = owner
  BY DEF Receiver, RecvReply, RecvShort, RecvNotification, RecvBodyAsHeader, NextHeader,
     RecvOutOfStep, NoResponsePending, ReceiveError, ReceiveTooLong, OnFrame, RefuseFrame,
     ReceiveFrame, ReceiveResponseHeader, ReceivePayload, DeliverFrame, ReceiveTimeout,
     ReceiveJunk, ReceiveFails, RecvStops, Junk, NextFrame, Forget, Exit, rxState, Completing,
     slotVars, clientVars, rxVars

\* A unit the receiver takes is gone; the others move up.
LEMMA WireShrinks ==
  ASSUME TypeInv, TakeUnit
  PROVE  \A i \in DOMAIN wire' : i + 1 \in DOMAIN wire /\ wire'[i] = wire[i + 1]
  BY DEF TakeUnit, TypeInv, TypeOK, PeerTypes

\* The reply that is matched answers the request whose caller holds the slot.
LEMMA PendingIsCurrent ==
  ASSUME Owned, GetPending
  PROVE  /\ slot' = frame.port /\ slot' \in Ports
         /\ Current(frame.port) /\ pc[request[frame.port]] = "wait"
         /\ invokeId[frame.port] # 0
<1> DEFINE p == frame.port
<1>1. p \in Ports /\ invokeId[p] = frame.id /\ slot' = p /\ rxpc = "pending"
  BY DEF GetPending, Matches, Owned, SlotInv, TypeInv, ReceiverShape, Heads
<1>2. PICK q \in asked : q.id = frame.id /\ q.port = p
  BY <1>1 DEF Owned, IdsUnique
<1>3. invokeId[p] # 0
  BY <1>1, <1>2 DEF Owned, SlotInv, TypeInv, TypeOK, IdsUnique, PeerTypes, Requests, InvokeIds
<1>4. Current(p)
  BY <1>1, <1>2, <1>3 DEF Owned, SlotIds, LeftBehind, NeverUsed
<1>5. pc[request[p]] # "write"
  BY <1>1, <1>2, <1>4 DEF Owned, Current, IdsUnique, Unsent
<1> QED
  BY <1>1, <1>3, <1>4, <1>5 DEF Current

LEMMA ReceiverStepOwned ==
  ASSUME Owned, Receiver
  PROVE  IdsUnique' /\ SlotIds' /\ SlotUnsettled' /\ BufferOwned' /\ FreshErrorCode'
<1> USE DEF Owned, SlotInv
<1>1. UNCHANGED <<request, nextId, pc, port, callId, asked, torn>>
  BY ReceiverLeaves DEF threadVars, callVars
<1>2. IdsUnique'
  <2>1. \A i \in DOMAIN wire' : wire'[i] \in Heads =>
           \E q \in asked : q.id = wire'[i].id /\ q.port = wire'[i].port
    BY ReceiverLeaves, WireShrinks DEF IdsUnique
  <2>2. ASSUME rxpc' = "pending"
        PROVE  \E q \in asked : q.id = frame'.id /\ q.port = frame'.port
    <3>1. RecvReply
      BY <2>2 DEF Receiver, RecvReply, RecvShort, RecvNotification, RecvBodyAsHeader, NextHeader,
         RecvOutOfStep, GetPending, NoResponsePending, ReceiveError, ReceiveTooLong, OnFrame,
         RefuseFrame, ReceiveFrame, ReceiveResponseHeader, ReceivePayload, DeliverFrame,
         BodyComplete, ReceiveTimeout, ReceiveJunk, ReceiveFails, RecvStops, Junk, NextFrame,
         Exit, rxVars
    <3>2. 1 \in DOMAIN wire /\ wire[1] = Head(wire)
      BY <3>1 DEF RecvReply, NextHeader, TakeUnit, TypeInv, TypeOK, PeerTypes
    <3> QED
      BY <3>1, <3>2 DEF RecvReply, IdsUnique
  <2> QED
    BY <1>1, <2>1, <2>2 DEF IdsUnique
<1>3. SlotIds'
  <2>1. ASSUME NEW p \in Ports, invokeId'[p] # 0 PROVE invokeId'[p] = invokeId[p]
    BY <2>1, ReceiverLeaves DEF GetPending, TypeInv, TypeOK, SlotTypes
  <2> QED
    BY <1>1, <2>1 DEF SlotIds, Current, LeftBehind, NeverUsed
<1>4. SlotUnsettled' /\ BufferOwned'
  <2> SUFFICES ASSUME rxpc' \in Completing
               PROVE  SlotUnsettled' /\ BufferOwned'
    BY DEF SlotUnsettled, BufferOwned
  <2>1. CASE GetPending
    <3>1. invokeId'[slot'] = 0 /\ rxpc' = "frame" /\ UNCHANGED errorCode
      BY <2>1, PendingIsCurrent DEF GetPending, TypeInv, TypeOK, SlotTypes
    <3>2. errorCode[frame.port] = WaitingForResponse
      BY <2>1, PendingIsCurrent DEF FreshErrorCode
    <3> QED
      BY <1>1, <2>1, <3>1, <3>2, PendingIsCurrent DEF SlotUnsettled, BufferOwned, Current
  <2>2. CASE ~GetPending
    <3>1. rxpc \in Completing /\ UNCHANGED <<slot, invokeId, errorCode>> /\ owner' = request[slot]
      BY <2>2, ReceiverKeepsSlot DEF BufferOwned
    <3> QED
      BY <1>1, <3>1 DEF SlotUnsettled, BufferOwned
  <2> QED
    BY <2>1, <2>2
<1>5. FreshErrorCode'
  <2>1. CASE UNCHANGED errorCode
    <3>1. \A p \in Ports : invokeId[p] = 0 => invokeId'[p] = 0
      BY ReceiverLeaves DEF GetPending, TypeInv, TypeOK, SlotTypes
    <3> QED
      BY <1>1, <2>1, <3>1 DEF FreshErrorCode
  <2>2. CASE ~UNCHANGED errorCode
    <3>1. /\ rxpc \in Completing /\ UNCHANGED invokeId
          /\ \A p \in Ports : p # slot => errorCode'[p] = errorCode[p]
      BY <2>2, ReceiverLeaves DEF ReceiveError, ReceiveTooLong, OnFrame, RefuseFrame,
         DeliverFrame, BodyComplete, ReceiveTimeout, Notify, Completing, TypeInv, TypeOK, SlotTypes
    <3>2. request[slot] # NoThread /\ pc[request[slot]] \in {"wait", "wait_notify"} /\ invokeId[slot] = 0
      BY <3>1, ConstantsAssumption DEF BufferOwned, SlotUnsettled
    <3> QED
      BY <1>1, <3>1, <3>2 DEF FreshErrorCode
  <2> QED
    BY <2>1, <2>2
<1> QED
  BY <1>2, <1>3, <1>4, <1>5

LEMMA PeerStepOwned ==
  ASSUME Owned, Peer \/ Stop \/ UNCHANGED vars
  PROVE  IdsUnique' /\ SlotIds' /\ SlotUnsettled' /\ BufferOwned' /\ FreshErrorCode'
<1> USE ConstantsAssumption DEF Owned, SlotInv, TypeInv, TypeOK, slotVars, threadVars, callVars, clientVars, rxVars,
        peerVars, socketVars, farVars
<1>1. /\ UNCHANGED <<slotVars, nextId, threadVars, rxVars, asked, torn>>
      /\ \A i \in DOMAIN wire' : wire'[i] \in Heads => \E q \in asked : q.id = wire'[i].id /\ q.port = wire'[i].port
  <2>1. ASSUME NEW q \in asked, NEW kind \in AnswerKinds, NEW size \in 0 .. MaxPayload,
               NEW len \in 0 .. MaxPayload + 1, PeerAnswers(q, kind, size, len)
        PROVE  \A i \in DOMAIN wire' : wire'[i] \in Heads => \E r \in asked : r.id = wire'[i].id /\ r.port = wire'[i].port
    <3> SUFFICES ASSUME NEW i \in DOMAIN wire', wire'[i] \in Heads
                 PROVE  \E r \in asked : r.id = wire'[i].id /\ r.port = wire'[i].port
      OBVIOUS
    <3>1. CASE i \in DOMAIN wire
      <4>1. wire'[i] = wire[i]
        BY <2>1, <3>1 DEF PeerAnswers, PeerTypes
      <4> QED
        BY <3>1, <4>1 DEF IdsUnique
    <3>2. CASE i \notin DOMAIN wire
      <4>1. wire'[i] = [kind |-> kind, id |-> q.id, port |-> q.port, tag |-> q.tag, len |-> len]
        BY <2>1, <3>2 DEF PeerAnswers, PeerTypes
      <4> QED
        BY <4>1
    <3> QED
      BY <3>1, <3>2
  <2>2. CASE PeerSendsBody
    <3>1. UNCHANGED <<slotVars, nextId, threadVars, rxVars, asked, torn>>
      BY <2>2 DEF PeerSendsBody
    <3>2. wire \in Seq(Units) /\ wire' = Append(wire, [kind |-> "data", tag |-> sending.tag])
      BY <2>2 DEF PeerSendsBody, PeerTypes
    <3>3. [kind |-> "data", tag |-> sending.tag] \notin Heads
      BY DEF Heads, AnswerKinds
    <3>4. \A i \in DOMAIN wire' : wire'[i] \in Heads => \E q \in asked : q.id = wire'[i].id /\ q.port = wire'[i].port
      BY <3>1, <3>2, <3>3 DEF IdsUnique
    <3> QED
      BY <3>1, <3>4
  <2>3. ASSUME NEW kind \in {"short", "notification"}, NEW len \in 0 .. 1,
               PeerSendsAlien(kind, len)
        PROVE  \A i \in DOMAIN wire' : wire'[i] \in Heads => \E r \in asked : r.id = wire'[i].id /\ r.port = wire'[i].port
    BY <2>3 DEF PeerSendsAlien, IdsUnique, PeerTypes, Heads, AnswerKinds
  <2>4. CASE Hangup \/ HangupMidFrame \/ Stop \/ UNCHANGED vars
    BY <2>4 DEF Hangup, HangupMidFrame, Stop, vars, IdsUnique, PeerTypes
  <2>5. UNCHANGED <<slotVars, nextId, threadVars, rxVars, asked, torn>>
    BY ZenonT(30) DEF Peer, PeerAnswers, PeerSendsBody, PeerSendsAlien, Hangup, HangupMidFrame, Stop, vars
  <2> QED
    BY <2>1, <2>2, <2>3, <2>4, <2>5 DEF Peer
<1>2. IdsUnique'
  BY <1>1 DEF IdsUnique
<1>3. SlotIds' /\ SlotUnsettled'
  BY <1>1 DEF SlotIds, Current, LeftBehind, NeverUsed, SlotUnsettled
<1>4. BufferOwned' /\ FreshErrorCode'
  BY <1>1 DEF BufferOwned, FreshErrorCode
<1> QED
  BY <1>2, <1>3, <1>4

LEMMA OwnedStep ==
  "torn_write" \notin Faults /\ Owned /\ [Next]_vars /\ [NoWrap]_nextId => Owned'
<1> SUFFICES ASSUME "torn_write" \notin Faults, Owned, [Next]_vars, [NoWrap]_nextId
             PROVE  Owned'
  OBVIOUS
<1>1. SlotInv'
  BY TypeStep, SlotStep DEF Owned, SlotInv
<1>2. IdsUnique' /\ SlotIds' /\ SlotUnsettled' /\ BufferOwned' /\ FreshErrorCode'
  BY ThreadStepOwned, ReceiverStepOwned, PeerStepOwned DEF Next
<1> QED
  BY <1>1, <1>2 DEF Owned

\* AmsConnection.cpp:35: whatever deadlines pass, whatever replies come late
\* and whoever hangs up, the receiver writes into a user buffer only while the
\* caller it belongs to is still waiting in that slot, and no caller takes the
\* error code of another request for its own.  It holds until the counter of
\* invoke ids wraps, and only if send() never cuts a frame short.
THEOREM BuffersAreOwned ==
  WholeBodies /\ "torn_write" \notin Faults => (Spec /\ [][NoWrap]_nextId => [](BufferOwned /\ FreshErrorCode))
<1> SUFFICES ASSUME WholeBodies, "torn_write" \notin Faults
             PROVE  Spec /\ [][NoWrap]_nextId => [](BufferOwned /\ FreshErrorCode)
  OBVIOUS
<1>0. Init => Owned
  BY OwnedInit
<1>1. Owned /\ [Next]_vars /\ [NoWrap]_nextId => Owned'
  BY OwnedStep
<1>2. Owned => BufferOwned /\ FreshErrorCode
  BY DEF Owned
<1> QED
  BY <1>0, <1>1, <1>2, PTL DEF Spec

-----------------------------------------------------------------------------
(* What was not sent. *)

\* A call is at one of these labels until its frame is written.
BeforeWrite == {"local_address", "invoke_id"} \cup Unsent

\* A call has no result yet.
Undecided == BeforeWrite \cup {"wait", "wait_notify"}

NotSent == {"SEND_FAILED", "PORTNOTOPEN"}

\* The peer has received no call that is not written yet, and none that was
\* reported as not sent; only the thread itself makes such a report.
UnsentInv ==
    /\ torn = NoRequest
    /\ \A t \in Threads : pc[t] # "idle" => 1 <= calls[t]
    /\ \A q \in asked : 1 <= q.tag[2] /\ q.tag[2] <= calls[q.tag[1]]
    /\ \A q \in asked, t \in Threads : pc[t] \in BeforeWrite => q.tag # Tag(t)
    /\ \A a \in answers : \E q \in asked : q.tag = a.tag
    /\ \A p \in Ports : errorCode[p].code \notin NotSent
    /\ \A t \in Threads : pc[t] \in Undecided => result[t] = NoResult
    /\ \A t \in Threads : result[t].code \in NotSent =>
          result[t] = Local(result[t].code, Tag(t)) /\ \A q \in asked : q.tag # Tag(t)

LEMMA UnsentInit == Init => UnsentInv
<1> SUFFICES ASSUME Init PROVE UnsentInv
  OBVIOUS
<1>1. torn = NoRequest /\ asked = {} /\ answers = {} /\ \A t \in Threads : pc[t] = "idle"
  BY DEF Init
<1>2. \A p \in Ports : errorCode[p].code \notin NotSent
  BY DEF Init, WaitingForResponse, NotSent
<1>3. \A t \in Threads : result[t] = NoResult /\ result[t].code \notin NotSent
  BY DEF Init, NoResult, NotSent
<1> QED
  BY <1>1, <1>2, <1>3 DEF UnsentInv

\* A step inside the call of t that leaves the peer alone, and the labels and
\* results of all other calls.
LEMMA UnsentKept ==
  ASSUME UnsentInv, TypeInv, NEW t \in Threads,
         UNCHANGED <<asked, torn, answers, calls>>,
         \A p \in Ports : errorCode'[p] = errorCode[p] \/ errorCode'[p].code \notin NotSent,
         \A u \in Threads : u # t => pc'[u] = pc[u] /\ result'[u] = result[u],
         pc[t] # "idle", pc'[t] \in BeforeWrite => pc[t] \in BeforeWrite,
         pc'[t] \in Undecided => pc[t] \in Undecided /\ result'[t] = result[t],
         \/ result'[t] = result[t]
         \/ result'[t].code \notin NotSent
         \/ /\ result'[t] = Local(result'[t].code, Tag(t))
            /\ pc[t] \in BeforeWrite
  PROVE  UnsentInv'
  BY DEF UnsentInv, Tag

LEMMA ThreadStepUnsent ==
  ASSUME TypeInv, UnsentInv, NEW t \in Threads, "torn_write" \notin Faults,
         (\E p \in Ports : AdsRequest(t, p)) \/ Thread(t) \/ DeadlinePasses(t)
  PROVE  UnsentInv'
<1> USE DEF Goto, Return, BeforeWrite, Undecided, Unsent, NotSent, TypeInv, TypeOK, ThreadTypes,
        SlotTypes, slotVars, callVars, farVars, socketVars, peerVars
<1>1. ASSUME NEW p \in Ports, AdsRequest(t, p) PROVE UnsentInv'
  <2>1. /\ pc[t] = "idle" /\ calls' = [calls EXCEPT ![t] = @ + 1]
        /\ pc' = [pc EXCEPT ![t] = "local_address"] /\ result' = [result EXCEPT ![t] = NoResult]
        /\ UNCHANGED <<slotVars, asked, torn, answers>>
    BY <1>1 DEF AdsRequest
  <2>2. \A q \in asked : q.tag \in Tags
    BY DEF PeerTypes, Requests
  <2>3. \A q \in asked : 1 <= q.tag[2] /\ q.tag[2] <= calls'[q.tag[1]] /\ q.tag # <<t, calls'[t]>>
    BY <2>1, <2>2 DEF UnsentInv, Tags
  <2>4. \A u \in Threads : u # t => Tag(u)' = Tag(u)
    BY <2>1 DEF Tag
  <2>5. \A q \in asked, u \in Threads : pc'[u] \in BeforeWrite => q.tag # Tag(u)'
    BY <2>1, <2>3, <2>4 DEF UnsentInv, Tag
  <2>6. \A u \in Threads : result'[u].code \in NotSent =>
           result'[u] = Local(result'[u].code, Tag(u)') /\ \A q \in asked : q.tag # Tag(u)'
    BY <2>1, <2>4 DEF UnsentInv, NoResult
  <2> QED
    BY <2>1, <2>3, <2>5, <2>6 DEF UnsentInv
<1>2. CASE GetLocalAddress(t)
  BY <1>2, UnsentKept DEF GetLocalAddress
<1>3. CASE PortNotOpen(t)
  BY <1>3, UnsentKept DEF PortNotOpen, Local
<1>4. CASE GetInvokeId(t)
  BY <1>4, UnsentKept DEF GetInvokeId
<1>5. CASE Reserve(t)
  BY <1>5, UnsentKept DEF Reserve
<1>6. CASE PortInUse(t)
  BY <1>6, UnsentKept DEF PortInUse, Local
<1>7. CASE StoreInvokeId(t)
  BY <1>7, UnsentKept DEF StoreInvokeId
<1>8. CASE WriteFrame(t)
  <2>1. /\ pc[t] = "write" /\ pc' = [pc EXCEPT ![t] = "wait"]
        /\ asked' \subseteq asked \cup {Request(t)} /\ asked \subseteq asked'
        /\ UNCHANGED <<slotVars, calls, result, torn, answers>>
    BY <1>8 DEF WriteFrame, UnsentInv
  <2>2. \A q \in asked' : q \in asked \/ q.tag = Tag(t)
    BY <2>1 DEF Request
  <2>3. Tag(t)[1] = t /\ Tag(t)[2] = calls[t] /\ 1 <= calls[t]
    BY <2>1 DEF Tag, UnsentInv
  <2>4. \A u \in Threads : Tag(u)' = Tag(u) /\ (u # t => Tag(u) # Tag(t))
    BY <2>1 DEF Tag
  <2>5. \A q \in asked' : 1 <= q.tag[2] /\ q.tag[2] <= calls[q.tag[1]]
    BY <2>2, <2>3 DEF UnsentInv
  <2>6. \A q \in asked', u \in Threads : pc'[u] \in BeforeWrite => q.tag # Tag(u)
    BY <2>1, <2>2, <2>4 DEF UnsentInv
  <2>7. \A u \in Threads : result[u].code \in NotSent => \A q \in asked' : q.tag # Tag(u)
    BY <2>1, <2>2, <2>4 DEF UnsentInv, NoResult
  <2> QED
    BY <2>1, <2>4, <2>5, <2>6, <2>7 DEF UnsentInv
<1>9. CASE WriteFails(t)
  BY <1>9, UnsentKept DEF WriteFails, FailWrite, Local
<1>10. CASE WriteTorn(t)
  BY <1>10 DEF WriteTorn
<1>11. CASE WaitTimeout(t)
  BY <1>11, UnsentKept DEF WaitTimeout, TimedOut, Local
<1>12. CASE WaitConsumed(t)
  BY <1>12, UnsentKept DEF WaitConsumed
<1>13. CASE WaitNotify(t)
  BY <1>13, UnsentKept DEF WaitNotify, UnsentInv, PortKnown
<1>14. CASE ReleaseErrorCode(t)
  BY <1>14, UnsentKept DEF ReleaseErrorCode, ReleasedErrorCode, WaitingForResponse
<1>15. CASE ReleaseRequest(t)
  BY <1>15, UnsentKept DEF ReleaseRequest
<1>16. CASE DeadlinePasses(t)
  BY <1>16, UnsentKept DEF DeadlinePasses
<1> QED
  BY <1>1, <1>2, <1>3, <1>4, <1>5, <1>6, <1>7, <1>8, <1>9, <1>10, <1>11, <1>12, <1>13, <1>14, <1>15, <1>16 DEF Thread

LEMMA ReceiverStepUnsent ==
  ASSUME TypeInv, UnsentInv, Receiver
  PROVE  UnsentInv'
<1>1. UNCHANGED <<pc, calls, result, asked, torn, answers>>
  BY ReceiverLeaves DEF threadVars, callVars
<1>2. ASSUME NEW p \in Ports PROVE errorCode'[p].code \notin NotSent
  <2> USE DEF NotSent, Notify, TypeInv, TypeOK, SlotTypes, UnsentInv
  <2>1. CASE UNCHANGED errorCode
    BY <2>1
  <2>2. CASE ReceiveError \/ ReceiveTooLong
    BY <2>2 DEF ReceiveError, ReceiveTooLong, RefuseFrame, Local
  <2>3. CASE DeliverFrame
    BY <2>3 DEF DeliverFrame
  <2>4. CASE ReceiveTimeout
    BY <2>4 DEF ReceiveTimeout, Local
  <2> QED
    BY <2>1, <2>2, <2>3, <2>4, ReceiverLeaves
<1> QED
  BY <1>1, <1>2 DEF UnsentInv, Tag

\* The peer, the network and the destructor: a thread's variables and what the
\* peer has received stay as they are, and the peer answers what it received.
LEMMA PeerLeaves ==
  ASSUME Peer \/ Stop \/ UNCHANGED vars
  PROVE  /\ UNCHANGED <<slotVars, nextId, threadVars, buffer, rxVars, asked, torn>>
         /\ answers \subseteq answers'
         /\ \A a \in answers' : a \in answers \/ \E q \in asked : q.tag = a.tag
<1> USE DEF clientVars, peerVars
<1>1. ASSUME NEW q \in asked, NEW kind \in AnswerKinds, NEW size \in 0 .. MaxPayload,
             NEW len \in 0 .. MaxPayload + 1, PeerAnswers(q, kind, size, len)
      PROVE  /\ UNCHANGED <<slotVars, nextId, threadVars, buffer, rxVars, asked, torn>>
             /\ answers \subseteq answers'
             /\ \A a \in answers' : a \in answers \/ \E r \in asked : r.tag = a.tag
  BY <1>1 DEF PeerAnswers
<1>2. CASE PeerSendsBody \/ Hangup \/ HangupMidFrame \/ Stop
  BY <1>2 DEF PeerSendsBody, Hangup, HangupMidFrame, Stop
<1>3. ASSUME NEW kind \in {"short", "notification"}, NEW len \in 0 .. 1, PeerSendsAlien(kind, len)
      PROVE  UNCHANGED <<slotVars, nextId, threadVars, buffer, rxVars, asked, torn, answers>>
  BY <1>3 DEF PeerSendsAlien
<1>4. CASE UNCHANGED vars
  BY <1>4 DEF vars
<1> QED
  BY <1>1, <1>2, <1>3, <1>4 DEF Peer

LEMMA UnsentStep ==
  "torn_write" \notin Faults /\ TypeInv /\ UnsentInv /\ [Next]_vars => UnsentInv'
<1> SUFFICES ASSUME "torn_write" \notin Faults, TypeInv, UnsentInv, [Next]_vars PROVE UnsentInv'
  OBVIOUS
<1>1. CASE Peer \/ Stop \/ UNCHANGED vars
  BY <1>1, PeerLeaves DEF UnsentInv, Tag, slotVars, threadVars, callVars
<1> QED
  BY <1>1, ThreadStepUnsent, ReceiverStepUnsent DEF Next

\* AmsRouter.cpp:192 repeats a request that returned -1: the peer never
\* receives a call that is reported as not sent, before or after the report, if
\* send() cuts no frame short.  Wrapping ids do no harm to this.
THEOREM UnsentIsNotReceived ==
  WholeBodies /\ "torn_write" \notin Faults => (Spec => []UnsentNotReceived)
<1> SUFFICES ASSUME WholeBodies, "torn_write" \notin Faults PROVE Spec => []UnsentNotReceived
  OBVIOUS
<1>0. Init => TypeInv /\ UnsentInv
  BY TypeInit, UnsentInit
<1>1. TypeInv /\ UnsentInv /\ [Next]_vars => (TypeInv /\ UnsentInv)'
  BY UnsentStep, TypeStep
<1>2. UnsentInv => UnsentNotReceived
  BY DEF UnsentInv, UnsentNotReceived, NotSent, Local
<1> QED
  BY <1>0, <1>1, <1>2, PTL DEF Spec

-----------------------------------------------------------------------------
(* Whose reply it is. *)

\* A reply's headers name a request the peer received, and say of its body what
\* the peer answered.
Replies(h) ==
    /\ \E q \in asked : q.id = h.id /\ q.port = h.port /\ q.tag = h.tag
    /\ \E a \in answers : a.kind = h.kind /\ a.tag = h.tag /\ (h.kind = "ok" => h.len = a.size + 1)

\* r is what the call of t may return once its frame was sent.
Justified(r, t) ==
    \/ \E a \in answers : a.tag = Tag(t) /\ r = Promise!Delivered(a)
    \/ expired[t] /\ r = Local("SYNCTIMEOUT", Tag(t))

\* Each id names one request: the call that waits with it is the one the peer
\* received with it.
IdsName ==
    /\ \A q, r \in asked : q.id = r.id => q = r
    /\ \A q \in asked, t \in Threads : pc[t] \in HasId /\ q.id = callId[t] => q.tag = Tag(t)

\* The frame the receiver has, and the slot it completes with it.
FrameInv ==
    /\ rxpc \in Completing \cup {"pending"} => Replies(frame)
    /\ rxpc \in Completing => frame.tag = Tag(request[slot])
    /\ rxpc \in {"response_header", "payload"} => frame.kind = "ok" /\ ~TooLong(frame)
    /\ rxpc = "response_header" => bytesLeft = frame.len
    /\ rxpc = "payload" => bytesLeft = frame.len - 1

\* A call that leaves its slot has its result.
Releasing == {"release", "release_request"}

NotSentResults(t) == {Local(code, Tag(t)) : code \in NotSent}

\* Ids and tags of requests go together, from the frame that is written to
\* the code that is returned.
Attributed ==
    /\ IdsName
    /\ \A i \in DOMAIN wire : wire[i] \in Heads => Replies(wire[i])
    /\ FrameInv
    /\ \A p \in Ports : errorCode[p] # WaitingForResponse => Justified(errorCode[p], request[p])
    /\ \A t \in Threads : result[t] # NoResult =>
          Justified(result[t], t) \/ result[t] \in NotSentResults(t)
    /\ \A t \in Threads : pc[t] \in Releasing => result[t] # NoResult

AttributedInv == Owned /\ UnsentInv /\ Attributed

LEMMA AttributedInit == Init => Attributed
  BY DEF Init, Attributed, IdsName, FrameInv, Completing, Releasing

\* What an answer delivers, case by case.
LEMMA DeliveredCases ==
  ASSUME NEW a \in Answers
  PROVE  /\ a.kind = "unknown" => Promise!Delivered(a) = Local("SYNCRESINVALID", a.tag)
         /\ a.kind = "aoe" => Promise!Delivered(a) = Local("AOE_ERROR", a.tag)
         /\ a.kind = "ok" /\ a.size > BufferLength =>
               Promise!Delivered(a) = Local("INVALIDSIZE", a.tag)
         /\ a.kind = "ok" /\ ~(a.size > BufferLength) =>
               Promise!Delivered(a) = [code |-> "RESULT", tag |-> a.tag, size |-> a.size]
  BY ConstantsAssumption DEF Promise!Delivered, Local, Answers, AnswerKinds

\* What a step of thread t may change of what is known about calls.
LEMMA ThreadChanges ==
  ASSUME TypeInv, NEW t \in Threads,
         (\E p \in Ports : AdsRequest(t, p)) \/ Thread(t) \/ DeadlinePasses(t)
  PROVE  /\ \A u \in Threads : u # t =>
               /\ pc'[u] = pc[u] /\ port'[u] = port[u] /\ callId'[u] = callId[u]
               /\ calls'[u] = calls[u] /\ expired'[u] = expired[u] /\ result'[u] = result[u]
         /\ \/ calls' = calls /\ (expired[t] => expired'[t])
            \/ pc[t] = "idle" /\ pc'[t] = "local_address" /\ result'[t] = NoResult
         /\ \A p \in Ports :
               \/ request'[p] = request[p]
               \/ request[p] = NoThread
               \/ p = port[t] /\ pc[t] = "release_request"
         /\ \A p \in Ports : errorCode'[p] \in {errorCode[p], WaitingForResponse}
         /\ \/ result'[t] \in {result[t], NoResult} \cup NotSentResults(t)
            \/ result'[t] = Local("SYNCTIMEOUT", Tag(t)) /\ expired[t]
            \/ pc[t] = "wait_notify" /\ result'[t] = errorCode[port[t]]
                 /\ result'[t] # WaitingForResponse
<1> USE DEF Goto, Return, TypeInv, TypeOK, ThreadTypes, SlotTypes, PortKnown, slotVars, threadVars,
        callVars, farVars, NotSentResults, NotSent
<1>1. ASSUME NEW p \in Ports, AdsRequest(t, p)
      PROVE  /\ UNCHANGED <<slotVars, callId>> /\ pc[t] = "idle" /\ pc'[t] = "local_address"
             /\ result'[t] = NoResult
             /\ \A u \in Threads : u # t =>
                  /\ pc'[u] = pc[u] /\ port'[u] = port[u] /\ callId'[u] = callId[u]
                  /\ calls'[u] = calls[u] /\ expired'[u] = expired[u] /\ result'[u] = result[u]
  BY <1>1 DEF AdsRequest
<1>2. CASE GetLocalAddress(t) \/ PortNotOpen(t) \/ GetInvokeId(t) \/ PortInUse(t)
  BY <1>2 DEF GetLocalAddress, PortNotOpen, GetInvokeId, PortInUse
<1>3. CASE Reserve(t) \/ StoreInvokeId(t)
  BY <1>3 DEF Reserve, IsFree, StoreInvokeId
<1>4. CASE WriteFrame(t)
  BY <1>4 DEF WriteFrame
<1>5. CASE WriteFails(t) \/ WriteTorn(t)
  BY <1>5 DEF WriteFails, WriteTorn, FailWrite
<1>6. CASE WaitTimeout(t)
  BY <1>6 DEF WaitTimeout, TimedOut
<1>7. CASE WaitConsumed(t) \/ WaitNotify(t)
  BY <1>7 DEF WaitConsumed, WaitNotify
<1>8. CASE ReleaseErrorCode(t) \/ ReleaseRequest(t)
  BY <1>8 DEF ReleaseErrorCode, ReleasedErrorCode, ReleaseRequest
<1>9. CASE DeadlinePasses(t)
  BY <1>9 DEF DeadlinePasses, FlagTypes
<1> QED
  BY <1>1, <1>2, <1>3, <1>4, <1>5, <1>6, <1>7, <1>8, <1>9 DEF Thread

LEMMA ThreadStepIds ==
  ASSUME AttributedInv, NEW t \in Threads, "torn_write" \notin Faults,
         (\E p \in Ports : AdsRequest(t, p)) \/ Thread(t) \/ DeadlinePasses(t)
  PROVE  IdsName'
<1> USE DEF AttributedInv, Owned, SlotInv, TypeInv, TypeOK
<1>1. CASE GetInvokeId(t)
  <2>1. /\ callId' = [callId EXCEPT ![t] = nextId] /\ pc[t] = "invoke_id"
        /\ UNCHANGED <<asked, calls>>
    BY <1>1 DEF GetInvokeId, callVars, farVars, socketVars, peerVars
  <2>2. \A q \in asked : q.id # nextId
    BY DEF IdsUnique, PeerTypes, Requests, InvokeIds, SlotTypes
  <2>3. \A u \in Threads : u # t => pc'[u] = pc[u]
    BY ThreadChanges
  <2> QED
    BY <2>1, <2>2, <2>3 DEF Attributed, IdsName, Tag, ThreadTypes
<1>2. CASE WriteFrame(t)
  <2>1. /\ asked' \subseteq asked \cup {Request(t)} /\ UNCHANGED <<callId, calls>>
        /\ pc[t] = "write" /\ \A u \in Threads : u # t => pc'[u] = pc[u]
    BY <1>2, ThreadChanges DEF WriteFrame, IdsUnique, callVars
  <2>2. \A q \in asked : q.id # callId[t]
    BY <2>1 DEF IdsUnique, Unsent
  <2>3. \A u \in Threads : u # t /\ pc[u] \in HasId => callId[u] # callId[t]
    BY <2>1 DEF IdsUnique, HasId, Holding
  <2>4. Request(t).id = callId[t] /\ Request(t).tag = Tag(t)
    BY DEF Request
  <2> QED
    BY <2>1, <2>2, <2>3, <2>4 DEF Attributed, IdsName, Tag, HasId, Holding
<1>3. CASE ~GetInvokeId(t) /\ ~WriteFrame(t)
  <2>1. UNCHANGED <<asked, callId>>
    BY <1>3 DEF Thread, AdsRequest, GetLocalAddress, PortNotOpen, Reserve, PortInUse,
       StoreInvokeId, WriteFails, WriteTorn, FailWrite, WaitTimeout, WaitConsumed,
       WaitNotify, ReleaseErrorCode, ReleaseRequest, DeadlinePasses,
       callVars, farVars, socketVars, peerVars
  <2>2. \A u \in Threads : pc'[u] \in HasId => pc[u] \in HasId /\ calls'[u] = calls[u]
    BY <1>3, ThreadChanges DEF Thread, AdsRequest, GetLocalAddress, PortNotOpen, Reserve,
       PortInUse, StoreInvokeId, WriteFails, WriteTorn, FailWrite, WaitTimeout, WaitConsumed,
       WaitNotify, ReleaseErrorCode, ReleaseRequest, DeadlinePasses, Goto, Return, HasId, Holding,
       ThreadTypes, callVars
  <2> QED
    BY <2>1, <2>2 DEF Attributed, IdsName, Tag
<1> QED
  BY <1>1, <1>2, <1>3

LEMMA ThreadStepDecided ==
  ASSUME AttributedInv, NEW t \in Threads,
         (\E p \in Ports : AdsRequest(t, p)) \/ Thread(t) \/ DeadlinePasses(t)
  PROVE  \A u \in Threads : pc'[u] \in Releasing => result'[u] # NoResult
<1> USE DEF AttributedInv, Owned, SlotInv, TypeInv, TypeOK, ThreadTypes, Goto, Releasing
<1>1. \A u \in Threads : u # t /\ pc'[u] \in Releasing => result'[u] # NoResult
  <2>1. \A u \in Threads : u # t => pc'[u] = pc[u] /\ result'[u] = result[u]
    BY ThreadChanges
  <2> QED
    BY <2>1 DEF Attributed
<1>a. \A code, tag : code \in Codes => Local(code, tag) # NoResult
  BY DEF Local, NoResult, Codes
<1>2. CASE WriteFails(t) \/ WriteTorn(t)
  BY <1>1, <1>a, <1>2 DEF WriteFails, WriteTorn, FailWrite, Codes
<1>3. CASE WaitTimeout(t)
  BY <1>1, <1>a, <1>3 DEF WaitTimeout, TimedOut, Codes
<1>4. CASE WaitNotify(t)
  <2>1. errorCode[port[t]] \in Results \cup {WaitingForResponse}
    BY <1>4 DEF WaitNotify, PortKnown, SlotTypes
  <2> QED
    BY <1>1, <1>4, <2>1 DEF WaitNotify, Results, Codes, NoResult
<1>5. CASE ReleaseErrorCode(t) \/ ReleaseRequest(t)
  BY <1>1, <1>5 DEF ReleaseErrorCode, ReleaseRequest, Attributed
<1>6. CASE ~(WriteFails(t) \/ WriteTorn(t) \/ WaitTimeout(t) \/ WaitNotify(t)
              \/ ReleaseErrorCode(t) \/ ReleaseRequest(t))
  <2>1. pc'[t] \in Releasing => pc[t] \in Releasing /\ result' = result
    BY <1>6 DEF Thread, AdsRequest, GetLocalAddress, PortNotOpen, GetInvokeId, Reserve, PortInUse,
       StoreInvokeId, WriteFrame, WaitConsumed, DeadlinePasses, Return
  <2> QED
    BY <1>1, <2>1 DEF Attributed
<1> QED
  BY <1>2, <1>3, <1>4, <1>5, <1>6

LEMMA ThreadStepAttributed ==
  ASSUME AttributedInv, NEW t \in Threads, "torn_write" \notin Faults,
         (\E p \in Ports : AdsRequest(t, p)) \/ Thread(t) \/ DeadlinePasses(t)
  PROVE  Attributed'
<1> USE ConstantsAssumption DEF AttributedInv, Owned, SlotInv, TypeInv, TypeOK
<1>1. /\ UNCHANGED <<rxVars, wire, answers>> /\ asked \subseteq asked'
  BY ThreadLeaves DEF WriteFrame, WriteTorn, FailWrite
<1>2. (\A i \in DOMAIN wire : wire[i] \in Heads => Replies(wire[i]))'
  BY <1>1 DEF Attributed, Replies
<1>3. FrameInv'
  <2>1. (rxpc \in Completing \cup {"pending"} => Replies(frame))'
    BY <1>1 DEF Attributed, FrameInv, Replies, rxVars
  <2>2. ASSUME rxpc \in Completing
        PROVE  request'[slot] = request[slot] /\ calls'[request[slot]] = calls[request[slot]]
    <3>1. slot \in Ports /\ request[slot] \in Threads /\ pc[request[slot]] \in {"wait", "wait_notify"}
      BY <2>2 DEF BufferOwned, ReceiverShape
    <3>2. port[t] = slot /\ pc[t] = "release_request" => request[slot] = t
      BY DEF SlotsExclusive, Holding
    <3> QED
      BY <3>1, <3>2, ThreadChanges
  <2> QED
    BY <1>1, <2>1, <2>2 DEF Attributed, FrameInv, Tag, TooLong, rxVars
<1>4. ASSUME NEW p \in Ports, errorCode'[p] # WaitingForResponse
      PROVE  Justified(errorCode[p], request[p])'
  <2>1. errorCode'[p] = errorCode[p]
    BY <1>4, ThreadChanges
  <2>2. request[p] \in Threads /\ pc[request[p]] \in {"wait", "wait_notify", "release"}
    BY <1>4, <2>1 DEF FreshErrorCode, SlotTypes
  <2>3. p = port[t] /\ pc[t] = "release_request" => request[p] = t
    BY DEF SlotsExclusive, Holding
  <2>4. request'[p] = request[p] /\ calls'[request[p]] = calls[request[p]]
        /\ (expired[request[p]] => expired'[request[p]])
    BY <2>2, <2>3, ThreadChanges
  <2>5. Justified(errorCode[p], request[p])
    BY <1>4, <2>1 DEF Attributed
  <2> QED
    BY <1>1, <2>1, <2>2, <2>4, <2>5 DEF Justified, Tag
<1>5. ASSUME NEW u \in Threads, result'[u] # NoResult
      PROVE  (Justified(result[u], u) \/ result[u] \in NotSentResults(u))'
  <2>1. CASE u # t
    <3>1. /\ result'[u] = result[u] /\ calls'[u] = calls[u] /\ expired'[u] = expired[u]
          /\ Justified(result[u], u) \/ result[u] \in NotSentResults(u)
      BY <1>5, <2>1, ThreadChanges DEF Attributed
    <3> QED
      BY <1>1, <3>1 DEF Justified, NotSentResults, Tag
  <2>2. CASE u = t
    <3>1. calls' = calls /\ (expired[t] => expired'[t])
      BY <1>5, <2>2, ThreadChanges
    <3>2. CASE result'[t] \in {result[t]} \cup NotSentResults(t)
      <4>1. Justified(result'[t], t) \/ result'[t] \in NotSentResults(t)
        BY <1>5, <2>2, <3>2 DEF Attributed
      <4> QED
        BY <1>1, <2>2, <3>1, <4>1 DEF Justified, NotSentResults, Tag
    <3>3. CASE result'[t] = Local("SYNCTIMEOUT", Tag(t)) /\ expired[t]
      BY <2>2, <3>1, <3>3 DEF Justified, Tag
    <3>4. CASE pc[t] = "wait_notify" /\ result'[t] = errorCode[port[t]] /\ result'[t] # WaitingForResponse
      <4>1. port[t] \in Ports /\ request[port[t]] = t
        BY <3>4 DEF PortKnown, SlotsExclusive, Holding
      <4>2. Justified(result'[t], t)
        BY <3>4, <4>1 DEF Attributed
      <4> QED
        BY <1>1, <2>2, <3>1, <4>2 DEF Justified, Tag
    <3> QED
      BY <1>5, <2>2, <3>2, <3>3, <3>4, ThreadChanges
  <2> QED
    BY <2>1, <2>2
<1>6. \A u \in Threads : pc'[u] \in Releasing => result'[u] # NoResult
  BY ThreadStepDecided
<1> QED
  BY <1>2, <1>3, <1>4, <1>5, <1>6, ThreadStepIds DEF Attributed

\* The frame that is matched is the answer to the call that waits in the slot.
LEMMA PendingIsAttributed ==
  ASSUME AttributedInv, GetPending
  PROVE  frame.tag = Tag(request[frame.port])
<1>1. PICK q \in asked : q.id = frame.id /\ q.tag = frame.tag
  BY DEF AttributedInv, Attributed, FrameInv, Replies, GetPending
<1>2. Current(frame.port) /\ invokeId[frame.port] = frame.id /\ pc[request[frame.port]] = "wait"
  BY PendingIsCurrent DEF AttributedInv, GetPending, Matches
<1> QED
  BY <1>1, <1>2 DEF AttributedInv, Attributed, IdsName, Current, HasId, Holding

\* The error code that the receiver notifies is what the call in the slot may
\* return.
LEMMA NotifiedIsJustified ==
  ASSUME AttributedInv,
         ReceiveError \/ ReceiveTooLong \/ DeliverFrame \/ ReceiveTimeout
  PROVE  /\ \A p \in Ports : p # slot => errorCode'[p] = errorCode[p]
         /\ Justified(errorCode'[slot], request[slot])
<1> USE DEF AttributedInv, Owned, SlotInv, TypeInv, TypeOK, Attributed, FrameInv
<1>1. rxpc \in Completing /\ slot \in Ports /\ frame \in Heads
  BY DEF ReceiveError, ReceiveTooLong, OnFrame, DeliverFrame, BodyComplete, ReceiveTimeout,
     Completing, ReceiverShape
<1>2. PICK a \in answers : a.kind = frame.kind /\ a.tag = frame.tag /\ (frame.kind = "ok" => frame.len = a.size + 1)
  BY <1>1 DEF Replies
<1>3. a \in Answers /\ a.tag = Tag(request[slot])
  BY <1>1, <1>2 DEF PeerTypes
<1>4. a.size \in 0 .. MaxPayload /\ frame.len \in 0 .. MaxPayload + 1
  BY <1>1, <1>3 DEF Answers, Heads
<1>5. ASSUME NEW r, Notify(slot, r)
      PROVE  errorCode'[slot] = r /\ \A p \in Ports : p # slot => errorCode'[p] = errorCode[p]
  BY <1>1, <1>5 DEF Notify, SlotTypes
<1>6. TooLong(frame) /\ frame.kind = "ok" <=> a.kind = "ok" /\ a.size > BufferLength
  BY <1>2, <1>4, ConstantsAssumption DEF TooLong, HeaderUnits
<1>7. CASE ReceiveError
  <2>1. Notify(slot, Promise!Delivered(a))
    BY <1>2, <1>3, <1>7, DeliveredCases DEF ReceiveError, OnFrame, RefuseFrame
  <2> QED
    BY <1>2, <1>3, <1>5, <2>1 DEF Justified
<1>8. CASE ReceiveTooLong
  <2>1. Notify(slot, Promise!Delivered(a))
    BY <1>2, <1>3, <1>6, <1>8, DeliveredCases DEF ReceiveTooLong, OnFrame, RefuseFrame
  <2> QED
    BY <1>2, <1>3, <1>5, <2>1 DEF Justified
<1>9. CASE DeliverFrame
  <2>1. frame.kind = "ok" /\ ~TooLong(frame) /\ bytesLeft = a.size
    BY <1>2, <1>4, <1>9 DEF DeliverFrame, BodyComplete
  <2>2. Notify(slot, Promise!Delivered(a))
    BY <1>2, <1>3, <1>6, <1>9, <2>1, DeliveredCases DEF DeliverFrame
  <2> QED
    BY <1>2, <1>3, <1>5, <2>2 DEF Justified
<1>10. CASE ReceiveTimeout
  <2>1. Notify(slot, Local("SYNCTIMEOUT", frame.tag)) /\ expired[owner] /\ rxpc # "frame"
    BY <1>10 DEF ReceiveTimeout
  <2>2. owner = request[slot]
    BY <1>1, <2>1 DEF BufferOwned
  <2> QED
    BY <1>1, <1>5, <2>1, <2>2 DEF Justified
<1> QED
  BY <1>7, <1>8, <1>9, <1>10

LEMMA ReceiverStepAttributed ==
  ASSUME AttributedInv, Receiver
  PROVE  Attributed'
<1> USE DEF AttributedInv, Owned, SlotInv, TypeInv, TypeOK
<1>1. UNCHANGED <<request, pc, callId, calls, expired, result, asked, answers>>
  BY ReceiverLeaves DEF threadVars, callVars
<1>2. IdsName'
  BY <1>1 DEF Attributed, IdsName, Tag
<1>3. (\A i \in DOMAIN wire : wire[i] \in Heads => Replies(wire[i]))'
  BY <1>1, ReceiverLeaves, WireShrinks DEF Attributed, Replies
<1>4. FrameInv'
  <2>1. CASE rxpc' = "pending"
    <3>1. RecvReply
      BY <2>1 DEF Receiver, RecvReply, RecvShort, RecvNotification, RecvBodyAsHeader, NextHeader,
         RecvOutOfStep, GetPending, NoResponsePending, ReceiveError, ReceiveTooLong, OnFrame,
         RefuseFrame, ReceiveFrame, ReceiveResponseHeader, ReceivePayload, DeliverFrame,
         BodyComplete, ReceiveTimeout, ReceiveJunk, ReceiveFails, RecvStops, Junk, NextFrame,
         Exit, rxVars
    <3>2. 1 \in DOMAIN wire /\ wire[1] = Head(wire) /\ frame' = Head(wire) /\ Head(wire) \in Heads
      BY <3>1 DEF RecvReply, NextHeader, TakeUnit, PeerTypes
    <3> QED
      BY <1>1, <2>1, <3>2 DEF Attributed, FrameInv, Replies, Completing
  <2>2. CASE rxpc' \in Completing /\ GetPending
    <3>1. slot' = frame.port /\ frame' = frame /\ rxpc = "pending" /\ rxpc' = "frame"
      BY <2>2, PendingIsCurrent DEF GetPending
    <3> QED
      BY <1>1, <2>2, <3>1, PendingIsAttributed DEF Attributed, FrameInv, Replies, Tag, Completing
  <2>3. CASE rxpc' \in Completing /\ ~GetPending
    <3>1. /\ rxpc \in Completing /\ UNCHANGED slot
          /\ ReceiveFrame \/ ReceiveResponseHeader \/ ReceivePayload
      BY <2>3, ReceiverKeepsSlot
    <3>2. UNCHANGED frame
      BY <3>1 DEF ReceiveFrame, ReceiveResponseHeader, ReceivePayload
    <3>3. ASSUME rxpc' \in {"response_header", "payload"}
          PROVE  frame.kind = "ok" /\ ~TooLong(frame)
      BY <3>1, <3>3 DEF ReceiveFrame, ReceiveResponseHeader, ReceivePayload, OnFrame, Attributed, FrameInv
    <3>4. /\ rxpc' = "response_header" => bytesLeft' = frame.len
          /\ rxpc' = "payload" => bytesLeft' = frame.len - 1
      <4>1. CASE ReceiveResponseHeader
        <5>1. bytesLeft \in 1 .. MaxPayload + 1 /\ bytesLeft = frame.len
          BY <4>1, ConstantsAssumption DEF ReceiveResponseHeader, TypeInv, ReceiverTypes,
             ReceiverShape, Attributed, FrameInv
        <5> QED
          BY <4>1, <5>1, HeaderTaken DEF ReceiveResponseHeader
      <4>2. CASE ReceiveFrame \/ ReceivePayload
        BY <4>2 DEF ReceiveFrame, ReceivePayload, OnFrame, Attributed, FrameInv
      <4> QED
        BY <3>1, <4>1, <4>2
    <3> QED
      BY <1>1, <2>3, <3>1, <3>2, <3>3, <3>4 DEF Attributed, FrameInv, Replies, Tag, TooLong, Completing
  <2> QED
    BY <2>1, <2>2, <2>3 DEF FrameInv, Completing
<1>5. (\A p \in Ports : errorCode[p] # WaitingForResponse => Justified(errorCode[p], request[p]))'
  <2>1. \A p \in Ports : errorCode'[p] # WaitingForResponse => Justified(errorCode'[p], request[p])
    <3>1. CASE UNCHANGED errorCode
      BY <3>1 DEF Attributed
    <3>2. CASE ~UNCHANGED errorCode
      BY <3>2, ReceiverLeaves, NotifiedIsJustified DEF Attributed
    <3> QED
      BY <3>1, <3>2
  <2> QED
    BY <1>1, <2>1 DEF Justified, Tag
<1>6. (\A t \in Threads : result[t] # NoResult =>
          Justified(result[t], t) \/ result[t] \in NotSentResults(t))'
  BY <1>1 DEF Attributed, Justified, NotSentResults, Tag
<1>7. (\A t \in Threads : pc[t] \in Releasing => result[t] # NoResult)'
  BY <1>1 DEF Attributed
<1> QED
  BY <1>2, <1>3, <1>4, <1>5, <1>6, <1>7 DEF Attributed

\* The headers on the wire after a step of the peer: those that were there, and
\* those of an answer the peer has just given.
LEMMA PeerReplies ==
  ASSUME AttributedInv, Peer \/ Stop \/ UNCHANGED vars
  PROVE  (\A i \in DOMAIN wire : wire[i] \in Heads => Replies(wire[i]))'
<1> USE DEF AttributedInv, Owned, SlotInv, TypeInv, TypeOK, PeerTypes
<1>1. asked' = asked /\ answers \subseteq answers'
  BY PeerLeaves
<1>2. ASSUME NEW i \in DOMAIN wire', wire'[i] \in Heads, i \in DOMAIN wire, wire'[i] = wire[i]
      PROVE  Replies(wire[i])'
  BY <1>1, <1>2 DEF Attributed, Replies
<1>3. ASSUME NEW q \in asked, NEW kind \in AnswerKinds, NEW size \in 0 .. MaxPayload,
             NEW len \in 0 .. MaxPayload + 1, PeerAnswers(q, kind, size, len),
             NEW i \in DOMAIN wire', wire'[i] \in Heads
      PROVE  Replies(wire[i])'
  <2> DEFINE head == [kind |-> kind, id |-> q.id, port |-> q.port, tag |-> q.tag, len |-> len]
             answer == [kind |-> kind, tag |-> q.tag, size |-> size]
  <2>1. wire' = Append(wire, head) /\ answer \in answers' /\ (kind = "ok" => len = size + 1)
    BY <1>3 DEF PeerAnswers
  <2>2. /\ head.id = q.id /\ head.port = q.port /\ head.tag = q.tag /\ head.kind = kind /\ head.len = len
        /\ answer.kind = kind /\ answer.tag = q.tag /\ answer.size = size
    OBVIOUS
  <2> HIDE DEF head, answer
  <2>3. CASE i \in DOMAIN wire /\ wire'[i] = wire[i]
    BY <1>2, <1>3, <2>3
  <2>4. CASE wire'[i] = head
    BY <1>1, <2>1, <2>2, <2>4 DEF Replies
  <2> QED
    BY <2>1, <2>3, <2>4
<1>4. ASSUME NEW i \in DOMAIN wire', wire'[i] \in Heads,
             ~\E q \in asked, kind \in AnswerKinds, size \in 0 .. MaxPayload,
                 len \in 0 .. MaxPayload + 1 : PeerAnswers(q, kind, size, len)
      PROVE  Replies(wire[i])'
  <2>1. CASE PeerSendsBody
    <3>1. wire' = Append(wire, [kind |-> "data", tag |-> sending.tag])
      BY <2>1 DEF PeerSendsBody
    <3>2. [kind |-> "data", tag |-> sending.tag] \notin Heads
      BY DEF Heads, AnswerKinds
    <3> QED
      BY <1>2, <1>4, <3>1, <3>2
  <2>2. ASSUME NEW kind \in {"short", "notification"}, NEW len \in 0 .. 1,
               PeerSendsAlien(kind, len)
        PROVE  Replies(wire[i])'
    <3>1. wire' = Append(wire, [kind |-> kind, len |-> len])
      BY <2>2 DEF PeerSendsAlien
    <3>2. [kind |-> kind, len |-> len] \notin Heads
      BY DEF Heads, AnswerKinds
    <3> QED
      BY <1>2, <1>4, <3>1, <3>2
  <2>3. CASE Hangup \/ HangupMidFrame \/ Stop \/ UNCHANGED vars
    BY <1>2, <1>4, <2>3 DEF Hangup, HangupMidFrame, Stop, vars, peerVars
  <2> QED
    BY <1>4, <2>1, <2>2, <2>3 DEF Peer
<1> QED
  BY <1>3, <1>4

LEMMA PeerStepAttributed ==
  ASSUME AttributedInv, Peer \/ Stop \/ UNCHANGED vars
  PROVE  Attributed'
<1>1. /\ UNCHANGED <<request, errorCode, pc, callId, calls, expired, result, rxVars, asked>>
      /\ answers \subseteq answers'
  BY PeerLeaves DEF slotVars, threadVars, callVars
<1>2. IdsName' /\ FrameInv'
  BY <1>1 DEF AttributedInv, Attributed, IdsName, FrameInv, Replies, Tag, TooLong, rxVars
<1>3. /\ (\A p \in Ports : errorCode[p] # WaitingForResponse => Justified(errorCode[p], request[p]))'
      /\ (\A t \in Threads : result[t] # NoResult =>
            Justified(result[t], t) \/ result[t] \in NotSentResults(t))'
      /\ (\A t \in Threads : pc[t] \in Releasing => result[t] # NoResult)'
  BY <1>1 DEF AttributedInv, Attributed, Justified, NotSentResults, Tag
<1> QED
  BY <1>2, <1>3, PeerReplies DEF Attributed

LEMMA AttributedStep ==
  "torn_write" \notin Faults /\ AttributedInv /\ [Next]_vars /\ [NoWrap]_nextId => AttributedInv'
<1> SUFFICES ASSUME "torn_write" \notin Faults, AttributedInv, [Next]_vars, [NoWrap]_nextId
             PROVE  AttributedInv'
  OBVIOUS
<1>1. Owned' /\ UnsentInv'
  BY OwnedStep, UnsentStep DEF AttributedInv, Owned, SlotInv
<1>2. Attributed'
  BY ThreadStepAttributed, ReceiverStepAttributed, PeerStepAttributed DEF Next
<1> QED
  BY <1>1, <1>2 DEF AttributedInv

\* What AdsRequest returns is about the request it was called with: no reply
\* that comes late or to another thread is taken for this one's, as long as the
\* counter of invoke ids has not wrapped and send() cuts no frame short.
THEOREM ResultsAreOwn ==
  WholeBodies /\ "torn_write" \notin Faults => (Spec /\ [][NoWrap]_nextId => []OwnResult)
<1> SUFFICES ASSUME WholeBodies, "torn_write" \notin Faults
             PROVE  Spec /\ [][NoWrap]_nextId => []OwnResult
  OBVIOUS
<1>1. Init => AttributedInv
  BY OwnedInit, UnsentInit, AttributedInit DEF AttributedInv
<1>2. AttributedInv /\ [Next]_vars /\ [NoWrap]_nextId => AttributedInv'
  BY AttributedStep
<1>3. AttributedInv => OwnResult
  <2>1. \A code, tag : Local(code, tag).tag = tag
    BY DEF Local
  <2>2. \A a : Promise!Delivered(a).tag = a.tag
    BY DEF Promise!Delivered
  <2> QED
    BY <2>1, <2>2 DEF AttributedInv, Attributed, Justified, NotSentResults, OwnResult
<1> QED
  BY <1>1, <1>2, <1>3, PTL DEF Spec

-----------------------------------------------------------------------------
(* Each step is one of the promise, or none. *)

Busy == [t \in Threads |-> pc[t] # "idle"]
Returned == [t \in Threads |-> IF pc[t] = "idle" THEN result[t] ELSE NoResult]

\* How a step of thread t moves the two, when the others stay where they are.
LEMMA Enters ==
  ASSUME NEW t \in Threads, pc[t] = "idle", pc'[t] # "idle",
         \A u \in Threads : u # t => pc'[u] = pc[u] /\ result'[u] = result[u]
  PROVE  Busy' = [Busy EXCEPT ![t] = TRUE] /\ Returned' = [Returned EXCEPT ![t] = NoResult]
  BY DEF Busy, Returned

LEMMA Leaves ==
  ASSUME NEW t \in Threads, pc[t] # "idle", pc'[t] = "idle",
         \A u \in Threads : u # t => pc'[u] = pc[u] /\ result'[u] = result[u]
  PROVE  Busy' = [Busy EXCEPT ![t] = FALSE] /\ Returned' = [Returned EXCEPT ![t] = result'[t]]
  BY DEF Busy, Returned

LEMMA Stays ==
  ASSUME NEW t \in Threads, pc[t] # "idle", pc'[t] # "idle",
         \A u \in Threads : u # t => pc'[u] = pc[u] /\ result'[u] = result[u]
  PROVE  Busy' = Busy /\ Returned' = Returned
  BY DEF Busy, Returned

\* A call that was not sent has no answer.
LEMMA UnsentHasNoAnswer ==
  ASSUME UnsentInv, NEW t \in Threads, \A q \in asked : q.tag # Tag(t)
  PROVE  Promise!AnswersTo(t) = {}
  BY DEF UnsentInv, Promise!AnswersTo, Tag

\* What a call returns when it leaves its slot is the promise's to give.
LEMMA ReturnRefines ==
  ASSUME AttributedInv, NEW t \in Threads, ReleaseRequest(t)
  PROVE  Promise!Return(t)
<1> USE DEF AttributedInv, Owned, SlotInv, TypeInv, TypeOK
<1>1. /\ pc[t] = "release_request" /\ pc'[t] = "idle"
      /\ \A u \in Threads : u # t => pc'[u] = pc[u] /\ result'[u] = result[u]
      /\ UNCHANGED <<calls, expired, answers, result>>
  BY DEF ReleaseRequest, Goto, ThreadTypes, callVars, farVars, socketVars, peerVars
<1>2. /\ Busy[t] /\ Busy' = [Busy EXCEPT ![t] = FALSE]
      /\ Returned' = [Returned EXCEPT ![t] = result[t]]
  BY <1>1, Leaves DEF Busy
<1> USE DEF Promise!ReturnWith, Busy, Returned
<1>3. Justified(result[t], t) \/ result[t] \in NotSentResults(t)
  BY <1>1 DEF Attributed, Releasing
<1>4. ASSUME NEW a \in answers, a.tag = Tag(t), result[t] = Promise!Delivered(a)
      PROVE  Promise!ReturnAnswer(t)
  BY <1>1, <1>2, <1>4 DEF Promise!ReturnAnswer, Promise!AnswersTo, Tag
<1>5. CASE expired[t] /\ result[t] = Local("SYNCTIMEOUT", Tag(t))
  BY <1>1, <1>2, <1>5 DEF Promise!Return, Promise!ReturnTimeout, Promise!Local, Local, Tag
<1>6. ASSUME NEW code \in NotSent, result[t] = Local(code, Tag(t))
      PROVE  Promise!ReturnUnsent(t)
  <2>1. \A q \in asked : q.tag # Tag(t)
    BY <1>6 DEF UnsentInv, Local
  <2>2. Promise!AnswersTo(t) = {}
    BY <2>1, UnsentHasNoAnswer
  <2> QED
    BY <1>1, <1>2, <1>6, <2>2 DEF Promise!ReturnUnsent, Promise!Local, Local, Tag, NotSent
<1> QED
  BY <1>3, <1>4, <1>5, <1>6 DEF Justified, NotSentResults, Promise!Return

\* A call that fails before it has a slot.
LEMMA RefusalRefines ==
  ASSUME AttributedInv, NEW t \in Threads, PortNotOpen(t) \/ PortInUse(t)
  PROVE  Promise!ReturnUnsent(t)
<1> USE DEF AttributedInv, Owned, SlotInv, TypeInv, TypeOK
<1>1. /\ pc[t] \in BeforeWrite /\ pc'[t] = "idle"
      /\ \E code \in NotSent : result'[t] = Local(code, Tag(t))
      /\ \A u \in Threads : u # t => pc'[u] = pc[u] /\ result'[u] = result[u]
      /\ UNCHANGED <<calls, expired, answers>>
  BY DEF PortNotOpen, PortInUse, Return, Goto, ThreadTypes, callVars, farVars, socketVars,
     peerVars, BeforeWrite, Unsent, NotSent
<1>2. Promise!AnswersTo(t) = {}
  BY <1>1, UnsentHasNoAnswer DEF UnsentInv
<1>3. pc[t] # "idle"
  BY <1>1 DEF BeforeWrite, Unsent
<1>4. /\ Busy[t] /\ Busy' = [Busy EXCEPT ![t] = FALSE]
      /\ Returned' = [Returned EXCEPT ![t] = result'[t]]
  BY <1>1, <1>3, Leaves DEF Busy
<1> QED
  BY <1>1, <1>2, <1>4 DEF Busy, Returned, Promise!ReturnWith, Promise!ReturnUnsent, Promise!Local, Local, Tag, NotSent

LEMMA ThreadStepRefines ==
  ASSUME AttributedInv, NEW t \in Threads,
         (\E p \in Ports : AdsRequest(t, p)) \/ Thread(t) \/ DeadlinePasses(t)
  PROVE  [Promise!Next]_(Promise!vars)
<1> USE DEF AttributedInv, Owned, SlotInv, TypeInv, TypeOK
<1>1. ASSUME NEW p \in Ports, AdsRequest(t, p) PROVE Promise!Call(t)
  <2>1. /\ pc[t] = "idle" /\ pc'[t] = "local_address" /\ calls[t] < MaxRequests
        /\ calls' = [calls EXCEPT ![t] = @ + 1] /\ expired' = [expired EXCEPT ![t] = FALSE]
        /\ \A u \in Threads : u # t => pc'[u] = pc[u] /\ result'[u] = result[u]
        /\ UNCHANGED answers
    BY <1>1 DEF AdsRequest, Goto, ThreadTypes, farVars, socketVars, peerVars
  <2>2. ~Busy[t] /\ Busy' = [Busy EXCEPT ![t] = TRUE] /\ Returned' = [Returned EXCEPT ![t] = NoResult]
    BY <2>1, Enters DEF Busy
  <2> QED
    BY <2>1, <2>2 DEF Promise!Call, Promise!NoResult, NoResult, Busy, Returned
<1>2. CASE DeadlinePasses(t)
  <2>1. /\ pc[t] # "idle" /\ expired' = [expired EXCEPT ![t] = TRUE]
        /\ UNCHANGED <<pc, calls, answers, result>>
    BY <1>2 DEF DeadlinePasses, farVars, socketVars, peerVars
  <2>2. Busy[t] /\ Busy' = Busy /\ Returned' = Returned
    BY <2>1 DEF Busy, Returned
  <2> QED
    BY <2>1, <2>2 DEF Promise!Next, Promise!DeadlinePasses, Busy, Returned
<1>3. CASE PortNotOpen(t) \/ PortInUse(t)
  BY <1>3, RefusalRefines DEF Promise!Next, Promise!Return
<1>4. CASE ReleaseRequest(t)
  BY <1>4, ReturnRefines DEF Promise!Next
<1>5. CASE \/ GetLocalAddress(t) \/ GetInvokeId(t) \/ Reserve(t) \/ StoreInvokeId(t)
           \/ WriteFrame(t) \/ WriteFails(t) \/ WriteTorn(t) \/ WaitTimeout(t) \/ WaitConsumed(t)
           \/ WaitNotify(t) \/ ReleaseErrorCode(t)
  <2>1. /\ pc[t] # "idle" /\ pc'[t] # "idle" /\ UNCHANGED <<calls, expired, answers>>
        /\ \A u \in Threads : u # t => pc'[u] = pc[u] /\ result'[u] = result[u]
    BY <1>5 DEF GetLocalAddress, GetInvokeId, Reserve, StoreInvokeId, WriteFrame, WriteFails,
       WriteTorn, FailWrite, WaitTimeout, WaitConsumed, WaitNotify, ReleaseErrorCode, Goto,
       ThreadTypes, callVars, farVars, socketVars, peerVars
  <2>2. Busy' = Busy /\ Returned' = Returned
    BY <2>1, Stays
  <2> QED
    BY <2>1, <2>2 DEF Promise!vars, Busy, Returned
<1> QED
  BY <1>1, <1>2, <1>3, <1>4, <1>5 DEF Thread, Promise!Next

\* Steps that change nothing of what the promise is about.
LEMMA PromiseStutters ==
  ASSUME UNCHANGED <<pc, calls, expired, answers, result>>
  PROVE  UNCHANGED Promise!vars
  BY DEF Promise!vars

LEMMA PeerStepRefines ==
  ASSUME AttributedInv, Peer \/ Stop \/ UNCHANGED vars
  PROVE  [Promise!Next]_(Promise!vars)
<1> USE DEF AttributedInv, Owned, SlotInv, TypeInv, TypeOK
<1>1. UNCHANGED <<pc, calls, expired, result>>
  BY PeerLeaves DEF threadVars, callVars
<1>2. ASSUME NEW q \in asked, NEW kind \in AnswerKinds, NEW size \in 0 .. MaxPayload,
             NEW len \in 0 .. MaxPayload + 1, PeerAnswers(q, kind, size, len)
      PROVE  Promise!Next
  <2> DEFINE a == [kind |-> kind, tag |-> q.tag, size |-> size]
  <2>1. answers' = answers \cup {a} /\ \A b \in answers : b.tag # a.tag
    BY <1>2 DEF PeerAnswers
  <2>2. a \in Promise!Answers /\ q.tag \in Tags /\ a.tag = q.tag
    BY DEF Promise!Answers, Promise!Tags, Tags, AnswerKinds, PeerTypes, Requests
  <2>3. PICK t \in Threads, n \in 0 .. MaxRequests : q.tag = <<t, n>>
    BY <2>2 DEF Tags
  <2>4. n \in 1 .. calls[t]
    BY <2>3 DEF UnsentInv, ThreadTypes
  <2>5. Returned[t].code \in NotSent => Returned[t] # Local(Returned[t].code, a.tag)
    <3>1. ASSUME result[t].code \in NotSent PROVE result[t] # Local(result[t].code, a.tag)
      <4>1. result[t] = Local(result[t].code, Tag(t)) /\ q.tag # Tag(t)
        BY <3>1 DEF UnsentInv
      <4>2. \A code, tag : Local(code, tag).tag = tag
        BY DEF Local
      <4> QED
        BY <2>2, <4>1, <4>2
    <3> QED
      BY <3>1 DEF Returned, NoResult, NotSent
  <2>6. Returned[t] \notin {Local("SEND_FAILED", a.tag), Local("PORTNOTOPEN", a.tag)}
    BY <2>5 DEF Local, NotSent
  <2>7. Busy' = Busy /\ Returned' = Returned
    BY <1>1 DEF Busy, Returned
  <2>8. Promise!PeerAnswers(a)
    <3>1. a.tag[1] = t /\ a.tag[2] = n
      BY <2>2, <2>3
    <3> HIDE DEF a
    <3> QED
      BY <1>1, <2>1, <2>4, <2>6, <2>7, <3>1
         DEF Promise!PeerAnswers, Promise!Local, Local, Busy, Returned
  <2> HIDE DEF a
  <2> QED
    BY <2>2, <2>8 DEF Promise!Next
<1>3. CASE PeerSendsBody \/ Hangup \/ HangupMidFrame \/ Stop \/ UNCHANGED vars
  BY <1>1, <1>3, PromiseStutters DEF PeerSendsBody, Hangup, HangupMidFrame, Stop, vars, peerVars
<1>4. ASSUME NEW kind \in {"short", "notification"}, NEW len \in 0 .. 1, PeerSendsAlien(kind, len)
      PROVE  UNCHANGED Promise!vars
  BY <1>1, <1>4, PromiseStutters DEF PeerSendsAlien
<1> QED
  BY <1>2, <1>3, <1>4 DEF Peer

LEMMA StepRefines == AttributedInv /\ [Next]_vars => [Promise!Next]_(Promise!vars)
<1> SUFFICES ASSUME AttributedInv, [Next]_vars PROVE [Promise!Next]_(Promise!vars)
  OBVIOUS
<1>1. CASE Receiver
  BY <1>1, ReceiverLeaves, PromiseStutters DEF threadVars, callVars
<1> QED
  BY <1>1, ThreadStepRefines, PeerStepRefines DEF Next

\* AmsConnection.h:54, "wait for response or timeout and return received
\* errorCode or ADSERR_CLIENT_SYNCTIMEOUT": the threads, the slots and the
\* receiver together implement AmsRequestSpec.  What a call returns is decided
\* by the peer's one answer to this very call, by its own deadline, or by a
\* failure to send that the peer never saw, as long as the counter of invoke
\* ids has not wrapped and send() cuts no frame short.  (The run
\* checks KeepsFairPromise, which adds that calls return.)
THEOREM PromiseIsKept ==
  WholeBodies /\ "torn_write" \notin Faults => (Spec /\ [][NoWrap]_nextId => KeepsPromise)
<1> SUFFICES ASSUME WholeBodies, "torn_write" \notin Faults
             PROVE  Spec /\ [][NoWrap]_nextId => KeepsPromise
  OBVIOUS
<1>1. Init => AttributedInv /\ Promise!Init
  <2>1. Init => Promise!Init
    BY DEF Init, Promise!Init, Promise!NoResult, NoResult
  <2> QED
    BY <2>1, OwnedInit, UnsentInit, AttributedInit DEF AttributedInv
<1>2. AttributedInv /\ [Next]_vars /\ [NoWrap]_nextId => AttributedInv'
  BY AttributedStep
<1>3. AttributedInv /\ [Next]_vars => [Promise!Next]_(Promise!vars)
  BY StepRefines
<1> QED
  BY <1>1, <1>2, <1>3, PTL DEF Spec, KeepsPromise, Promise!Spec

\* The receiver notifies only a slot that is not settled; a thread only resets
\* the error code of its slot.
LEMMA SettlingStep ==
  ASSUME Owned, Next, NEW p \in Ports, errorCode'[p] # errorCode[p]
  PROVE  errorCode[p] = WaitingForResponse \/ errorCode'[p] = WaitingForResponse
<1>1. CASE Receiver
  <2>1. rxpc \in Completing /\ \E r : Notify(slot, r)
    BY <1>1, ReceiverLeaves DEF ReceiveError, ReceiveTooLong, RefuseFrame, OnFrame, DeliverFrame,
       BodyComplete, ReceiveTimeout, Completing
  <2>2. p # slot => errorCode'[p] = errorCode[p]
    BY <2>1 DEF Notify, Owned, SlotInv, TypeInv, TypeOK, SlotTypes
  <2> QED
    BY <2>1, <2>2 DEF Owned, SlotUnsettled
<1>2. ASSUME NEW t \in Threads,
             (\E q \in Ports : AdsRequest(t, q)) \/ Thread(t) \/ DeadlinePasses(t)
      PROVE  errorCode'[p] = WaitingForResponse
  BY <1>2, ThreadChanges DEF Owned, SlotInv
<1>3. CASE Peer \/ Stop
  BY <1>3, PeerLeaves DEF slotVars
<1> QED
  BY <1>1, <1>2, <1>3 DEF Next

\* A request is settled once: an error code that was notified stays until its
\* waiter has taken it and releases the slot, so that no second reply and no
\* deadline can replace it.
THEOREM RequestsSettleOnce ==
  WholeBodies /\ "torn_write" \notin Faults => (Spec /\ [][NoWrap]_nextId => SettledOnce)
<1> SUFFICES ASSUME WholeBodies, "torn_write" \notin Faults
             PROVE  Spec /\ [][NoWrap]_nextId => SettledOnce
  OBVIOUS
<1>0. Init => Owned
  BY OwnedInit
<1>1. Owned /\ [Next]_vars /\ [NoWrap]_nextId => Owned'
  BY OwnedStep
<1>2. Owned /\ [Next]_vars =>
         [\A p \in Ports : errorCode'[p] # errorCode[p] =>
             errorCode[p] = WaitingForResponse \/ errorCode'[p] = WaitingForResponse]_vars
  BY SettlingStep
<1> QED
  BY <1>0, <1>1, <1>2, PTL DEF Spec, SettledOnce

-----------------------------------------------------------------------------
(***************************************************************************)
(* How the receiver follows the reply stream: that it reads headers where  *)
(* the peer wrote headers, and that a caller finds exactly the payload of  *)
(* its own reply in its buffer, for every value of the constants.          *)
(***************************************************************************)
(* The shape of the stream. *)

DataOf(tag) == [kind |-> "data", tag |-> tag]

\* The body units that belong to head h.
BodyOf(h) == DataOf(IF h \in Heads THEN h.tag ELSE NoTag)

\* Of the units w on a link that is up or not, while the peer has left body units
\* of tag still to send: behind position i there are n body units d, as far as
\* they have been sent, and then another header.
Follows(w, up, left, tag, i, n, d) ==
    /\ \A j \in DOMAIN w : i < j /\ j <= i + n => w[j] = d
    /\ \A j \in DOMAIN w : j = i + n + 1 => w[j] \notin Data
    /\ up /\ i + n >= Len(w) => i + n = Len(w) + left
    /\ up /\ i + n > Len(w) => d = DataOf(tag)

\* So it is on this wire.
Behind(i, n, d) == Follows(wire, link = "up", sending.left, sending.tag, i, n, d)

\* Behind every header its body follows.
Framed ==
    \A i \in DOMAIN wire : wire[i] \notin Data =>
        Behind(i, wire[i].len, BodyOf(wire[i]))

\* A receiver inside a reply has the rest of its body in front of it.
InFrame ==
    rxpc \in Completing \cup {"pending"} =>
        Behind(0, Remaining, DataOf(frame.tag))

\* What a unit that is not body data says of its body, and that data is data.
LEMMA UnitLengths ==
  /\ \A u \in Units : u \notin Data => u.len \in 0 .. MaxPayload + 1
  /\ \A tag \in Tags \cup {NoTag} : DataOf(tag) \in Data
  /\ \A u \in Data : u \notin Heads /\ u \notin AlienHeads
  /\ \A u \in AlienHeads : u \notin Heads
  BY ConstantsAssumption DEF Units, Heads, AlienHeads, AnswerKinds, Data, DataOf

LEMMA WireAfterAppend ==
  ASSUME NEW w \in Seq(Units), NEW u \in Units
  PROVE  /\ Append(w, u) \in Seq(Units) /\ Len(Append(w, u)) = Len(w) + 1
         /\ \A j \in DOMAIN Append(w, u) :
               IF j = Len(w) + 1 THEN Append(w, u)[j] = u
                                 ELSE j \in DOMAIN w /\ Append(w, u)[j] = w[j]
  OBVIOUS

LEMMA WireAfterTail ==
  ASSUME NEW w \in Seq(Units), w # <<>>
  PROVE  /\ Tail(w) \in Seq(Units) /\ Len(Tail(w)) = Len(w) - 1 /\ Len(w) \in Nat
         /\ DOMAIN w = 1 .. Len(w) /\ DOMAIN Tail(w) = 1 .. Len(w) - 1
         /\ \A j \in DOMAIN Tail(w) : j + 1 \in DOMAIN w /\ Tail(w)[j] = w[j + 1]
         /\ 1 \in DOMAIN w /\ Head(w) = w[1]
  OBVIOUS

\* A unit is taken: what follows a position further back still follows it, ...
LEMMA FollowsTail ==
  ASSUME NEW w \in Seq(Units), w # <<>>, NEW up, NEW left \in Nat, NEW tag,
         NEW i \in Nat \ {0}, NEW n \in Nat, NEW d,
         Follows(w, up, left, tag, i, n, d)
  PROVE  Follows(Tail(w), up, left, tag, i - 1, n, d)
<1> DEFINE v == Tail(w)
<1>1. PICK m \in Nat : Len(w) = m /\ Len(v) = m - 1
  BY WireAfterTail
<1>2. \A j \in DOMAIN v : j \in Nat /\ j + 1 \in DOMAIN w /\ v[j] = w[j + 1]
  BY WireAfterTail
<1> HIDE DEF v
<1>3. \A j \in DOMAIN v : i - 1 < j /\ j <= i - 1 + n => v[j] = d
  BY <1>2 DEF Follows
<1>4. \A j \in DOMAIN v : j = i - 1 + n + 1 => v[j] \notin Data
  BY <1>2 DEF Follows
<1>5. /\ up /\ i - 1 + n >= m - 1 => i - 1 + n = m - 1 + left
      /\ up /\ i - 1 + n > m - 1 => d = DataOf(tag)
  <2>1. /\ up /\ i + n >= m => i + n = m + left
        /\ up /\ i + n > m => d = DataOf(tag)
    BY <1>1 DEF Follows
  <2> QED
    BY <2>1
<1> QED
  BY <1>1, <1>3, <1>4, <1>5 DEF Follows, v

\* ... and of a body at the front there is one unit less.
LEMMA FollowsFirst ==
  ASSUME NEW w \in Seq(Units), w # <<>>, NEW up, NEW left \in Nat, NEW tag,
         NEW n \in Nat \ {0}, NEW d,
         Follows(w, up, left, tag, 0, n, d)
  PROVE  Head(w) = d /\ Follows(Tail(w), up, left, tag, 0, n - 1, d)
<1> DEFINE v == Tail(w)
<1>1. PICK m \in Nat : Len(w) = m /\ Len(v) = m - 1
  BY WireAfterTail
<1>2. /\ 1 \in DOMAIN w /\ Head(w) = w[1]
      /\ \A j \in DOMAIN v : j \in Nat /\ j + 1 \in DOMAIN w /\ v[j] = w[j + 1]
  BY WireAfterTail
<1> HIDE DEF v
<1>3. Head(w) = d
  BY <1>2 DEF Follows
<1>4. \A j \in DOMAIN v : 0 < j /\ j <= 0 + (n - 1) => v[j] = d
  BY <1>2 DEF Follows
<1>5. \A j \in DOMAIN v : j = 0 + (n - 1) + 1 => v[j] \notin Data
  BY <1>2 DEF Follows
<1>6. /\ up /\ 0 + (n - 1) >= m - 1 => 0 + (n - 1) = m - 1 + left
      /\ up /\ 0 + (n - 1) > m - 1 => d = DataOf(tag)
  <2>1. /\ up /\ 0 + n >= m => 0 + n = m + left
        /\ up /\ 0 + n > m => d = DataOf(tag)
    BY <1>1 DEF Follows
  <2> QED
    BY <2>1
<1> QED
  BY <1>1, <1>3, <1>4, <1>5, <1>6 DEF Follows, v

\* The next body unit arrives where it is expected, ...
LEMMA FollowsBody ==
  ASSUME NEW w \in Seq(Units), NEW left \in Nat \ {0}, NEW tag, DataOf(tag) \in Units,
         NEW i \in 0 .. Len(w), NEW n \in Nat, NEW d,
         Follows(w, TRUE, left, tag, i, n, d)
  PROVE  Follows(Append(w, DataOf(tag)), TRUE, left - 1, tag, i, n, d)
<1> DEFINE u == DataOf(tag)
           v == Append(w, u)
<1>1. PICK m \in Nat : Len(w) = m /\ Len(v) = m + 1
  BY WireAfterAppend
<1>2. \A j \in DOMAIN v : j \in Nat /\ IF j = m + 1 THEN v[j] = u ELSE j \in DOMAIN w /\ v[j] = w[j]
  BY <1>1, WireAfterAppend
<1>3. i \in Nat /\ (i + n >= m => i + n = m + left) /\ (i + n > m => d = u)
  BY <1>1 DEF Follows
<1> HIDE DEF u, v
<1>4. \A j \in DOMAIN v : i < j /\ j <= i + n => v[j] = d
  BY <1>2, <1>3 DEF Follows
<1>5. \A j \in DOMAIN v : j = i + n + 1 => v[j] \notin Data
  BY <1>2, <1>3 DEF Follows
<1>6. /\ i + n >= m + 1 => i + n = m + 1 + (left - 1)
      /\ i + n > m + 1 => d = u
  BY <1>3
<1> QED
  BY <1>1, <1>4, <1>5, <1>6 DEF Follows, u, v

\* ... and a header only behind complete bodies.
LEMMA FollowsHeader ==
  ASSUME NEW w \in Seq(Units), NEW tag, NEW left, NEW next, NEW i \in 0 .. Len(w), NEW n \in Nat,
         NEW d, NEW h \in Units, h \notin Data, Follows(w, TRUE, 0, tag, i, n, d)
  PROVE  Follows(Append(w, h), TRUE, left, next, i, n, d)
<1> DEFINE v == Append(w, h)
<1>1. PICK m \in Nat : Len(w) = m /\ Len(v) = m + 1
  BY WireAfterAppend
<1>2. \A j \in DOMAIN v : j \in Nat /\ IF j = m + 1 THEN v[j] = h ELSE j \in DOMAIN w /\ v[j] = w[j]
  BY <1>1, WireAfterAppend
<1>3. i \in Nat /\ i + n <= m
  BY <1>1 DEF Follows
<1> HIDE DEF v
<1>4. \A j \in DOMAIN v : i < j /\ j <= i + n => v[j] = d
  BY <1>2, <1>3 DEF Follows
<1>5. \A j \in DOMAIN v : j = i + n + 1 => v[j] \notin Data
  BY <1>2, <1>3 DEF Follows
<1> QED
  BY <1>1, <1>3, <1>4, <1>5 DEF Follows, v

\* Nothing is behind a new header yet.
LEMMA FollowsNew ==
  ASSUME NEW w \in Seq(Units), NEW n \in Nat, NEW tag, NEW h \in Units
  PROVE  Follows(Append(w, h), TRUE, n, tag, Len(w) + 1, n, DataOf(tag))
<1> DEFINE v == Append(w, h)
<1>1. Len(v) = Len(w) + 1 /\ Len(w) \in Nat /\ \A j \in DOMAIN v : j \in Nat /\ j <= Len(w) + 1
  BY WireAfterAppend
<1> HIDE DEF v
<1>2. Follows(v, TRUE, n, tag, Len(w) + 1, n, DataOf(tag))
  BY <1>1 DEF Follows
<1> QED
  BY <1>2 DEF v

-----------------------------------------------------------------------------
(* The stream keeps its shape. *)

\* What the steps of the peer, the network and the destructor do to the stream
\* behind a position of the wire.
LEMMA PeerKeepsBehind ==
  ASSUME TypeInv, Peer \/ Stop \/ UNCHANGED vars,
         NEW i \in Nat, i <= Len(wire), NEW n \in Nat, NEW d, Behind(i, n, d)
  PROVE  Follows(wire', link' = "up", sending'.left, sending'.tag, i, n, d)
<1> USE DEF TypeInv, TypeOK, PeerTypes
<1>1. wire \in Seq(Units) /\ sending.left \in Nat /\ i \in 0 .. Len(wire)
  BY ConstantsAssumption
<1>2. Follows(wire, link = "up", sending.left, sending.tag, i, n, d)
  BY DEF Behind
<1>3. ASSUME link = "up", link' = "up", sending.left = 0,
             NEW h \in Units, h \notin Data, wire' = Append(wire, h)
      PROVE  Follows(wire', link' = "up", sending'.left, sending'.tag, i, n, d)
  <2>1. Follows(wire, TRUE, 0, sending.tag, i, n, d)
    BY <1>2, <1>3
  <2>2. Follows(Append(wire, h), TRUE, sending'.left, sending'.tag, i, n, d)
    BY <1>1, <1>3, <2>1, FollowsHeader
  <2> QED
    BY <1>3, <2>2
<1>4. ASSUME NEW q \in asked, NEW kind \in AnswerKinds, NEW size \in 0 .. MaxPayload,
             NEW len \in 0 .. MaxPayload + 1, PeerAnswers(q, kind, size, len)
      PROVE  Follows(wire', link' = "up", sending'.left, sending'.tag, i, n, d)
  <2> DEFINE h == [kind |-> kind, id |-> q.id, port |-> q.port, tag |-> q.tag, len |-> len]
  <2>1. link = "up" /\ link' = "up" /\ sending.left = 0 /\ wire' = Append(wire, h) /\ (kind = "ok" => len > 0)
    BY <1>4 DEF PeerAnswers
  <2>2. h \in Heads
    BY <2>1 DEF Heads, Requests
  <2>3. h \in Units /\ h \notin Data
    BY <2>2, UnitLengths DEF Units
  <2> HIDE DEF h
  <2> QED
    BY <1>3, <2>1, <2>3
<1>5. CASE PeerSendsBody
  <2>1. /\ link = "up" /\ link' = "up" /\ sending.left \in Nat \ {0}
        /\ wire' = Append(wire, DataOf(sending.tag))
        /\ sending'.left = sending.left - 1 /\ sending'.tag = sending.tag
    BY <1>1, <1>5 DEF PeerSendsBody, DataOf
  <2>2. DataOf(sending.tag) \in Units
    BY UnitLengths DEF Units
  <2>3. Follows(wire, TRUE, sending.left, sending.tag, i, n, d)
    BY <1>2, <2>1
  <2>4. Follows(Append(wire, DataOf(sending.tag)), TRUE, sending.left - 1, sending.tag, i, n, d)
    BY <1>1, <2>1, <2>2, <2>3, FollowsBody
  <2> QED
    BY <2>1, <2>4
<1>6. ASSUME NEW kind \in {"short", "notification"}, NEW len \in 0 .. 1, PeerSendsAlien(kind, len)
      PROVE  Follows(wire', link' = "up", sending'.left, sending'.tag, i, n, d)
  <2> DEFINE h == [kind |-> kind, len |-> len]
  <2>1. link = "up" /\ link' = "up" /\ sending.left = 0 /\ wire' = Append(wire, h)
    BY <1>6 DEF PeerSendsAlien
  <2>2. h \in AlienHeads
    BY DEF AlienHeads
  <2>3. h \in Units /\ h \notin Data
    BY <2>2, UnitLengths DEF Units
  <2> HIDE DEF h
  <2> QED
    BY <1>3, <2>1, <2>3
<1>7. CASE Hangup \/ HangupMidFrame \/ Stop
  <2>1. link' = "down" /\ wire' \in {wire, <<>>}
    BY <1>7 DEF Hangup, HangupMidFrame, Stop, peerVars
  <2> QED
    BY <1>2, <2>1 DEF Follows
<1>8. CASE UNCHANGED vars
  BY <1>2, <1>8 DEF vars, peerVars
<1> QED
  BY <1>4, <1>5, <1>6, <1>7, <1>8 DEF Peer

\* A header that the peer adds is followed by nothing yet.
LEMMA PeerAddsHeader ==
  ASSUME TypeInv, Peer \/ Stop \/ UNCHANGED vars,
         NEW i \in DOMAIN wire', i \notin DOMAIN wire, wire'[i] \notin Data
  PROVE  Follows(wire', link' = "up", sending'.left, sending'.tag, i, wire'[i].len, BodyOf(wire'[i]))
<1> USE DEF TypeInv, TypeOK, PeerTypes
<1>1. ASSUME NEW q \in asked, NEW kind \in AnswerKinds, NEW size \in 0 .. MaxPayload,
             NEW len \in 0 .. MaxPayload + 1, PeerAnswers(q, kind, size, len)
      PROVE  Follows(wire', link' = "up", sending'.left, sending'.tag, i, wire'[i].len, BodyOf(wire'[i]))
  <2> DEFINE h == [kind |-> kind, id |-> q.id, port |-> q.port, tag |-> q.tag, len |-> len]
  <2>1. /\ link' = "up" /\ wire' = Append(wire, h) /\ (kind = "ok" => len > 0)
        /\ sending'.left = len /\ sending'.tag = q.tag
    BY <1>1 DEF PeerAnswers
  <2>2. h \in Heads /\ h.len = len /\ h.tag = q.tag
    BY <2>1 DEF Heads, Requests
  <2>3. h \in Units /\ len \in Nat
    BY <2>2 DEF Units
  <2> HIDE DEF h
  <2>4. i = Len(wire) + 1 /\ wire'[i] = h
    BY <2>1, <2>3
  <2>5. Follows(Append(wire, h), TRUE, len, q.tag, Len(wire) + 1, len, DataOf(q.tag))
    BY <2>3, FollowsNew
  <2>6. BodyOf(h) = DataOf(q.tag)
    BY <2>2 DEF BodyOf
  <2> QED
    BY <2>1, <2>2, <2>4, <2>5, <2>6
<1>2. ASSUME NEW kind \in {"short", "notification"}, NEW len \in 0 .. 1, PeerSendsAlien(kind, len)
      PROVE  Follows(wire', link' = "up", sending'.left, sending'.tag, i, wire'[i].len, BodyOf(wire'[i]))
  <2> DEFINE h == [kind |-> kind, len |-> len]
  <2>1. /\ link' = "up" /\ wire' = Append(wire, h)
        /\ sending'.left = len /\ sending'.tag = NoTag
    BY <1>2 DEF PeerSendsAlien
  <2>2. h \in AlienHeads /\ h.len = len
    BY DEF AlienHeads
  <2>3. h \in Units /\ len \in Nat
    BY <2>2 DEF Units
  <2>4. h \notin Heads
    BY <2>2, UnitLengths
  <2> HIDE DEF h
  <2>5. i = Len(wire) + 1 /\ wire'[i] = h
    BY <2>1, <2>3
  <2>6. Follows(Append(wire, h), TRUE, len, NoTag, Len(wire) + 1, len, DataOf(NoTag))
    BY <2>3, FollowsNew
  <2>7. BodyOf(h) = DataOf(NoTag)
    BY <2>4 DEF BodyOf
  <2> QED
    BY <2>1, <2>2, <2>5, <2>6, <2>7
<1>3. CASE PeerSendsBody
  <2>1. wire' = Append(wire, DataOf(sending.tag)) /\ DataOf(sending.tag) \in Data
    BY <1>3, UnitLengths DEF PeerSendsBody, DataOf
  <2>2. DataOf(sending.tag) \in Units
    BY <2>1 DEF Units
  <2> QED
    BY <2>1, <2>2
<1>4. CASE Hangup \/ HangupMidFrame \/ Stop \/ UNCHANGED vars
  BY <1>4 DEF Hangup, HangupMidFrame, Stop, vars, peerVars
<1> QED
  BY <1>1, <1>2, <1>3, <1>4 DEF Peer

\* What is on the wire stays where it is.
LEMMA PeerAppends ==
  ASSUME TypeInv, Peer \/ Stop \/ UNCHANGED vars,
         NEW i \in DOMAIN wire, i \in DOMAIN wire'
  PROVE  wire'[i] = wire[i]
<1> USE DEF TypeInv, TypeOK, PeerTypes
<1>1. CASE \E u : wire' = Append(wire, u)
  BY <1>1
<1>2. CASE wire' \in {wire, <<>>}
  BY <1>2
<1> QED
  BY <1>1, <1>2 DEF Peer, PeerAnswers, PeerSendsBody, PeerSendsAlien, Hangup, HangupMidFrame, Stop, vars, peerVars

LEMMA PeerStepFramed ==
  ASSUME TypeInv, Framed, Peer \/ Stop \/ UNCHANGED vars
  PROVE  Framed'
<1> SUFFICES ASSUME NEW i \in DOMAIN wire', wire'[i] \notin Data
             PROVE  Follows(wire', link' = "up", sending'.left, sending'.tag, i, wire'[i].len, BodyOf(wire'[i]))
  BY DEF Framed, Behind, BodyOf, DataOf
<1>1. CASE i \in DOMAIN wire
  <2>1. wire'[i] = wire[i]
    BY <1>1, PeerAppends
  <2>2. i \in Nat /\ i <= Len(wire) /\ wire[i] \in Units
    BY <1>1 DEF TypeInv, TypeOK, PeerTypes
  <2>3. wire[i].len \in Nat
    BY <2>1, <2>2, UnitLengths
  <2>4. Behind(i, wire[i].len, BodyOf(wire[i]))
    BY <1>1, <2>1 DEF Framed
  <2> QED
    BY <2>1, <2>2, <2>3, <2>4, PeerKeepsBehind
<1>2. CASE i \notin DOMAIN wire
  BY <1>2, PeerAddsHeader
<1> QED
  BY <1>1, <1>2

\* The receiver takes units from the front and adds none.
LEMMA ReceiverStepFramed ==
  ASSUME TypeInv, Framed, Receiver
  PROVE  Framed'
<1> USE DEF TypeInv, TypeOK, PeerTypes
<1>1. UNCHANGED <<link, sending>> /\ (UNCHANGED wire \/ TakeUnit)
  BY ReceiverLeaves
<1>2. CASE UNCHANGED wire
  BY <1>1, <1>2 DEF Framed, Behind, BodyOf, DataOf
<1>3. CASE TakeUnit
  <2> SUFFICES ASSUME NEW i \in DOMAIN wire', wire'[i] \notin Data
               PROVE  Follows(wire', link' = "up", sending'.left, sending'.tag, i, wire'[i].len, BodyOf(wire'[i]))
    BY DEF Framed, Behind, BodyOf, DataOf
  <2>1. wire # <<>> /\ wire' = Tail(wire) /\ wire \in Seq(Units) /\ sending.left \in Nat
    BY <1>3, ConstantsAssumption DEF TakeUnit
  <2>2. i \in Nat /\ i + 1 \in DOMAIN wire /\ wire'[i] = wire[i + 1] /\ wire[i + 1] \in Units
    BY <2>1, WireAfterTail
  <2>3. wire[i + 1].len \in Nat
    BY <2>2, UnitLengths
  <2>4. Follows(wire, link = "up", sending.left, sending.tag, i + 1, wire[i + 1].len, BodyOf(wire[i + 1]))
    BY <2>2 DEF Framed, Behind
  <2>5. Follows(Tail(wire), link = "up", sending.left, sending.tag, i + 1 - 1, wire[i + 1].len, BodyOf(wire[i + 1]))
    BY <2>1, <2>2, <2>3, <2>4, FollowsTail
  <2>6. i + 1 - 1 = i
    BY <2>2
  <2> QED
    BY <1>1, <2>1, <2>2, <2>5, <2>6
<1> QED
  BY <1>1, <1>2, <1>3

\* The steps of threads have nothing to do with the stream.
LEMMA ThreadsLeaveStream ==
  ASSUME NEW t \in Threads,
         (\E p \in Ports : AdsRequest(t, p)) \/ Thread(t) \/ DeadlinePasses(t)
  PROVE  UNCHANGED <<wire, link, sending, rxVars>>
  BY ThreadLeaves

\* What the receiver still means to take is a number of units, and it depends
\* on its own variables only.
LEMMA RemainingCases ==
  /\ rxpc = "header" => Remaining = 0
  /\ rxpc \in {"pending", "frame"} => Remaining = frame.len
  /\ rxpc = "payload" => Remaining = bytesLeft - got
  /\ rxpc \notin {"header", "pending", "frame", "payload"} => Remaining = bytesLeft
<1>1. rxpc = "header" => Remaining = 0
  BY Zenon DEF Remaining
<1>2. rxpc \in {"pending", "frame"} => Remaining = frame.len
  BY Zenon DEF Remaining
<1>3. rxpc = "payload" => Remaining = bytesLeft - got
  BY Zenon DEF Remaining
<1>4. rxpc \notin {"header", "pending", "frame", "payload"} => Remaining = bytesLeft
  BY Zenon DEF Remaining
<1> QED
  BY <1>1, <1>2, <1>3, <1>4

\* ... before a step and after it.
LEMMA RemainingCasesNext ==
  /\ rxpc' = "header" => Remaining' = 0
  /\ rxpc' \in {"pending", "frame"} => Remaining' = frame'.len
  /\ rxpc' = "payload" => Remaining' = bytesLeft' - got'
  /\ rxpc' \notin {"header", "pending", "frame", "payload"} => Remaining' = bytesLeft'
<1>1. rxpc' = "header" => Remaining' = 0
  BY Zenon DEF Remaining
<1>2. rxpc' \in {"pending", "frame"} => Remaining' = frame'.len
  BY Zenon DEF Remaining
<1>3. rxpc' = "payload" => Remaining' = bytesLeft' - got'
  BY Zenon DEF Remaining
<1>4. rxpc' \notin {"header", "pending", "frame", "payload"} => Remaining' = bytesLeft'
  BY Zenon DEF Remaining
<1> QED
  BY <1>1, <1>2, <1>3, <1>4

LEMMA RemainingIsNat == ASSUME TypeInv PROVE Remaining \in Nat
<1> USE ConstantsAssumption DEF TypeInv, TypeOK, ReceiverTypes, ReceiverShape
<1>1. CASE rxpc \in {"pending", "frame"}
  BY <1>1, RemainingCases DEF Heads, Completing
<1>2. CASE rxpc = "payload"
  BY <1>2, RemainingCases
<1>3. CASE rxpc \notin {"pending", "frame", "payload"}
  BY <1>3, RemainingCases
<1> QED
  BY <1>1, <1>2, <1>3

LEMMA RemainingStays == ASSUME UNCHANGED rxVars PROVE Remaining' = Remaining
  BY DEF Remaining, rxVars

\* The unit the receiver takes was the first on the wire.
LEMMA TakesFirst ==
  ASSUME TypeInv, TakeUnit
  PROVE  /\ wire \in Seq(Units) /\ wire # <<>> /\ wire' = Tail(wire)
         /\ 1 \in DOMAIN wire /\ Head(wire) = wire[1] /\ Head(wire) \in Units
         /\ UNCHANGED <<link, sending>> /\ sending.left \in Nat
  BY ConstantsAssumption DEF TakeUnit, TypeInv, TypeOK, PeerTypes

\* A header that is taken leaves its body in front of the receiver.
LEMMA TakeHeader ==
  ASSUME TypeInv, Framed, TakeUnit, Head(wire) \notin Data
  PROVE  /\ Follows(wire', link' = "up", sending'.left, sending'.tag, 0, Head(wire).len, BodyOf(Head(wire)))
         /\ Head(wire).len \in Nat
<1>1. Head(wire).len \in Nat
  BY TakesFirst, UnitLengths
<1>2. Follows(wire, link = "up", sending.left, sending.tag, 1, Head(wire).len, BodyOf(Head(wire)))
  BY TakesFirst DEF Framed, Behind
<1>3. Follows(Tail(wire), link = "up", sending.left, sending.tag, 1 - 1, Head(wire).len, BodyOf(Head(wire)))
  BY <1>1, <1>2, TakesFirst, FollowsTail
<1>4. 1 - 1 = 0
  OBVIOUS
<1>5. wire' = Tail(wire) /\ UNCHANGED <<link, sending>>
  BY TakesFirst
<1> QED
  BY <1>1, <1>3, <1>4, <1>5

LEMMA ReceiverStepInFrame ==
  ASSUME TypeInv, Framed, InFrame, Receiver
  PROVE  InFrame'
<1> SUFFICES ASSUME rxpc' \in Completing \cup {"pending"}
             PROVE  Follows(wire', link' = "up", sending'.left, sending'.tag, 0, Remaining', DataOf(frame'.tag))
  BY DEF InFrame, Behind, DataOf
<1> USE DEF TypeInv, ReceiverShape
<1>1. CASE RecvReply
  <2>1. TakeUnit /\ frame' = Head(wire) /\ rxpc' = "pending" /\ Head(wire) \in Heads
    BY <1>1 DEF RecvReply, NextHeader
  <2>2. Head(wire) \notin Data /\ BodyOf(Head(wire)) = DataOf(frame'.tag)
    BY <2>1, UnitLengths DEF BodyOf
  <2> QED
    BY <2>1, <2>2, TakeHeader, RemainingCasesNext
<1>2. CASE GetPending \/ ReceiveFrame
  <2>1. /\ rxpc \in {"pending", "frame"} /\ rxpc' \in {"frame", "response_header"}
        /\ rxpc' = "response_header" => bytesLeft' = frame.len
        /\ UNCHANGED <<wire, link, sending, frame>>
    BY <1>2 DEF GetPending, ReceiveFrame, OnFrame, socketVars, peerVars, Completing
  <2>2. Remaining' = Remaining
    BY <2>1, RemainingCases, RemainingCasesNext
  <2> QED
    BY <2>1, <2>2 DEF InFrame, Behind, Completing
<1>3. CASE ReceiveResponseHeader \/ ReceivePayload
  <2>1. TakeUnit /\ frame' = frame /\ rxpc' = "payload" /\ rxpc \in Completing
    BY <1>3 DEF ReceiveResponseHeader, ReceivePayload, Completing
  <2>2. Remaining \in Nat \ {0} /\ Remaining' = Remaining - 1
    <3>1. CASE ReceiveResponseHeader
      <4>1. Remaining = bytesLeft /\ bytesLeft > 0 /\ got = 0 /\ bytesLeft \in Nat
        BY <3>1, RemainingCases, ConstantsAssumption DEF ReceiveResponseHeader, TypeOK, ReceiverTypes
      <4>2. Remaining' = bytesLeft - 1
        <5>1. bytesLeft \in 1 .. MaxPayload + 1
          BY <4>1, ConstantsAssumption DEF TypeInv, TypeOK, ReceiverTypes
        <5>2. rxpc' = "payload" /\ bytesLeft' = bytesLeft - 1 /\ got' = got
          BY <3>1, <5>1, HeaderTaken DEF ReceiveResponseHeader
        <5> QED
          BY <4>1, <5>2, RemainingCasesNext
      <4> QED
        BY <4>1, <4>2
    <3>2. CASE ReceivePayload
      <4>1. Remaining = bytesLeft - got /\ got < bytesLeft /\ bytesLeft \in Nat /\ got \in Nat
        BY <3>2, RemainingCases, ConstantsAssumption DEF ReceivePayload, TypeOK, ReceiverTypes
      <4>2. Remaining' = bytesLeft - (got + 1)
        BY <3>2, <4>1, RemainingCasesNext DEF ReceivePayload
      <4> QED
        BY <4>1, <4>2
    <3> QED
      BY <1>3, <3>1, <3>2
  <2>3. Follows(wire, link = "up", sending.left, sending.tag, 0, Remaining, DataOf(frame.tag))
    BY <2>1 DEF InFrame, Behind
  <2>4. Follows(Tail(wire), link = "up", sending.left, sending.tag, 0, Remaining - 1, DataOf(frame.tag))
    BY <2>1, <2>2, <2>3, TakesFirst, FollowsFirst
  <2> QED
    BY <2>1, <2>2, <2>4, TakesFirst
<1>4. RecvReply \/ GetPending \/ ReceiveFrame \/ ReceiveResponseHeader \/ ReceivePayload
  BY DEF Receiver, RecvReply, RecvShort, RecvNotification, RecvBodyAsHeader, NextHeader,
     RecvOutOfStep, NoResponsePending, ReceiveError, ReceiveTooLong, OnFrame, RefuseFrame,
     DeliverFrame, BodyComplete, ReceiveTimeout, ReceiveJunk, ReceiveFails, RecvStops,
     Junk, NextFrame, Exit, rxState, rxVars, Completing
<1> QED
  BY <1>1, <1>2, <1>3, <1>4

StreamInv ==
    /\ TypeInv
    /\ Framed
    /\ InFrame
    /\ rxpc \in {"junk", "junk_then_exit"} => bytesLeft > 0

LEMMA StreamInit == WholeBodies /\ Init => StreamInv
  BY TypeInit DEF Init, StreamInv, Framed, InFrame, Completing

LEMMA JunkLeft ==
  ASSUME StreamInv, Receiver, rxpc' \in {"junk", "junk_then_exit"}
  PROVE  bytesLeft' > 0
<1>1. CASE ReceiveJunk
  BY <1>1, ConstantsAssumption
     DEF ReceiveJunk, NextFrame, Exit, StreamInv, TypeInv, TypeOK, ReceiverTypes
<1>2. ASSUME NEW n \in 0 .. MaxPayload + 1, NEW then, Junk(n, then) PROVE bytesLeft' > 0
  BY <1>2, ConstantsAssumption DEF Junk, NextFrame
<1>3. CASE RecvShort \/ RecvNotification
  BY <1>2, <1>3, ConstantsAssumption DEF RecvShort, RecvNotification, NextHeader, Exit, AlienHeads
<1>4. CASE NoResponsePending \/ ReceiveError \/ ReceiveTooLong
  BY <1>2, <1>4 DEF NoResponsePending, ReceiveError, ReceiveTooLong, OnFrame, RefuseFrame, Heads,
     StreamInv, TypeInv, ReceiverShape, Completing
<1>5. CASE ReceiveTimeout
  BY <1>2, <1>5 DEF ReceiveTimeout, StreamInv, TypeInv, TypeOK, ReceiverTypes
<1> QED
  BY <1>1, <1>3, <1>4, <1>5 DEF Receiver, RecvReply, RecvBodyAsHeader, RecvOutOfStep, NextHeader,
     GetPending, ReceiveFrame, OnFrame, ReceiveResponseHeader, ReceivePayload, DeliverFrame,
     ReceiveFails, RecvStops, NextFrame, Exit, rxVars

LEMMA StreamStep == StreamInv /\ [Next]_vars => StreamInv'
<1> SUFFICES ASSUME StreamInv, [Next]_vars PROVE StreamInv'
  OBVIOUS
<1>1. TypeInv'
  BY TypeStep DEF StreamInv
<1>2. CASE Receiver
  BY <1>1, <1>2, ReceiverStepFramed, ReceiverStepInFrame, JunkLeft DEF StreamInv
<1>3. CASE Peer \/ Stop \/ UNCHANGED vars
  <2>1. UNCHANGED rxVars
    BY <1>3, PeerLeaves
  <2>2. InFrame'
    <3>1. rxpc \in Completing \cup {"pending"} =>
             Follows(wire', link' = "up", sending'.left, sending'.tag, 0, Remaining, DataOf(frame.tag))
      BY <1>3, RemainingIsNat, PeerKeepsBehind DEF StreamInv, InFrame, TypeInv, TypeOK, PeerTypes
    <3> QED
      BY <2>1, <3>1, RemainingStays DEF InFrame, Behind, DataOf, rxVars
  <2> QED
    BY <1>1, <1>3, <2>1, <2>2, PeerStepFramed DEF StreamInv, rxVars
<1>4. ASSUME NEW t \in Threads,
             (\E p \in Ports : AdsRequest(t, p)) \/ Thread(t) \/ DeadlinePasses(t)
      PROVE  StreamInv'
  <2>1. UNCHANGED <<wire, link, sending, rxVars>>
    BY <1>4, ThreadsLeaveStream
  <2> QED
    BY <1>1, <2>1, RemainingStays DEF StreamInv, Framed, InFrame, Behind, BodyOf, DataOf, rxVars
<1> QED
  BY <1>2, <1>3, <1>4 DEF Next

-----------------------------------------------------------------------------
(* The receiver is in step. *)

\* Every set of positions has a first one.
LEMMA HasFirst ==
  ASSUME NEW S \in SUBSET Nat, S # {}
  PROVE  \E m \in S : \A n \in S : m <= n
<1> DEFINE R == OpToRel(<, Nat)
<1>1. IsWellFoundedOn(R, Nat)
  BY NatLessThanWellFounded
<1>2. \A m, n \in Nat : m < n => <<m, n>> \in R
  BY DEF OpToRel
<1> HIDE DEF R
<1>3. PICK m \in S : \A n \in S : <<n, m>> \notin R
  BY <1>1, WFMin
<1>4. \A n \in S : ~(n < m)
  BY <1>2, <1>3
<1> QED
  BY <1>4

\* n units at the front of w are body data, and then comes a header, when left
\* body units are still to be sent.
Front(w, left, n) ==
    /\ \A j \in DOMAIN w : j <= n => w[j] \in Data
    /\ \A j \in DOMAIN w : j = n + 1 => w[j] \notin Data
    /\ n >= Len(w) => n = Len(w) + left

\* BodyAhead, as a function of the wire and of what is left to be sent.
Ahead(w, left) ==
    LET heads == {i \in DOMAIN w : w[i] \notin Data}
    IN  IF heads = {} THEN Len(w) + left
                      ELSE (CHOOSE i \in heads : \A j \in heads : i <= j) - 1

LEMMA AheadIsFront ==
  ASSUME NEW w \in Seq(Units), NEW left \in Nat, NEW n \in Nat
  PROVE  Ahead(w, left) = n <=> Front(w, left, n)
<1> DEFINE heads == {i \in DOMAIN w : w[i] \notin Data}
<1>1. PICK m \in Nat : Len(w) = m /\ DOMAIN w = 1 .. m
  OBVIOUS
<1>2. CASE heads = {}
  <2>1. Ahead(w, left) = m + left
    BY <1>1, <1>2 DEF Ahead
  <2>2. \A j \in 1 .. m : w[j] \in Data
    BY <1>1, <1>2
  <2>3. Front(w, left, n) <=> (n >= m /\ n = m + left)
    <3>1. Front(w, left, n) => n >= m
      <4>1. n < m => n + 1 \in 1 .. m
        OBVIOUS
      <4> QED
        BY <1>1, <2>2, <4>1 DEF Front
    <3>2. n = m + left => Front(w, left, n)
      BY <1>1, <2>2 DEF Front
    <3>3. Front(w, left, n) /\ n >= m => n = m + left
      BY <1>1 DEF Front
    <3> QED
      BY <3>1, <3>2, <3>3
  <2> QED
    BY <2>1, <2>3
<1>3. CASE heads # {}
  <2> DEFINE first == CHOOSE i \in heads : \A j \in heads : i <= j
  <2>1. \E i \in heads : \A j \in heads : i <= j
    <3>1. heads \in SUBSET Nat
      BY <1>1
    <3> HIDE DEF heads
    <3> QED
      BY <1>3, <3>1, HasFirst
  <2>2. first \in heads /\ \A j \in heads : first <= j
    BY <2>1
  <2>3. Ahead(w, left) = first - 1
    BY <1>3 DEF Ahead
  <2> HIDE DEF first
  <2>4. first \in 1 .. m /\ w[first] \notin Data /\ \A j \in 1 .. m : w[j] \notin Data => first <= j
    BY <1>1, <2>2
  <2>5. first - 1 = n => Front(w, left, n)
    BY <1>1, <2>4 DEF Front
  <2>6. Front(w, left, n) => first - 1 = n
    <3> SUFFICES ASSUME Front(w, left, n) PROVE first - 1 = n
      OBVIOUS
    <3>1. ~(first <= n)
      BY <1>1, <2>4 DEF Front
    <3>2. n + 1 \in 1 .. m
      BY <2>4, <3>1
    <3>3. w[n + 1] \notin Data
      BY <1>1, <3>2 DEF Front
    <3> QED
      BY <2>4, <3>1, <3>2, <3>3
  <2> QED
    BY <2>3, <2>5, <2>6
<1> QED
  BY <1>2, <1>3

\* In step is: as many body units are in front of the receiver as it will take.
AtFront == rxpc # "out_of_step" /\ Front(wire, sending.left, Remaining)

LEMMA InStepIsAtFront ==
  ASSUME TypeInv
  PROVE  InStep <=> link = "down" \/ rxpc = "exited" \/ AtFront
<1>1. BodyAhead = Ahead(wire, sending.left)
  BY DEF BodyAhead, Ahead
<1>2. wire \in Seq(Units) /\ sending.left \in Nat /\ Remaining \in Nat
  BY RemainingIsNat, ConstantsAssumption DEF TypeInv, TypeOK, PeerTypes
<1>3. BodyAhead = Remaining <=> Front(wire, sending.left, Remaining)
  BY <1>1, <1>2, AheadIsFront
<1> QED
  BY <1>3 DEF InStep, AtFront

LEMMA RemainingIsNatNext == ASSUME TypeInv' PROVE Remaining' \in Nat
<1> USE ConstantsAssumption DEF TypeInv, TypeOK, ReceiverTypes, ReceiverShape
<1>1. CASE rxpc' \in {"pending", "frame"}
  BY <1>1, RemainingCasesNext DEF Heads, Completing
<1>2. CASE rxpc' = "payload"
  <2>1. got' \in Nat /\ bytesLeft' \in Nat /\ got' <= bytesLeft'
    BY <1>2
  <2>2. \A m, n \in Nat : n <= m => m - n \in Nat
    OBVIOUS
  <2>3. Remaining' = bytesLeft' - got'
    BY ONLY <1>2, RemainingCasesNext
  <2> QED
    BY ONLY <2>1, <2>2, <2>3
<1>3. CASE rxpc' \notin {"pending", "frame", "payload"}
  BY <1>3, RemainingCasesNext
<1> QED
  BY <1>1, <1>2, <1>3

LEMMA InStepIsAtFrontNext ==
  ASSUME TypeInv'
  PROVE  InStep' <=> link' = "down" \/ rxpc' = "exited" \/ AtFront'
<1>1. BodyAhead' = Ahead(wire', sending'.left)
  BY DEF BodyAhead, Ahead
<1>2. wire' \in Seq(Units) /\ sending'.left \in Nat /\ Remaining' \in Nat
  BY RemainingIsNatNext, ConstantsAssumption DEF TypeInv, TypeOK, PeerTypes
<1>3. BodyAhead' = Remaining' <=> Front(wire', sending'.left, Remaining')
  BY <1>1, <1>2, AheadIsFront
<1> QED
  BY <1>3 DEF InStep, AtFront

\* A body at the front is one unit shorter once a unit is taken, ...
LEMMA FrontTail ==
  ASSUME NEW w \in Seq(Units), w # <<>>, NEW left \in Nat, NEW n \in Nat \ {0}, Front(w, left, n)
  PROVE  Front(Tail(w), left, n - 1)
<1> DEFINE v == Tail(w)
<1>1. PICK m \in Nat : Len(w) = m /\ Len(v) = m - 1
  BY WireAfterTail
<1>2. \A j \in DOMAIN v : j \in Nat /\ j + 1 \in DOMAIN w /\ v[j] = w[j + 1]
  BY WireAfterTail
<1> HIDE DEF v
<1>3. \A j \in DOMAIN v : j <= n - 1 => v[j] \in Data
  BY <1>2 DEF Front
<1>4. \A j \in DOMAIN v : j = n - 1 + 1 => v[j] \notin Data
  BY <1>2 DEF Front
<1>5. n - 1 >= m - 1 => n - 1 = m - 1 + left
  BY <1>1 DEF Front
<1> QED
  BY <1>1, <1>3, <1>4, <1>5 DEF Front, v

\* ... and a body that follows the header taken is at the front.
LEMMA FollowsIsFront ==
  ASSUME NEW w \in Seq(Units), NEW left \in Nat, NEW tag, NEW n \in Nat, NEW d \in Data,
         Follows(w, TRUE, left, tag, 0, n, d)
  PROVE  Front(w, left, n)
<1>1. \A j \in DOMAIN w : j \in Nat /\ 0 < j
  OBVIOUS
<1> QED
  BY <1>1 DEF Follows, Front

\* What the peer sends goes behind it.
LEMMA FrontAppend ==
  ASSUME NEW w \in Seq(Units), NEW left \in Nat, NEW n \in Nat, Front(w, left, n),
         NEW u \in Units, NEW rest \in Nat,
         \/ left = 0 /\ u \notin Data
         \/ left > 0 /\ rest = left - 1 /\ u \in Data
  PROVE  Front(Append(w, u), rest, n)
<1> DEFINE v == Append(w, u)
<1>1. PICK m \in Nat : Len(w) = m /\ Len(v) = m + 1
  BY WireAfterAppend
<1>2. \A j \in DOMAIN v : j \in Nat /\ IF j = m + 1 THEN v[j] = u ELSE j \in DOMAIN w /\ v[j] = w[j]
  BY <1>1, WireAfterAppend
<1>3. n >= m => n = m + left
  BY <1>1 DEF Front
<1> HIDE DEF v
<1>4. \A j \in DOMAIN v : j <= n => v[j] \in Data
  BY <1>2, <1>3 DEF Front
<1>5. \A j \in DOMAIN v : j = n + 1 => v[j] \notin Data
  BY <1>2, <1>3 DEF Front
<1>6. n >= m + 1 => n = m + 1 + rest
  BY <1>3
<1> QED
  BY <1>1, <1>4, <1>5, <1>6 DEF Front, v

\* The rest of what the peer sends does not change what the receiver takes.
LEMMA PeerKeepsFront ==
  ASSUME TypeInv, Peer \/ Stop \/ UNCHANGED vars, link' = "up", NEW n \in Nat,
         Front(wire, sending.left, n)
  PROVE  Front(wire', sending'.left, n)
<1> USE DEF TypeInv, TypeOK, PeerTypes
<1>1. wire \in Seq(Units) /\ sending.left \in Nat
  BY ConstantsAssumption
<1>2. ASSUME NEW q \in asked, NEW kind \in AnswerKinds, NEW size \in 0 .. MaxPayload,
             NEW len \in 0 .. MaxPayload + 1, PeerAnswers(q, kind, size, len)
      PROVE  Front(wire', sending'.left, n)
  <2> DEFINE h == [kind |-> kind, id |-> q.id, port |-> q.port, tag |-> q.tag, len |-> len]
  <2>1. sending.left = 0 /\ wire' = Append(wire, h) /\ sending'.left = len /\ (kind = "ok" => len > 0)
    BY <1>2 DEF PeerAnswers
  <2>2. h \in Heads
    BY <2>1 DEF Heads, Requests
  <2>3. h \in Units /\ h \notin Data /\ len \in Nat
    BY <2>2, UnitLengths, ConstantsAssumption DEF Units
  <2> HIDE DEF h
  <2>4. Front(Append(wire, h), len, n)
    BY <1>1, <2>1, <2>3, FrontAppend
  <2> QED
    BY <2>1, <2>4
<1>3. CASE PeerSendsBody
  <2>1. /\ sending.left > 0 /\ wire' = Append(wire, DataOf(sending.tag))
        /\ sending'.left = sending.left - 1 /\ sending.left - 1 \in Nat
    BY <1>1, <1>3 DEF PeerSendsBody, DataOf
  <2>2. DataOf(sending.tag) \in Data /\ DataOf(sending.tag) \in Units
    BY UnitLengths DEF Units
  <2>3. Front(Append(wire, DataOf(sending.tag)), sending.left - 1, n)
    BY <1>1, <2>1, <2>2, FrontAppend
  <2> QED
    BY <2>1, <2>3
<1>4. ASSUME NEW kind \in {"short", "notification"}, NEW len \in 0 .. 1, PeerSendsAlien(kind, len)
      PROVE  Front(wire', sending'.left, n)
  <2> DEFINE h == [kind |-> kind, len |-> len]
  <2>1. sending.left = 0 /\ wire' = Append(wire, h) /\ sending'.left = len
    BY <1>4 DEF PeerSendsAlien
  <2>2. h \in AlienHeads
    BY DEF AlienHeads
  <2>3. h \in Units /\ h \notin Data /\ len \in Nat
    BY <2>2, UnitLengths DEF Units
  <2> HIDE DEF h
  <2>4. Front(Append(wire, h), len, n)
    BY <1>1, <2>1, <2>3, FrontAppend
  <2> QED
    BY <2>1, <2>4
<1>5. CASE UNCHANGED vars
  BY <1>5 DEF vars, peerVars
<1> QED
  BY <1>2, <1>3, <1>4, <1>5 DEF Peer, Hangup, HangupMidFrame, Stop

\* A header that is taken in step leaves its body in front.
LEMMA HeaderLeavesFront ==
  ASSUME TypeInv, Framed, TakeUnit, Head(wire) \notin Data, link' = "up"
  PROVE  Front(wire', sending'.left, Head(wire).len) /\ Head(wire).len \in Nat
<1>1. /\ Follows(wire', TRUE, sending'.left, sending'.tag, 0, Head(wire).len, BodyOf(Head(wire)))
      /\ Head(wire).len \in Nat
  BY TakeHeader
<1>2. wire' \in Seq(Units) /\ sending'.left \in Nat
  BY TakesFirst, WireAfterTail
<1>3. BodyOf(Head(wire)) \in Data
  BY UnitLengths DEF BodyOf, Heads
<1> QED
  BY <1>1, <1>2, <1>3, FollowsIsFront

\* In front of a body, the receiver takes a unit of it.
LEMMA BodyUnitLeavesFront ==
  ASSUME TypeInv, TakeUnit, NEW n \in Nat \ {0}, Front(wire, sending.left, n)
  PROVE  Front(wire', sending'.left, n - 1)
<1>1. wire \in Seq(Units) /\ wire # <<>> /\ wire' = Tail(wire) /\ sending' = sending /\ sending.left \in Nat
  BY TakesFirst
<1> QED
  BY <1>1, FrontTail

\* What is skipped is what was to be taken.
LEMMA JunkRemains ==
  ASSUME NEW n, NEW then \in {"junk", "junk_then_exit"}, Junk(n, then)
  PROVE  Remaining' = n /\ rxpc' # "out_of_step"
  BY RemainingCasesNext DEF Junk, NextFrame

LEMMA ReceiverStepAtFront ==
  ASSUME StreamInv, Receiver, link' = "up", rxpc' # "exited", AtFront,
         ~(rxpc = "payload" /\ got > 0 /\ expired[owner])
  PROVE  rxpc' # "out_of_step" /\ Front(wire', sending'.left, Remaining')
<1>1. TypeInv /\ Framed
  BY DEF StreamInv
<1>2. Front(wire, sending.left, Remaining) /\ rxpc # "out_of_step"
  BY DEF AtFront
<1>3. ASSUME UNCHANGED <<wire, sending>>, Remaining' = Remaining, rxpc' # "out_of_step"
      PROVE  rxpc' # "out_of_step" /\ Front(wire', sending'.left, Remaining')
  BY <1>2, <1>3
<1>4. CASE RecvReply
  <2>1. TakeUnit /\ Head(wire) \notin Data /\ rxpc' = "pending" /\ frame' = Head(wire)
    BY <1>4, UnitLengths DEF RecvReply, NextHeader
  <2> QED
    BY <1>1, <2>1, HeaderLeavesFront, RemainingCasesNext
<1>5. CASE RecvShort \/ RecvNotification
  <2>1. TakeUnit /\ Head(wire) \notin Data
    BY <1>5, UnitLengths DEF RecvShort, RecvNotification, NextHeader
  <2>2. Remaining' = Head(wire).len /\ rxpc' # "out_of_step"
    BY <1>5, JunkRemains DEF RecvShort, RecvNotification, Exit
  <2> QED
    BY <1>1, <2>1, <2>2, HeaderLeavesFront
<1>6. CASE RecvBodyAsHeader
  <2>1. rxpc = "header" /\ TakeUnit /\ Head(wire) \in Data
    BY <1>6 DEF RecvBodyAsHeader, NextHeader
  <2>2. Remaining = 0 /\ 1 \in DOMAIN wire /\ wire[1] \in Data
    BY <1>1, <2>1, TakesFirst, RemainingCases
  <2> QED
    BY <1>2, <2>2 DEF Front
<1>7. CASE GetPending \/ ReceiveFrame
  <2>1. /\ rxpc \in {"pending", "frame"} /\ rxpc' \in {"frame", "response_header", "crashed"}
        /\ rxpc' \in {"response_header", "crashed"} => bytesLeft' = frame.len
        /\ UNCHANGED <<wire, sending, frame>>
    BY <1>7 DEF GetPending, ReceiveFrame, OnFrame, socketVars, peerVars
  <2> QED
    BY <1>3, <2>1, RemainingCases, RemainingCasesNext
<1>8. CASE NoResponsePending \/ ReceiveError \/ ReceiveTooLong
  <2>1. rxpc \in {"pending", "frame"} /\ Junk(frame.len, "junk") /\ UNCHANGED <<wire, sending>>
    BY <1>8 DEF NoResponsePending, ReceiveError, ReceiveTooLong, OnFrame, RefuseFrame, socketVars, peerVars
  <2> QED
    BY <1>3, <2>1, JunkRemains, RemainingCases
<1>9. CASE ReceiveTimeout
  <2>1. /\ rxpc = "response_header" \/ (rxpc = "payload" /\ got < bytesLeft)
        /\ expired[owner] /\ Junk(bytesLeft, "junk") /\ UNCHANGED <<wire, sending>>
    BY <1>9 DEF ReceiveTimeout, socketVars, peerVars
  <2>2. got \in Nat /\ bytesLeft \in Nat
    BY <1>1, ConstantsAssumption DEF TypeInv, TypeOK, ReceiverTypes
  <2>3. Remaining = bytesLeft
    <3>1. CASE rxpc = "payload"
      <4>1. Remaining = bytesLeft - got
        BY <3>1, RemainingCases
      <4>2. got = 0
        BY <2>1, <2>2, <3>1
      <4> QED
        BY <2>2, <4>1, <4>2
    <3> QED
      BY <2>1, <3>1, RemainingCases
  <2> QED
    BY <1>3, <2>1, <2>3, JunkRemains
<1>10. CASE ReceiveResponseHeader \/ ReceivePayload \/ ReceiveJunk
  <2>1. TakeUnit /\ rxpc' # "out_of_step"
    BY <1>2, <1>10 DEF ReceiveResponseHeader, ReceivePayload, ReceiveJunk, NextFrame, Exit
  <2>2. Remaining \in Nat \ {0} /\ Remaining' = Remaining - 1
    <3>1. CASE ReceiveResponseHeader
      <4>1. Remaining = bytesLeft /\ bytesLeft > 0 /\ got = 0 /\ bytesLeft \in Nat
        BY <1>1, <3>1, RemainingCases, ConstantsAssumption
           DEF ReceiveResponseHeader, TypeInv, TypeOK, ReceiverTypes, ReceiverShape
      <4>2. Remaining' = bytesLeft - 1
        <5>1. bytesLeft \in 1 .. MaxPayload + 1
          BY <1>1, <4>1, ConstantsAssumption DEF TypeInv, TypeOK, ReceiverTypes
        <5>2. rxpc' = "payload" /\ bytesLeft' = bytesLeft - 1 /\ got' = got
          BY <3>1, <5>1, HeaderTaken DEF ReceiveResponseHeader
        <5> QED
          BY <4>1, <5>2, RemainingCasesNext
      <4> QED
        BY <4>1, <4>2
    <3>2. CASE ReceivePayload
      <4>1. Remaining = bytesLeft - got /\ got < bytesLeft /\ bytesLeft \in Nat /\ got \in Nat
        BY <1>1, <3>2, RemainingCases, ConstantsAssumption DEF ReceivePayload, TypeInv, TypeOK, ReceiverTypes
      <4>2. Remaining' = bytesLeft - (got + 1)
        BY <3>2, <4>1, RemainingCasesNext DEF ReceivePayload
      <4> QED
        BY <4>1, <4>2
    <3>3. CASE ReceiveJunk
      <4>1. Remaining = bytesLeft /\ bytesLeft > 0 /\ bytesLeft \in Nat
        BY <1>1, <3>3, RemainingCases, ConstantsAssumption
           DEF ReceiveJunk, StreamInv, TypeInv, TypeOK, ReceiverTypes
      <4>2. CASE bytesLeft > 1
        BY <3>3, <4>1, <4>2, RemainingCasesNext DEF ReceiveJunk
      <4>3. CASE ~(bytesLeft > 1)
        <5>1. rxpc' = "header"
          BY <3>3, <4>3 DEF ReceiveJunk, NextFrame, Exit
        <5> QED
          BY <4>1, <4>3, <5>1, RemainingCasesNext
      <4> QED
        BY <4>2, <4>3
    <3> QED
      BY <1>10, <3>1, <3>2, <3>3
  <2>3. Front(wire', sending'.left, Remaining - 1)
    BY <1>1, <1>2, <2>1, <2>2, BodyUnitLeavesFront
  <2> QED
    BY <2>1, <2>2, <2>3
<1>11. CASE DeliverFrame
  <2>1. rxpc = "payload" /\ got = bytesLeft /\ rxpc' = "header" /\ UNCHANGED <<wire, sending>>
    BY <1>11 DEF DeliverFrame, BodyComplete, NextFrame, socketVars, peerVars
  <2>2. bytesLeft \in Nat
    BY <1>1, ConstantsAssumption DEF TypeInv, TypeOK, ReceiverTypes
  <2> QED
    BY <1>3, <2>1, <2>2, RemainingCases, RemainingCasesNext
<1>12. CASE RecvOutOfStep \/ ReceiveFails \/ RecvStops
  BY <1>2, <1>12 DEF RecvOutOfStep, ReceiveFails, RecvStops, Exit
<1> QED
  BY <1>4, <1>5, <1>6, <1>7, <1>8, <1>9, <1>10, <1>11, <1>12 DEF Receiver

\* What is down or has exited stays so.
LEMMA StreamEnds ==
  ASSUME [Next]_vars
  PROVE  /\ link' = "up" => link = "up"
         /\ rxpc' # "exited" => rxpc # "exited"
<1>1. CASE Receiver
  <2>1. link' = link
    BY <1>1, ReceiverLeaves
  <2>2. rxpc = "exited" => FALSE
    BY <1>1 DEF Receiver, RecvReply, RecvShort, RecvNotification, RecvBodyAsHeader, NextHeader,
       RecvOutOfStep, GetPending, NoResponsePending, ReceiveError, ReceiveTooLong, OnFrame,
       ReceiveFrame, ReceiveResponseHeader, ReceivePayload, DeliverFrame, BodyComplete,
       ReceiveTimeout, ReceiveJunk, ReceiveFails, Polling, RecvStops
  <2> QED
    BY <2>1, <2>2
<1>2. CASE Peer \/ Stop \/ UNCHANGED vars
  <2>1. UNCHANGED rxVars
    BY <1>2, PeerLeaves
  <2>2. link' = "up" => link = "up"
    BY <1>2 DEF Peer, PeerAnswers, PeerSendsBody, PeerSendsAlien, Hangup, HangupMidFrame, Stop, vars
  <2> QED
    BY <2>1, <2>2 DEF rxVars
<1>3. ASSUME NEW t \in Threads,
             (\E p \in Ports : AdsRequest(t, p)) \/ Thread(t) \/ DeadlinePasses(t)
      PROVE  UNCHANGED <<wire, link, sending, rxVars>>
  BY <1>3, ThreadsLeaveStream
<1> QED
  BY <1>1, <1>2, <1>3 DEF Next, rxVars

LEMMA InStepStep ==
  ASSUME StreamInv, [Next]_vars, InStep, ~(rxpc = "payload" /\ got > 0 /\ expired[owner])
  PROVE  InStep'
<1>1. TypeInv /\ TypeInv'
  BY TypeStep DEF StreamInv
<1> SUFFICES ASSUME link' = "up", rxpc' # "exited"
             PROVE  rxpc' # "out_of_step" /\ Front(wire', sending'.left, Remaining')
  BY <1>1, InStepIsAtFrontNext DEF AtFront, TypeInv, TypeOK, PeerTypes
<1>2. link = "up" /\ rxpc # "exited"
  BY StreamEnds
<1>3. AtFront
  BY <1>1, <1>2, InStepIsAtFront
<1>4. CASE Receiver
  BY <1>3, <1>4, ReceiverStepAtFront
<1>5. CASE Peer \/ Stop \/ UNCHANGED vars
  <2>1. UNCHANGED rxVars /\ Remaining' = Remaining /\ Remaining \in Nat
    BY <1>1, <1>5, PeerLeaves, RemainingStays, RemainingIsNat
  <2>2. Front(wire', sending'.left, Remaining)
    BY <1>1, <1>3, <1>5, <2>1, PeerKeepsFront DEF AtFront
  <2> QED
    BY <1>3, <2>1, <2>2 DEF AtFront, rxVars
<1>6. ASSUME NEW t \in Threads,
             (\E p \in Ports : AdsRequest(t, p)) \/ Thread(t) \/ DeadlinePasses(t)
      PROVE  rxpc' # "out_of_step" /\ Front(wire', sending'.left, Remaining')
  BY <1>3, <1>6, ThreadsLeaveStream, RemainingStays DEF AtFront, rxVars
<1> QED
  BY <1>4, <1>5, <1>6 DEF Next

\* Recv (AmsConnection.cpp:484-546) reads every header where the peer wrote one,
\* whatever the network and a peer that sends whole headers do, until a deadline cuts a payload of which a
\* part was read.
THEOREM StepsStayInStep == WholeBodies => (Spec => InStepUnlessPayloadCut)
<1> SUFFICES ASSUME WholeBodies PROVE Spec => InStepUnlessPayloadCut
  OBVIOUS
<1>1. Init => StreamInv
  BY StreamInit
<1>2. StreamInv /\ [Next]_vars => StreamInv'
  BY StreamStep
<1>3. StreamInv /\ [Next]_vars =>
        [InStep /\ ~InStep' => rxpc = "payload" /\ got > 0 /\ expired[owner]]_vars
  BY InStepStep
<1> QED
  BY <1>1, <1>2, <1>3, PTL DEF Spec, InStepUnlessPayloadCut

-----------------------------------------------------------------------------
(* The buffers. *)

Payload(tag, n) == [i \in 1 .. n |-> DataOf(tag)]

\* A buffer is empty until the reply to its call is matched, and what is in it
\* from then on is what has been read of that reply.
BuffersFilled ==
    /\ \A t \in Threads : pc[t] \in BeforeWrite => buffer[t] = <<>>
    /\ \A t \in Threads : pc[t] = "wait" /\ invokeId[port[t]] # 0 => buffer[t] = <<>>
    /\ rxpc \in {"frame", "response_header"} => buffer[request[slot]] = <<>>
    /\ rxpc = "payload" => buffer[owner] = Payload(frame.tag, got)
    /\ \A p \in Ports : errorCode[p].code = "RESULT" =>
          buffer[request[p]] = Payload(Tag(request[p]), errorCode[p].size)
    /\ \A t \in Threads : result[t].code = "RESULT" =>
          buffer[t] = Payload(Tag(t), result[t].size)
    /\ BufferNotOverrun

FilledInv == AttributedInv /\ StreamInv /\ BuffersFilled

LEMMA FilledInit == WholeBodies /\ Init => FilledInv
<1> SUFFICES ASSUME WholeBodies, Init PROVE FilledInv
  OBVIOUS
<1>1. AttributedInv /\ StreamInv
  BY OwnedInit, UnsentInit, AttributedInit, StreamInit DEF AttributedInv
<1>2. \A t \in Threads : buffer[t] = <<>> /\ result[t].code # "RESULT"
  BY DEF Init, NoResult
<1>3. \A p \in Ports : errorCode[p].code # "RESULT"
  BY DEF Init, WaitingForResponse
<1>4. \A t \in Threads : pc[t] \notin {"wait"}
  BY DEF Init
<1>5. rxpc = "header"
  BY DEF Init
<1>6. BufferNotOverrun
  BY <1>2, ConstantsAssumption DEF BufferNotOverrun
<1> QED
  BY <1>1, <1>2, <1>3, <1>4, <1>5, <1>6 DEF FilledInv, BuffersFilled

\* One more unit of a payload.
LEMMA PayloadGrows ==
  ASSUME NEW tag, NEW n \in Nat
  PROVE  /\ Payload(tag, 0) = <<>>
         /\ Append(Payload(tag, n), DataOf(tag)) = Payload(tag, n + 1)
         /\ Len(Payload(tag, n)) = n
<1>1. Payload(tag, 0) = <<>>
  BY DEF Payload
<1>2. Payload(tag, n) \in Seq({DataOf(tag)}) /\ Len(Payload(tag, n)) = n
  BY DEF Payload
<1>3. Payload(tag, n + 1) \in Seq({DataOf(tag)}) /\ Len(Payload(tag, n + 1)) = n + 1
  BY DEF Payload
<1>4. \A i \in 1 .. n + 1 : Append(Payload(tag, n), DataOf(tag))[i] = Payload(tag, n + 1)[i]
  BY DEF Payload
<1>5. Append(Payload(tag, n), DataOf(tag)) = Payload(tag, n + 1)
  BY <1>2, <1>3, <1>4
<1> QED
  BY <1>1, <1>2, <1>5

\* The call that a code in a slot is for is still in that slot.
LEMMA CodeHasWaiter ==
  ASSUME Owned, NEW p \in Ports, errorCode[p].code = "RESULT"
  PROVE  /\ request[p] \in Threads /\ port[request[p]] = p
         /\ pc[request[p]] \in {"wait", "wait_notify", "release"}
         /\ errorCode[p] # WaitingForResponse
<1>1. errorCode[p] # WaitingForResponse
  BY DEF WaitingForResponse
<1> QED
  BY <1>1 DEF Owned, FreshErrorCode, SlotInv, SlotsExclusive, TypeInv, TypeOK, SlotTypes

\* The call whose reply is being read is still in its slot, and has no result.
LEMMA ReadingHasWaiter ==
  ASSUME AttributedInv, rxpc \in Completing
  PROVE  /\ slot \in Ports /\ request[slot] \in Threads /\ port[request[slot]] = slot
         /\ pc[request[slot]] \in {"wait", "wait_notify"}
         /\ result[request[slot]] = NoResult
         /\ invokeId[slot] = 0 /\ errorCode[slot] = WaitingForResponse
         /\ rxpc # "frame" => owner = request[slot]
<1>1. slot \in Ports /\ request[slot] \in Threads /\ pc[request[slot]] \in {"wait", "wait_notify"}
  BY DEF AttributedInv, Owned, BufferOwned, SlotInv, TypeInv, ReceiverShape
<1>2. port[request[slot]] = slot
  BY <1>1, ConstantsAssumption DEF AttributedInv, Owned, SlotInv, SlotsExclusive
<1>3. result[request[slot]] = NoResult
  BY <1>1 DEF AttributedInv, UnsentInv, Undecided
<1> QED
  BY <1>1, <1>2, <1>3 DEF AttributedInv, Owned, BufferOwned, SlotUnsettled

\* What a step of thread t does to buffers and ids.
LEMMA ThreadBuffers ==
  ASSUME TypeInv, NEW t \in Threads,
         (\E p \in Ports : AdsRequest(t, p)) \/ Thread(t) \/ DeadlinePasses(t)
  PROVE  /\ \A u \in Threads : u # t => buffer'[u] = buffer[u]
         /\ \/ buffer'[t] = buffer[t] /\ calls'[t] = calls[t]
            \/ pc[t] = "idle" /\ buffer'[t] = <<>> /\ pc'[t] = "local_address"
         /\ pc'[t] \in BeforeWrite => pc[t] \in BeforeWrite \/ buffer'[t] = <<>>
         /\ pc'[t] = "wait" =>
               \/ pc[t] = "write"
               \/ pc[t] = "wait" /\ invokeId' = invokeId /\ port'[t] = port[t]
         /\ \A p \in Ports :
               \/ invokeId'[p] \in {invokeId[p], 0}
               \/ p = port[t] /\ pc[t] = "store" /\ pc'[t] = "write"
<1> USE DEF Goto, Return, TypeInv, TypeOK, ThreadTypes, SlotTypes, PortKnown, slotVars, threadVars,
        callVars, farVars, BeforeWrite, Unsent
<1>1. ASSUME NEW p \in Ports, AdsRequest(t, p)
      PROVE  /\ UNCHANGED invokeId /\ pc[t] = "idle" /\ pc'[t] = "local_address" /\ buffer'[t] = <<>>
             /\ \A u \in Threads : u # t => buffer'[u] = buffer[u]
  BY <1>1 DEF AdsRequest
<1>2. CASE GetLocalAddress(t) \/ PortNotOpen(t) \/ GetInvokeId(t) \/ PortInUse(t)
  BY <1>2 DEF GetLocalAddress, PortNotOpen, GetInvokeId, PortInUse
<1>3. CASE Reserve(t) \/ StoreInvokeId(t)
  BY <1>3 DEF Reserve, IsFree, StoreInvokeId
<1>4. CASE WriteFrame(t)
  BY <1>4 DEF WriteFrame
<1>5. CASE WriteFails(t) \/ WriteTorn(t)
  BY <1>5 DEF WriteFails, WriteTorn, FailWrite
<1>6. CASE WaitTimeout(t)
  BY <1>6 DEF WaitTimeout
<1>7. CASE WaitConsumed(t) \/ WaitNotify(t)
  BY <1>7 DEF WaitConsumed, WaitNotify
<1>8. CASE ReleaseErrorCode(t) \/ ReleaseRequest(t)
  BY <1>8 DEF ReleaseErrorCode, ReleaseRequest
<1>9. CASE DeadlinePasses(t)
  BY <1>9 DEF DeadlinePasses
<1> QED
  BY <1>1, <1>2, <1>3, <1>4, <1>5, <1>6, <1>7, <1>8, <1>9 DEF Thread

LEMMA ThreadStepFilled ==
  ASSUME FilledInv, NEW t \in Threads,
         (\E p \in Ports : AdsRequest(t, p)) \/ Thread(t) \/ DeadlinePasses(t)
  PROVE  BuffersFilled'
<1>1. TypeInv /\ Owned /\ AttributedInv /\ BuffersFilled /\ SlotsExclusive
  BY DEF FilledInv, AttributedInv, Owned, SlotInv
<1>2. UNCHANGED rxVars
  BY ThreadLeaves
<1> DEFINE Same(u) == buffer'[u] = buffer[u] /\ calls'[u] = calls[u]
<1>3. \A u \in Threads : pc[u] # "idle" => Same(u)
  BY <1>1, ThreadBuffers, ThreadChanges
<1>4. ASSUME NEW p \in Ports, request[p] \in Threads, pc[request[p]] \in {"wait", "wait_notify", "release"}
      PROVE  request'[p] = request[p]
  BY <1>1, <1>4, ThreadChanges, ConstantsAssumption DEF SlotsExclusive, Holding
<1>5. (\A u \in Threads : pc[u] \in BeforeWrite => buffer[u] = <<>>)'
  BY <1>1, ThreadBuffers, ThreadChanges DEF BuffersFilled, BeforeWrite, Unsent
<1>6. (\A u \in Threads : pc[u] = "wait" /\ invokeId[port[u]] # 0 => buffer[u] = <<>>)'
  <2> SUFFICES ASSUME NEW u \in Threads, pc'[u] = "wait", invokeId'[port'[u]] # 0
               PROVE  buffer'[u] = <<>>
    OBVIOUS
  <2>1. CASE u = t
    <3>1. pc[t] \in {"write", "wait"} /\ buffer'[t] = buffer[t]
      BY <1>1, <1>3, <2>1, ThreadBuffers
    <3>2. CASE pc[t] = "write"
      BY <1>1, <2>1, <3>1, <3>2 DEF BuffersFilled, BeforeWrite, Unsent
    <3>3. CASE pc[t] = "wait"
      BY <1>1, <2>1, <3>1, <3>3, ThreadBuffers DEF BuffersFilled
    <3> QED
      BY <3>1, <3>2, <3>3
  <2>2. CASE u # t
    <3>1. pc[u] = "wait" /\ port'[u] = port[u] /\ buffer'[u] = buffer[u]
      BY <1>1, <2>2, ThreadChanges, ThreadBuffers
    <3>2. port[u] \in Ports /\ request[port[u]] = u
      BY <1>1, <3>1 DEF TypeInv, PortKnown, SlotsExclusive, Holding
    <3>3. ~(port[u] = port[t] /\ pc[t] = "store")
      BY <1>1, <2>2, <3>2 DEF SlotsExclusive, Holding
    <3>4. invokeId[port[u]] # 0
      BY <1>1, <3>1, <3>2, <3>3, ThreadBuffers
    <3> QED
      BY <1>1, <3>1, <3>4 DEF BuffersFilled
  <2> QED
    BY <2>1, <2>2
<1>7. /\ (rxpc \in {"frame", "response_header"} => buffer[request[slot]] = <<>>)'
      /\ (rxpc = "payload" => buffer[owner] = Payload(frame.tag, got))'
  <2>1. ASSUME rxpc \in Completing
        PROVE  request'[slot] = request[slot] /\ Same(request[slot])
    BY <1>1, <1>3, <1>4, <2>1, ReadingHasWaiter
  <2>2. rxpc = "payload" => owner = request[slot]
    BY <1>1, ReadingHasWaiter DEF Completing
  <2> QED
    BY <1>1, <1>2, <2>1, <2>2 DEF BuffersFilled, Completing, rxVars, Payload, DataOf
<1>8. (\A p \in Ports : errorCode[p].code = "RESULT" =>
          buffer[request[p]] = Payload(Tag(request[p]), errorCode[p].size))'
  <2> SUFFICES ASSUME NEW p \in Ports, errorCode'[p].code = "RESULT"
               PROVE  buffer'[request'[p]] = Payload(<<request'[p], calls'[request'[p]]>>, errorCode'[p].size)
    BY DEF Payload, DataOf, Tag
  <2>1. errorCode'[p] = errorCode[p]
    BY <1>1, ThreadChanges DEF WaitingForResponse
  <2>2. request'[p] = request[p] /\ Same(request[p])
    BY <1>1, <1>3, <1>4, <2>1, CodeHasWaiter
  <2> QED
    BY <1>1, <2>1, <2>2 DEF BuffersFilled, Tag
<1>9. (\A u \in Threads : result[u].code = "RESULT" =>
          buffer[u] = Payload(Tag(u), result[u].size))'
  <2> SUFFICES ASSUME NEW u \in Threads, result'[u].code = "RESULT"
               PROVE  buffer'[u] = Payload(<<u, calls'[u]>>, result'[u].size)
    BY DEF Payload, DataOf, Tag
  <2>1. CASE result'[u] = result[u] /\ Same(u)
    BY <1>1, <2>1 DEF BuffersFilled, Tag
  <2>2. CASE u # t
    BY <1>1, <2>1, <2>2, ThreadChanges, ThreadBuffers
  <2>3. CASE u = t
    <3>1. result'[t] \notin {NoResult} \cup NotSentResults(t) \cup {Local("SYNCTIMEOUT", Tag(t))}
      BY <2>3 DEF NoResult, NotSentResults, NotSent, Local
    <3>2. pc'[t] = "local_address" /\ pc[t] = "idle" => result'[t] = NoResult
      BY <1>1, ThreadChanges DEF Thread, GetLocalAddress, PortNotOpen, GetInvokeId, Reserve,
         PortInUse, StoreInvokeId, WriteFrame, WriteFails, WriteTorn, FailWrite, WaitTimeout,
         WaitConsumed, WaitNotify, ReleaseErrorCode, ReleaseRequest, DeadlinePasses, AdsRequest,
         TypeInv, TypeOK, ThreadTypes
    <3>3. Same(t)
      BY <1>1, <3>1, <3>2, ThreadBuffers
    <3>4. CASE pc[t] = "wait_notify" /\ result'[t] = errorCode[port[t]]
      <4>1. port[t] \in Ports /\ request[port[t]] = t
        BY <1>1, <3>4 DEF TypeInv, PortKnown, SlotsExclusive, Holding
      <4> QED
        BY <1>1, <2>3, <3>3, <3>4, <4>1 DEF BuffersFilled, Tag
    <3> QED
      BY <1>1, <2>1, <2>3, <3>1, <3>3, <3>4, ThreadChanges
  <2> QED
    BY <2>2, <2>3
<1>10. BufferNotOverrun'
  BY <1>1, ThreadBuffers, ConstantsAssumption DEF BuffersFilled, BufferNotOverrun
<1> QED
  BY <1>5, <1>6, <1>7, <1>8, <1>9, <1>10 DEF BuffersFilled

\* The receiver reads a unit of the payload into the buffer.
LEMMA ReceivePayloadFilled ==
  ASSUME FilledInv, ReceivePayload
  PROVE  BuffersFilled'
<1>1. TypeInv /\ Owned /\ AttributedInv /\ StreamInv /\ BuffersFilled /\ SlotsExclusive
  BY DEF FilledInv, AttributedInv, Owned, SlotInv
<1>2. /\ rxpc = "payload" /\ rxpc' = "payload" /\ got < bytesLeft /\ got' = got + 1
      /\ got \in Nat /\ bytesLeft \in Nat /\ TakeUnit
      /\ UNCHANGED <<request, invokeId, errorCode, pc, port, calls, result, frame, slot, owner>>
  BY <1>1, ConstantsAssumption
     DEF ReceivePayload, slotVars, threadVars, callVars, TypeInv, TypeOK, ReceiverTypes
<1>3. /\ slot \in Ports /\ owner \in Threads /\ owner = request[slot] /\ port[owner] = slot
      /\ pc[owner] \in {"wait", "wait_notify"} /\ result[owner] = NoResult
      /\ invokeId[slot] = 0 /\ errorCode[slot] = WaitingForResponse
  BY <1>1, <1>2, ReadingHasWaiter DEF Completing
<1>4. Head(wire) = DataOf(frame.tag)
  <2>1. Remaining \in Nat \ {0}
    BY <1>2, RemainingCases
  <2>2. Follows(wire, link = "up", sending.left, sending.tag, 0, Remaining, DataOf(frame.tag))
    BY <1>1, <1>2 DEF StreamInv, InFrame, Behind, Completing
  <2> QED
    BY <1>1, <1>2, <2>1, <2>2, TakesFirst, FollowsFirst
<1>5. buffer'[owner] = Payload(frame.tag, got + 1)
  <2>1. buffer'[owner] = Append(buffer[owner], Head(wire)) /\ buffer[owner] = Payload(frame.tag, got)
    BY <1>1, <1>2, <1>3 DEF ReceivePayload, BuffersFilled, TypeInv, TypeOK, ThreadTypes
  <2> QED
    BY <1>2, <1>4, <2>1, PayloadGrows
<1>6. \A u \in Threads : u # owner => buffer'[u] = buffer[u]
  BY <1>1, <1>3 DEF ReceivePayload, TypeInv, TypeOK, ThreadTypes
<1>7. Len(buffer'[owner]) <= BufferLength
  <2>1. frame \in Heads /\ bytesLeft = frame.len - 1 /\ ~TooLong(frame)
    BY <1>1, <1>2 DEF AttributedInv, Attributed, FrameInv, TypeInv, ReceiverShape, Completing
  <2>2. got + 1 <= BufferLength
    BY <1>2, <2>1, ConstantsAssumption DEF TooLong, HeaderUnits, Heads
  <2>3. Len(Payload(frame.tag, got + 1)) = got + 1
    BY <1>2, PayloadGrows
  <2> QED
    BY <1>5, <2>2, <2>3
<1>8. (\A u \in Threads : pc[u] \in BeforeWrite => buffer[u] = <<>>)'
  BY <1>1, <1>2, <1>3, <1>6 DEF BuffersFilled, BeforeWrite, Unsent
<1>9. (\A u \in Threads : pc[u] = "wait" /\ invokeId[port[u]] # 0 => buffer[u] = <<>>)'
  BY <1>1, <1>2, <1>3, <1>6 DEF BuffersFilled
<1>10. (\A p \in Ports : errorCode[p].code = "RESULT" =>
          buffer[request[p]] = Payload(Tag(request[p]), errorCode[p].size))'
  <2> SUFFICES ASSUME NEW p \in Ports, errorCode[p].code = "RESULT"
               PROVE  buffer'[request[p]] = Payload(Tag(request[p]), errorCode[p].size)
    BY <1>2 DEF Payload, DataOf, Tag
  <2>1. request[p] \in Threads /\ request[p] # owner
    BY <1>1, <1>3, CodeHasWaiter
  <2> QED
    BY <1>1, <1>6, <2>1 DEF BuffersFilled
<1>11. (\A u \in Threads : result[u].code = "RESULT" => buffer[u] = Payload(Tag(u), result[u].size))'
  <2> SUFFICES ASSUME NEW u \in Threads, result[u].code = "RESULT"
               PROVE  buffer'[u] = Payload(Tag(u), result[u].size)
    BY <1>2 DEF Payload, DataOf, Tag
  <2>1. u # owner
    BY <1>3 DEF NoResult
  <2> QED
    BY <1>1, <1>6, <2>1 DEF BuffersFilled
<1>12. BufferNotOverrun'
  BY <1>1, <1>6, <1>7 DEF BuffersFilled, BufferNotOverrun
<1>13. (rxpc = "payload" => buffer[owner] = Payload(frame.tag, got))'
  BY <1>2, <1>5 DEF Payload, DataOf
<1> QED
  BY <1>2, <1>8, <1>9, <1>10, <1>11, <1>12, <1>13 DEF BuffersFilled

LEMMA ReceiverStepFilled ==
  ASSUME FilledInv, Receiver, ~ReceivePayload
  PROVE  BuffersFilled'
<1>1. TypeInv /\ Owned /\ AttributedInv /\ BuffersFilled /\ SlotsExclusive
  BY DEF FilledInv, AttributedInv, Owned, SlotInv
<1>2. UNCHANGED <<buffer, request, pc, port, calls, result>>
  BY ReceiverLeaves DEF threadVars, callVars
<1>3. \A p \in Ports : invokeId'[p] # 0 => invokeId'[p] = invokeId[p]
  BY <1>1, ReceiverLeaves DEF GetPending, TypeInv, TypeOK, SlotTypes
<1>4. (\A u \in Threads : pc[u] = "wait" /\ invokeId[port[u]] # 0 => buffer[u] = <<>>)'
  BY <1>1, <1>2, <1>3 DEF BuffersFilled, TypeInv, PortKnown
<1>5. /\ (rxpc \in {"frame", "response_header"} => buffer[request[slot]] = <<>>)'
      /\ (rxpc = "payload" => buffer[owner] = Payload(frame.tag, got))'
  <2>1. CASE rxpc' \notin Completing
    BY <2>1 DEF Completing
  <2>2. CASE rxpc' \in Completing /\ GetPending
    <3>1. /\ rxpc' = "frame" /\ slot' = frame.port /\ frame.port \in Ports
          /\ request[frame.port] \in Threads /\ pc[request[frame.port]] = "wait"
          /\ invokeId[frame.port] # 0
      BY <1>1, <2>2, PendingIsCurrent DEF GetPending, Current
    <3>2. port[request[frame.port]] = frame.port
      BY <1>1, <3>1, ConstantsAssumption DEF SlotsExclusive
    <3> QED
      BY <1>1, <1>2, <3>1, <3>2 DEF BuffersFilled
  <2>3. CASE rxpc' \in Completing /\ ~GetPending
    <3>1. /\ ReceiveFrame \/ ReceiveResponseHeader
          /\ rxpc \in Completing /\ UNCHANGED slot
      BY <1>1, <2>3, ReceiverKeepsSlot
    <3>2. CASE ReceiveFrame
      BY <1>1, <1>2, <2>3, <3>1, <3>2 DEF ReceiveFrame, OnFrame, BuffersFilled, Completing
    <3>3. CASE ReceiveResponseHeader
      <4>1. rxpc = "response_header" /\ rxpc' = "payload" /\ UNCHANGED <<owner, got, frame>> /\ got = 0
        BY <1>1, <3>3 DEF ReceiveResponseHeader, TypeInv, ReceiverShape
      <4>2. buffer[owner] = <<>>
        BY <1>1, <4>1, ReadingHasWaiter DEF BuffersFilled, Completing
      <4>3. buffer[owner] = Payload(frame.tag, 0)
        BY <4>2, PayloadGrows
      <4> QED
        BY <1>2, <4>1, <4>3 DEF Payload, DataOf
    <3> QED
      BY <3>1, <3>2, <3>3
  <2> QED
    BY <2>1, <2>2, <2>3
<1>6. (\A p \in Ports : errorCode[p].code = "RESULT" =>
          buffer[request[p]] = Payload(Tag(request[p]), errorCode[p].size))'
  <2> SUFFICES ASSUME NEW p \in Ports, errorCode'[p].code = "RESULT"
               PROVE  buffer[request[p]] = Payload(Tag(request[p]), errorCode'[p].size)
    BY <1>2 DEF Payload, DataOf, Tag
  <2>1. CASE errorCode'[p] = errorCode[p]
    BY <1>1, <2>1 DEF BuffersFilled
  <2>2. CASE errorCode'[p] # errorCode[p]
    <3>1. ReceiveError \/ ReceiveTooLong \/ DeliverFrame \/ ReceiveTimeout
      BY <2>2, ReceiverLeaves
    <3>2. p = slot
      BY <1>1, <2>2, <3>1, NotifiedIsJustified
    <3>3. ASSUME NEW code, Notify(slot, Local(code, frame.tag)) PROVE errorCode'[slot].code = code
      BY <1>1, <3>2, <3>3 DEF Notify, Local, TypeInv, TypeOK, SlotTypes
    <3>4. DeliverFrame
      BY <3>1, <3>2, <3>3 DEF ReceiveError, ReceiveTooLong, RefuseFrame, ReceiveTimeout
    <3>5. rxpc = "payload" /\ got = bytesLeft /\ errorCode'[slot].size = bytesLeft
      BY <1>1, <3>2, <3>4 DEF DeliverFrame, BodyComplete, Notify, TypeInv, TypeOK, SlotTypes
    <3>6. owner = request[slot] /\ frame.tag = Tag(request[slot])
      BY <1>1, <3>5, ReadingHasWaiter DEF Completing, AttributedInv, Attributed, FrameInv
    <3> QED
      BY <1>1, <3>2, <3>5, <3>6 DEF BuffersFilled
  <2> QED
    BY <2>1, <2>2
<1>7. /\ (\A u \in Threads : pc[u] \in BeforeWrite => buffer[u] = <<>>)'
      /\ (\A u \in Threads : result[u].code = "RESULT" => buffer[u] = Payload(Tag(u), result[u].size))'
      /\ BufferNotOverrun'
  BY <1>1, <1>2 DEF BuffersFilled, BufferNotOverrun, Payload, DataOf, Tag
<1> QED
  BY <1>4, <1>5, <1>6, <1>7 DEF BuffersFilled

LEMMA FilledStep ==
  "torn_write" \notin Faults /\ FilledInv /\ [Next]_vars /\ [NoWrap]_nextId => FilledInv'
<1> SUFFICES ASSUME "torn_write" \notin Faults, FilledInv, [Next]_vars, [NoWrap]_nextId
             PROVE  FilledInv'
  OBVIOUS
<1>1. AttributedInv' /\ StreamInv'
  BY AttributedStep, StreamStep DEF FilledInv
<1>2. ASSUME Peer \/ Stop \/ UNCHANGED vars PROVE BuffersFilled'
  <2>1. UNCHANGED <<slotVars, threadVars, buffer, rxVars>>
    BY <1>2, PeerLeaves
  <2> QED
    BY <2>1 DEF FilledInv, BuffersFilled, BufferNotOverrun, slotVars, threadVars, callVars, rxVars,
       Payload, DataOf, Tag
<1>3. ASSUME Receiver PROVE BuffersFilled'
  BY <1>3, ReceivePayloadFilled, ReceiverStepFilled
<1>4. ASSUME NEW t \in Threads,
             (\E p \in Ports : AdsRequest(t, p)) \/ Thread(t) \/ DeadlinePasses(t)
      PROVE  BuffersFilled'
  BY <1>4, ThreadStepFilled
<1>5. BuffersFilled'
  BY <1>2, <1>3, <1>4 DEF Next
<1> QED
  BY <1>1, <1>5 DEF FilledInv

\* A call that returns ADSERR_NOERR finds in the caller's buffer exactly the
\* payload of the answer to that call, whatever deadlines passed and whatever
\* other replies came late, as long as the counter of invoke ids has not wrapped
\* and send() cuts no frame short; no reply with a whole response header is
\* written past the buffer's end (AmsConnection.cpp:388).
THEOREM PayloadsAreOwn ==
  WholeBodies /\ "torn_write" \notin Faults => (Spec /\ [][NoWrap]_nextId => [](OwnPayload /\ BufferNotOverrun))
<1> SUFFICES ASSUME WholeBodies, "torn_write" \notin Faults
             PROVE  Spec /\ [][NoWrap]_nextId => [](OwnPayload /\ BufferNotOverrun)
  OBVIOUS
<1>0. Init => FilledInv
  BY FilledInit
<1>1. FilledInv /\ [Next]_vars /\ [NoWrap]_nextId => FilledInv'
  BY FilledStep
<1>2. FilledInv => OwnPayload
  <2> SUFFICES ASSUME FilledInv, NEW t \in Threads, result[t] # NoResult, result[t].code = "RESULT"
               PROVE  /\ [kind |-> "ok", tag |-> Tag(t), size |-> result[t].size] \in answers
                      /\ buffer[t] = [i \in 1 .. result[t].size |-> [kind |-> "data", tag |-> Tag(t)]]
    BY DEF OwnPayload
  <2>1. Justified(result[t], t) /\ result[t] # Local("SYNCTIMEOUT", Tag(t))
    BY DEF FilledInv, AttributedInv, Attributed, NotSentResults, NotSent, Local
  <2>2. PICK a \in answers : a.tag = Tag(t) /\ result[t] = Promise!Delivered(a)
    BY <2>1 DEF Justified
  <2>3. a \in Answers
    BY <2>2 DEF FilledInv, StreamInv, TypeInv, TypeOK, PeerTypes
  <2>4. a.kind = "ok" /\ result[t].size = a.size
    BY <2>2, <2>3, DeliveredCases DEF Answers, AnswerKinds, Local
  <2>5. a = [kind |-> "ok", tag |-> Tag(t), size |-> result[t].size]
    BY <2>2, <2>3, <2>4 DEF Answers
  <2> QED
    BY <2>2, <2>5 DEF FilledInv, BuffersFilled, Payload, DataOf
<1>3. FilledInv => BufferNotOverrun
  BY DEF FilledInv, BuffersFilled
<1> QED
  BY <1>0, <1>1, <1>2, <1>3, PTL DEF Spec

=============================================================================
