---------------------- MODULE NotificationDispatcher ----------------------
(***************************************************************************)
(* Notifications of one virtual connection: ReceiveNotification of the     *)
(* connection's receiver thread writes each into the ring of the           *)
(* dispatcher, whose own thread takes it out again, looks up each sample's *)
(* handle and calls the user back (standalone/NotificationDispatcher.cpp,  *)
(* AdsNotification.h, RingBuffer.h, Semaphore.h and AmsConnection.cpp).    *)
(*                                                                         *)
(* The receiver loads the ring's read pointer twice where it asks for what *)
(* is free, without a lock.  torn records that the dispatcher wrapped in   *)
(* between when a notification was taken for one that has room; the two    *)
(* threads end there: what they do once unread bytes are overwritten is    *)
(* not modelled.                                                           *)
(*                                                                         *)
(* The library itself registers no notification yet: CreateNotifyMapping   *)
(* has no caller.  The user thread here is the caller it is written for.   *)
(*                                                                         *)
(* A cell of the ring stands for a field: the header of the stamps, a      *)
(* sample's header, or one unit of its data.  The length prefix, whose     *)
(* bytes are written one by one, has two.                                  *)
(***************************************************************************)
EXTENDS RingBuffer, FiniteSets

CONSTANTS
    Handles,        \* handles the device gives out
    MappedSize,     \* for each, the length the user asked for
    Messages,       \* what the device may send, field by field
    MaxMessages,    \* bound on the notifications of a behaviour
    MaxCalls        \* bound on the calls of the user

VARIABLES
    dispatcher,    \* whether DispatcherListAdd has made one for the connection
    notifications, \* the handles the dispatcher has a Notification for
    data, write, read,
    sem,           \* count of the semaphore
    rpc, left, chunk,   \* the receiver: where it is, bytesLeft and chunk
    seen,               \* and the ring's read pointer as it was loaded to be compared
    torn,          \* history: there was room by two values of read that do not belong together
    dpc, full, samples, current,   \* the dispatcher's thread and its local variables
    stopExecution,
    upc, calls,    \* the user's thread
    sent,          \* history: the notifications received, as they were sent
    stream, begin, \* history: their fields one after the other, and where each begins
    done,          \* history: how many of them the dispatcher has finished
    delivered      \* history: the calls of the user's callback

ring == <<data, write, read>>
receiver == <<rpc, left, chunk, seen, torn>>
thread == <<dpc, full, samples, current>>
user == <<upc, calls>>
history == <<sent, stream, begin>>
vars == <<dispatcher, notifications, ring, sem, receiver, thread, stopExecution, user, history, done, delivered>>

\* The fields of a message behind the header of its stamps: of its j-th sample, the header with
\* the handle and the size n, then the units 1..n of the data.
Fields == [field : {"sample", "data"}, h : Handles, j : Nat, n : Nat]
IsSample(f) == f.field = "sample"
DataOf(s, i) == [field |-> "data", h |-> s.h, j |-> s.j, n |-> i]

\* How many samples its header says there are.
Count(message) == IF message = <<>> THEN 0 ELSE message[Len(message)].j

\* Each sample's header is followed by as much data as it says, and that by the next header.
LaidOut(message) ==
    /\ message # <<>> => IsSample(message[1]) /\ message[1].j = 1
    /\ \A k \in DOMAIN message : IsSample(message[k]) =>
          LET s == message[k]
              after == k + s.n
          IN /\ s.j <= Count(message)
             /\ after <= Len(message)
             /\ \A i \in 1..s.n : message[k + i] = DataOf(s, i)
             /\ after < Len(message) => IsSample(message[after + 1]) /\ message[after + 1].j = s.j + 1

ASSUME DispatcherAssumption ==
    /\ MappedSize \in [Handles -> Nat]
    /\ Messages \subseteq Seq(Fields)
    /\ \A message \in Messages : LaidOut(message)
    /\ MaxMessages \in Nat /\ MaxCalls \in Nat

-----------------------------------------------------------------------------
\* A notification in the ring; its cells tell of which sample of which notification they are.
Cell(field, h, m, j, n) == [field |-> field, h |-> h, m |-> m, j |-> j, n |-> n]
Header(field, n) == Cell(field, "none", 0, 0, n)
CellOf(m, f) == Cell(f.field, f.h, m, f.j, f.n)
UnitOf(c, i) == Cell("data", c.h, c.m, c.j, i)
Body(m, message) ==
    <<Header("stamps", Count(message))>> \o [k \in DOMAIN message |-> CellOf(m, message[k])]
Prefix(n) == <<Header("length", n), Header("length", n)>>
Record(m, message) == Prefix(Len(message) + 1) \o Body(m, message)

Blank == Header("unwritten", 0)
NoSample == Blank

Init ==
    /\ dispatcher = FALSE
    /\ notifications = {}
    /\ data = [i \in Offsets |-> Blank]
    /\ write = 0 /\ read = 0
    /\ sem = 0
    /\ rpc = "header" /\ left = 0 /\ chunk = 0 /\ seen = 0
    /\ torn = FALSE
    /\ dpc = "acquire" /\ full = 0 /\ samples = 0 /\ current = NoSample
    /\ stopExecution = FALSE
    /\ upc = "idle" /\ calls = 0
    /\ sent = <<>> /\ stream = <<>> /\ begin = <<0>>
    /\ done = 0 /\ delivered = <<>>

-----------------------------------------------------------------------------
\* ReceiveNotification: with a dispatcher, BytesFree begins: read is compared with write.
LookForRoom ==
    /\ rpc = "header" /\ dispatcher
    /\ Len(sent) < MaxMessages
    /\ seen' = read
    /\ rpc' = "room"
    /\ UNCHANGED <<dispatcher, notifications, ring, sem, left, chunk, torn, thread, stopExecution, user, history, done, delivered>>

\* No dispatcher, or no room for the length and the body: the body is read as junk, and Recv returns.
Refused(m, message) ==
    \/ rpc = "header" /\ ~dispatcher
    \/ rpc = "room" /\ Len(Record(m, message)) > BytesFree(write, seen, read)

RefuseNotification ==
    /\ Len(sent) < MaxMessages
    /\ \E message \in Messages : Refused(Len(sent) + 1, message)
    /\ seen' = 0
    /\ rpc' = "ended"
    /\ UNCHANGED <<dispatcher, notifications, ring, sem, left, chunk, torn, thread, stopExecution, user, history, done, delivered>>

\* There is room: the length prefix is written.
AcceptNotification(message) ==
    LET m == Len(sent) + 1
        n == Len(Body(m, message))
    IN /\ rpc = "room"
       /\ ~Refused(m, message)
       /\ torn' = Torn(write, seen, read)
       /\ seen' = 0
       /\ data' = Stored(data, write, Prefix(n))
       /\ write' = Increment(write, 2)
       /\ left' = n
       /\ rpc' = "chunk"
       /\ sent' = Append(sent, message)
       /\ stream' = stream \o Record(m, message)
       /\ begin' = Append(begin, Len(stream'))
       /\ UNCHANGED <<dispatcher, notifications, read, sem, chunk, thread, stopExecution, user, done, delivered>>

\* WriteChunk begins: read is compared with write; the reader may wrap before it is subtracted.
LookForChunk ==
    /\ rpc = "chunk" /\ ~torn
    /\ seen' = read
    /\ rpc' = "measure"
    /\ UNCHANGED <<dispatcher, notifications, ring, sem, left, chunk, torn, thread, stopExecution, user, history, done, delivered>>

MeasureChunk ==
    /\ rpc = "measure"
    /\ chunk' = WriteChunk(write, seen, read)
    /\ seen' = 0
    /\ rpc' = "body"
    /\ UNCHANGED <<dispatcher, notifications, ring, sem, left, torn, thread, stopExecution, user, history, done, delivered>>

\* The bytes awaited at write: as many as fit before the ring wraps, as it was when chunk was taken.
Awaited == IF left > chunk THEN chunk ELSE left
AfterChunk(rest) == IF rest > chunk THEN "chunk" ELSE "notify"

\* One turn of the loop: the bytes arrive, and the next chunk is measured if there is one.
ReceiveChunk ==
    LET m == Len(sent)
        body == Body(m, sent[m])
        from == Len(body) - left
    IN /\ rpc = "body"
       /\ data' = Stored(data, write, SubSeq(body, from + 1, from + Awaited))
       /\ write' = Increment(write, Awaited)
       /\ left' = left - Awaited
       /\ chunk' = 0
       /\ rpc' = AfterChunk(left)
       /\ UNCHANGED <<dispatcher, notifications, read, sem, seen, torn, thread, stopExecution, user, history, done, delivered>>

\* The connection is lost, or stopped, while a header or a body is awaited.
ReceiveFails ==
    /\ rpc \in {"header", "body"}
    /\ rpc' = "ended"
    /\ UNCHANGED <<dispatcher, notifications, ring, sem, left, chunk, seen, torn, thread, stopExecution, user, history, done, delivered>>

\* A mutation: the semaphore only remembers that there is something.
IsFlag(count) == 1
\* Semaphore::release.
Released(count) == count + 1

Notify ==
    /\ rpc = "notify"
    /\ sem' = Released(sem)
    /\ rpc' = "header"
    /\ UNCHANGED <<dispatcher, notifications, ring, left, chunk, seen, torn, thread, stopExecution, user, history, done, delivered>>

-----------------------------------------------------------------------------
\* Run: a count is taken, then the length and the stamps' header are read.
Acquire ==
    /\ dispatcher /\ dpc = "acquire" /\ sem > 0 /\ ~torn
    /\ sem' = sem - 1
    /\ IF stopExecution
       THEN /\ dpc' = "ended"
            /\ UNCHANGED <<read, full, samples>>
       ELSE /\ dpc' = "samples"
            /\ full' = data[read].n - 1
            /\ samples' = data[Increment(read, 2)].n
            /\ read' = Increment(read, 3)
    /\ UNCHANGED <<dispatcher, notifications, data, write, receiver, current, stopExecution, user, history, done, delivered>>

\* A mutation: samples of any size are taken.
AnySize(h, size) == FALSE
WrongSize(h, size) == size # MappedSize[h]

\* A sample's header is read, and Find looks the handle up under the mutex.
FindSample ==
    LET sample == data[read]
    IN /\ dpc = "samples" /\ samples > 0 /\ ~torn
       /\ current' = sample
       /\ read' = Increment(read, 1)
       /\ full' = full - 1
       /\ dpc' = CASE sample.h \notin notifications -> "skip"
                   [] sample.h \in notifications /\ WrongSize(sample.h, sample.n) -> "cleanup"
                   [] OTHER -> "callback"
       /\ UNCHANGED <<dispatcher, notifications, data, write, sem, receiver, samples, stopExecution, user, history, done, delivered>>

SampleEnds(n) ==
    /\ ~torn
    /\ read' = Increment(read, n)
    /\ full' = full - current.n
    /\ samples' = samples - 1
    /\ current' = NoSample
    /\ dpc' = "samples"
    /\ UNCHANGED <<dispatcher, notifications, data, write, sem, receiver, stopExecution, user, history, done>>

\* Notification::Notify reads as much as was asked for and calls back; the handle may have been
\* erased since it was found.
CallBack ==
    LET n == MappedSize[current.h]
    IN /\ dpc = "callback"
       /\ delivered' = Append(delivered, [of |-> current, cells |-> Held(data, read, n)])
       /\ SampleEnds(n)

SkipSample ==
    /\ dpc = "skip"
    /\ UNCHANGED delivered
    /\ SampleEnds(current.n)

\* A mutation: a sample of the wrong size is left in the ring.
LeavesSample(rest) == rest - current.n
\* What cleanup reads away: the rest of the notification.
Rest(rest) == rest

\* The label cleanup, reached with all samples done or at the first of a wrong size.
Cleanup ==
    /\ dpc = "cleanup" \/ (dpc = "samples" /\ samples = 0)
    /\ ~torn
    /\ read' = Increment(read, IF dpc = "cleanup" THEN Rest(full) ELSE full)
    /\ done' = done + 1
    /\ dpc' = "acquire"
    /\ full' = 0 /\ samples' = 0 /\ current' = NoSample
    /\ UNCHANGED <<dispatcher, notifications, data, write, sem, receiver, stopExecution, user, history, delivered>>

-----------------------------------------------------------------------------
\* CreateNotifyMapping: the dispatcher is found or made, then the handle is entered.
DispatcherListAdd ==
    /\ upc = "idle" /\ calls < MaxCalls /\ rpc # "ended"
    /\ calls' = calls + 1
    /\ dispatcher' = TRUE
    /\ upc' = "emplace"
    /\ UNCHANGED <<notifications, ring, sem, receiver, thread, stopExecution, history, done, delivered>>

Emplace(h) ==
    /\ upc = "emplace"
    /\ notifications' = notifications \cup {h}
    /\ upc' = "idle"
    /\ UNCHANGED <<dispatcher, ring, sem, receiver, thread, stopExecution, calls, history, done, delivered>>

\* Erase: the device is asked to delete the notification, then the handle is removed.
Erase(h) ==
    /\ upc = "idle" /\ calls < MaxCalls /\ h \in notifications
    /\ calls' = calls + 1
    /\ notifications' = notifications \ {h}
    /\ UNCHANGED <<dispatcher, ring, sem, receiver, thread, stopExecution, upc, history, done, delivered>>

\* A mutation: the thread is told to stop but not woken.
StopsAsleep(count) == count
Woken(count) == Released(count)

\* ~NotificationDispatcher, of a connection whose receiver has been joined.
Destroy ==
    /\ upc = "idle" /\ rpc = "ended" /\ dispatcher
    /\ stopExecution' = TRUE
    /\ sem' = Woken(sem)
    /\ upc' = "join"
    /\ UNCHANGED <<dispatcher, notifications, ring, receiver, thread, calls, history, done, delivered>>

Join ==
    /\ upc = "join" /\ dpc = "ended"
    /\ upc' = "destroyed"
    /\ UNCHANGED <<dispatcher, notifications, ring, sem, receiver, thread, stopExecution, calls, history, done, delivered>>

Accepts == \E message \in Messages : AcceptNotification(message)
Dispatches == Acquire \/ FindSample \/ CallBack \/ SkipSample \/ Cleanup
Emplaces == \E h \in Handles : Emplace(h)
Erases == \E h \in Handles : Erase(h)

Next ==
    \/ LookForRoom
    \/ RefuseNotification
    \/ Accepts
    \/ LookForChunk
    \/ MeasureChunk
    \/ ReceiveChunk
    \/ ReceiveFails
    \/ Notify
    \/ Acquire
    \/ FindSample
    \/ CallBack
    \/ SkipSample
    \/ Cleanup
    \/ DispatcherListAdd
    \/ Emplaces
    \/ Erases
    \/ Destroy
    \/ Join

Spec == Init /\ [][Next]_vars

\* The dispatcher's thread runs, its callbacks return, and a receiver that has written a
\* notification signals it.
FairSpec == Spec /\ WF_vars(Dispatches) /\ WF_vars(Notify) /\ WF_vars(Join)

-----------------------------------------------------------------------------
\* The ring holds what is written and not yet read of the notifications, as they were sent and in
\* their order, and nothing else: first what full says is left of the one the dispatcher is at, last
\* what is written of the one that is being received.  That holds until one is taken for which there
\* was no room (WritesFit).
Begun == IF dpc \in {"acquire", "ended"} THEN done ELSE done + 1
Taken == begin[Begun + 1] - full
Written == Len(stream) - left
RingHoldsUnread == ~torn =>
    /\ BytesAvailable(write, read) = Written - Taken
    /\ Held(data, read, Written - Taken) = SubSeq(stream, Taken + 1, Written)

\* What is received is written into free bytes that do not run past the end of the array (the
\* assert of RingBuffer::Write, and the raw write pointer given to recv), although the reader moves
\* while the bytes are awaited, and between the two loads of read that the chunk is computed from.
ChunksFit == rpc = "body" /\ ~torn => /\ Awaited <= Free(write, read)
                                      /\ write + Awaited <= dataSize

\* RingBuffer::Write asserts "n <= BytesFree()" (RingBuffer.h:31): for the bytes of the length
\* prefix, for which ReceiveNotification has looked.  This does not hold once torn is true.
WritesFit == [][sent' # sent => Len(Prefix(0)) <= Free(write, read)]_vars

\* The user gets each sample's own data, of the length asked for, and the samples in the order in
\* which they were sent (Notification::Notify copies from the ring without a check).
DeliveredAsSent ==
    LET at(i) == delivered[i].of
        later(a, b) == a.m < b.m \/ (a.m = b.m /\ a.j < b.j)
    IN ~torn =>
       /\ \A i \in DOMAIN delivered :
              /\ at(i).n = MappedSize[at(i).h]
              /\ at(i).m \in DOMAIN sent
              /\ \E k \in DOMAIN sent[at(i).m] :
                    /\ IsSample(sent[at(i).m][k])
                    /\ at(i) = CellOf(at(i).m, sent[at(i).m][k])
              /\ delivered[i].cells = [k \in 1..at(i).n |-> UnitOf(at(i), k)]
       /\ \A i, k \in DOMAIN delivered : i < k => later(at(i), at(k))

\* What the receiver has signalled is dispatched, and the destructor's join ends, however many
\* notifications are still in the ring.
SignalledIsDispatched == \A m \in 1..MaxMessages :
    (Len(sent) >= m /\ rpc = "header") ~> (done >= m \/ stopExecution \/ torn)
DispatcherJoins == (upc = "join") ~> (upc = "destroyed")
=============================================================================
