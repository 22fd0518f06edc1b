------------------- MODULE NotificationDispatcherProofs -------------------
(***************************************************************************)
(* What NotificationDispatcher promises, for a ring of any size and any    *)
(* notifications, until one is taken for which there was no room: the ring *)
(* holds just what the dispatcher has yet to read, nothing is written over *)
(* it or past the end of the array, and the user gets each sample's own    *)
(* data in the order in which it was sent.                                 *)
(***************************************************************************)
EXTENDS NotificationDispatcher, SequenceTheorems, TLAPS

-----------------------------------------------------------------------------
(* The pointer arithmetic of RingBuffer.                                   *)

\* The modulus, for less than two rounds either way.
LEMMA Wraps ==
  ASSUME NEW x \in Int
  PROVE  /\ x \in 0..(dataSize - 1) => x % dataSize = x
         /\ x \in dataSize..(2 * dataSize - 1) => x % dataSize = x - dataSize
         /\ x \in (-dataSize)..(-1) => x % dataSize = x + dataSize
BY RingAssumption

\* Increment moves a pointer on by less than a round and stays in the array.
LEMMA Increments ==
  ASSUME NEW p \in Offsets, NEW n \in 0..(dataSize - 1)
  PROVE  /\ Increment(p, n) = IF p + n < dataSize THEN p + n ELSE p + n - dataSize
         /\ Increment(p, n) \in Offsets
<1>1. p + n \in 0..(dataSize - 1) \/ p + n \in dataSize..(2 * dataSize - 1)
  BY RingAssumption DEF Offsets
<1> QED
  BY <1>1, Wraps, RingAssumption DEF Offsets, Increment

\* Two moves are one, as long as they stay within a round.
LEMMA IncrementsAdd ==
  ASSUME NEW p \in Offsets, NEW n \in Nat, NEW k \in Nat, n + k < dataSize
  PROVE  Increment(Increment(p, n), k) = Increment(p, n + k)
<1>1. n \in 0..(dataSize - 1) /\ k \in 0..(dataSize - 1) /\ n + k \in 0..(dataSize - 1)
  BY RingAssumption
<1>2. PICK q \in Offsets : q = Increment(p, n)
  BY <1>1, Increments
<1>3. /\ q = IF p + n < dataSize THEN p + n ELSE p + n - dataSize
      /\ Increment(q, k) = IF q + k < dataSize THEN q + k ELSE q + k - dataSize
      /\ Increment(p, n + k) = IF p + (n + k) < dataSize THEN p + (n + k) ELSE p + (n + k) - dataSize
  BY <1>1, <1>2, Increments
<1>4. Increment(q, k) = Increment(p, n + k)
  BY <1>1, <1>3, RingAssumption DEF Offsets
<1> QED
  BY <1>2, <1>4

\* From the write pointer on, the rest of the round leads back to the fields behind the read pointer.
LEMMA Around ==
  ASSUME NEW p \in Offsets, NEW a \in 0..(dataSize - 1), NEW i \in 1..a
  PROVE  Increment(Increment(p, a), dataSize - a + (i - 1)) = Increment(p, i - 1)
<1>1. i - 1 \in 0..(dataSize - 1) /\ dataSize - a + (i - 1) \in 0..(dataSize - 1)
  BY RingAssumption
<1>2. PICK q \in Offsets : q = Increment(p, a)
  BY Increments
<1>3. PICK k \in 0..(dataSize - 1) : k = dataSize - a + (i - 1)
  BY <1>1
<1>4. /\ q = IF p + a < dataSize THEN p + a ELSE p + a - dataSize
      /\ Increment(q, k) = IF q + k < dataSize THEN q + k ELSE q + k - dataSize
      /\ Increment(p, i - 1) = IF p + (i - 1) < dataSize THEN p + (i - 1) ELSE p + (i - 1) - dataSize
  BY <1>1, <1>2, Increments
<1>5. Increment(q, k) = Increment(p, i - 1)
  BY <1>1, <1>3, <1>4, RingAssumption DEF Offsets
<1> QED
  BY <1>2, <1>3, <1>5

\* A size_t that does not drop below zero is the number itself; one that does is still a number.
LEMMA Unsigned ==
  ASSUME NEW x \in Int
  PROVE  /\ x % SizeSpace \in Nat
         /\ x \in 0..(dataSize - 1) => x % SizeSpace = x
BY RingAssumption, SizeAssumption

\* What is free while the reader stands still.
LEMMA FreeIs ==
  ASSUME NEW w \in Offsets, NEW r \in Offsets
  PROVE  Free(w, r) = IF w < r THEN r - w - 1 ELSE dataSize - 1 - (w - r)
<1>1. CASE w < r
  <2>1. r - w - 1 \in Int /\ r - w - 1 \in 0..(dataSize - 1)
    BY <1>1, RingAssumption DEF Offsets
  <2> QED
    BY <1>1, <2>1, Unsigned DEF Free, BytesFree
<1>2. CASE ~(w < r)
  BY <1>2 DEF Free, BytesFree
<1> QED
  BY <1>1, <1>2

\* What is free, and what is not, is a number.
LEMMA FreeIsInt ==
  ASSUME NEW w \in Offsets, NEW r \in Offsets
  PROVE  Free(w, r) \in Int /\ BytesAvailable(w, r) \in Int
<1>1. w \in Int /\ r \in Int /\ dataSize \in Int
  BY RingAssumption DEF Offsets
<1>2. Free(w, r) \in Int
  <2>1. CASE w < r
    BY <1>1, <2>1, FreeIs
  <2>2. CASE ~(w < r)
    BY <1>1, <2>2, FreeIs
  <2> QED
    BY <2>1, <2>2
<1> QED
  BY <1>1, <1>2 DEF BytesAvailable

\* A write pointer that is a fields ahead of the read pointer leaves the rest of the ring free, up
\* to the one cell that keeps a full ring from an empty one.
LEMMA Counts ==
  ASSUME NEW r \in Offsets, NEW a \in 0..(dataSize - 1)
  PROVE  /\ BytesAvailable(Increment(r, a), r) = a
         /\ Free(Increment(r, a), r) = dataSize - 1 - a
<1>1. Increment(r, a) = IF r + a < dataSize THEN r + a ELSE r + a - dataSize
  BY Increments
<1>2. Increment(r, a) \in Offsets
  BY Increments
<1> QED
  BY <1>1, <1>2, FreeIs, RingAssumption DEF Offsets, BytesAvailable

\* What the writer computes from two values of read, where the second is further on by what was read
\* since the first: what is free by the second, unless the two do not belong together.
LEMMA FreeOfTwo ==
  ASSUME NEW w \in Offsets, NEW r \in Offsets, NEW s \in Offsets,
         BytesAvailable(w, r) <= BytesAvailable(w, s), ~Torn(w, s, r)
  PROVE  BytesFree(w, s, r) = Free(w, r)
<1>1. Free(w, r) = IF w < r THEN r - w - 1 ELSE dataSize - 1 - (w - r)
  BY FreeIs
<1>2. Free(w, s) = IF w < s THEN s - w - 1 ELSE dataSize - 1 - (w - s)
  BY FreeIs
<1>3. CASE w < s
  <2>1. r > w
    BY <1>3 DEF Torn, Offsets
  <2>2. r - w - 1 \in Int /\ r - w - 1 \in 0..(dataSize - 1)
    BY <2>1, RingAssumption DEF Offsets
  <2> QED
    BY <1>1, <1>3, <2>1, <2>2, Unsigned DEF BytesFree, Offsets
<1>4. CASE ~(w < s)
  <2>1. ~(w < r)
    BY <1>1, <1>2, <1>4, RingAssumption DEF BytesAvailable, Offsets
  <2> QED
    BY <1>1, <1>4, <2>1 DEF BytesFree
<1> QED
  BY <1>3, <1>4

\* A chunk of two such values ends with the array at the latest, or, where the reader has wrapped in
\* between, is cut by what was free in front of the reader at first.
LEMMA ChunkInArray ==
  ASSUME NEW w \in Offsets, NEW r \in Offsets, NEW s \in Offsets,
         BytesAvailable(w, r) <= BytesAvailable(w, s), NEW l \in Nat, l <= Free(w, s)
  PROVE  /\ WriteChunk(w, s, r) \in Nat
         /\ w + (IF l > WriteChunk(w, s, r) THEN WriteChunk(w, s, r) ELSE l) <= dataSize
<1>1. Free(w, r) = IF w < r THEN r - w - 1 ELSE dataSize - 1 - (w - r)
  BY FreeIs
<1>2. Free(w, s) = IF w < s THEN s - w - 1 ELSE dataSize - 1 - (w - s)
  BY FreeIs
<1>3. CASE w < s
  <2>1. r - w - 1 \in Int
    BY DEF Offsets
  <2>2. PICK c \in Nat : c = (r - w - 1) % SizeSpace
    BY <2>1, Unsigned
  <2>3. WriteChunk(w, s, r) = c
    BY <1>3, <2>2 DEF WriteChunk
  <2>4. l <= s - w - 1
    BY <1>2, <1>3
  <2> QED
    BY <2>2, <2>3, <2>4, RingAssumption DEF Offsets
<1>4. CASE ~(w < s)
  <2>1. WriteChunk(w, s, r) = dataSize - w - (IF r = 0 THEN 1 ELSE 0)
    BY <1>4 DEF WriteChunk
  <2> QED
    BY <2>1, RingAssumption DEF Offsets
<1> QED
  BY <1>3, <1>4

\* What a cell of the ring may hold.
Cells == [field : {"unwritten", "length", "stamps", "sample", "data"}, h : Handles \cup {"none"},
          m : Nat, j : Nat, n : Nat]

\* d holds, between the pointers r and w, the a cells that stand in the sequence s behind t.
InRing(d, w, r, s, t, a) ==
    /\ w = Increment(r, a)
    /\ \A i \in 1..a : d[Increment(r, i - 1)] = s[t + i]

\* Stored puts its cells behind one another from w on and leaves the others alone.
LEMMA StoredCells ==
  ASSUME NEW d \in [Offsets -> Cells], NEW w \in Offsets, NEW cells \in Seq(Cells),
         Len(cells) < dataSize
  PROVE  /\ Stored(d, w, cells) \in [Offsets -> Cells]
         /\ \A i \in 1..Len(cells) : Stored(d, w, cells)[Increment(w, i - 1)] = cells[i]
         /\ \A i \in Len(cells)..(dataSize - 1) :
               Stored(d, w, cells)[Increment(w, i)] = d[Increment(w, i)]
<1>1. \A n \in 0..(dataSize - 1) : Increment(w, n) \in Offsets /\ (Increment(w, n) - w) % dataSize = n
  <2> TAKE n \in 0..(dataSize - 1)
  <2>1. /\ Increment(w, n) = IF w + n < dataSize THEN w + n ELSE w + n - dataSize
        /\ Increment(w, n) \in Offsets
    BY Increments
  <2>2. CASE w + n < dataSize
    BY <2>1, <2>2, Wraps, RingAssumption DEF Offsets
  <2>3. CASE ~(w + n < dataSize)
    <3>1. n - dataSize \in Int /\ n - dataSize \in (-dataSize)..(-1) /\ Increment(w, n) - w = n - dataSize
      BY <2>1, <2>3, RingAssumption DEF Offsets
    <3> QED
      BY <2>1, <3>1, Wraps, RingAssumption
  <2> QED
    BY <2>2, <2>3
<1>2. \A i \in Offsets : (i - w) % dataSize \in 0..(dataSize - 1)
  BY RingAssumption DEF Offsets
<1>3. \A i \in Offsets : Stored(d, w, cells)[i] =
          IF ((i - w) % dataSize) + 1 <= Len(cells) THEN cells[((i - w) % dataSize) + 1] ELSE d[i]
  BY DEF Stored
<1>4. Stored(d, w, cells) \in [Offsets -> Cells]
  <2>1. \A i \in Offsets :
          (IF ((i - w) % dataSize) + 1 <= Len(cells) THEN cells[((i - w) % dataSize) + 1] ELSE d[i]) \in Cells
    BY <1>2, RingAssumption
  <2> QED
    BY <2>1 DEF Stored
<1>5. \A i \in 1..Len(cells) : Stored(d, w, cells)[Increment(w, i - 1)] = cells[i]
  <2> TAKE i \in 1..Len(cells)
  <2>1. i - 1 \in 0..(dataSize - 1) /\ (i - 1) + 1 = i
    BY RingAssumption
  <2> QED
    BY <1>1, <1>3, <2>1
<1>6. \A i \in Len(cells)..(dataSize - 1) :
         Stored(d, w, cells)[Increment(w, i)] = d[Increment(w, i)]
  <2> TAKE i \in Len(cells)..(dataSize - 1)
  <2>1. i \in 0..(dataSize - 1) /\ ~(i + 1 <= Len(cells))
    BY RingAssumption
  <2> QED
    BY <1>1, <1>3, <2>1
<1> QED
  BY <1>4, <1>5, <1>6

\* What is stored at the write pointer stands behind what the ring held.
LEMMA Writes ==
  ASSUME NEW d \in [Offsets -> Cells], NEW r \in Offsets, NEW w, NEW s, NEW u,
         NEW t \in Nat, NEW a \in Nat, NEW cells \in Seq(Cells), a + Len(cells) < dataSize,
         InRing(d, w, r, s, t, a),
         \A i \in 1..a : u[t + i] = s[t + i],
         \A i \in 1..Len(cells) : u[t + a + i] = cells[i]
  PROVE  InRing(Stored(d, w, cells), Increment(w, Len(cells)), r, u, t, a + Len(cells))
<1>1. a \in 0..(dataSize - 1) /\ Len(cells) \in Nat /\ w \in Offsets /\ w = Increment(r, a)
  BY Increments, RingAssumption DEF InRing
<1> DEFINE e == Stored(d, w, cells)
<1>2. Increment(w, Len(cells)) = Increment(r, a + Len(cells))
  BY <1>1, IncrementsAdd
<1>6. /\ \A i \in 1..Len(cells) : e[Increment(w, i - 1)] = cells[i]
      /\ \A i \in Len(cells)..(dataSize - 1) : e[Increment(w, i)] = d[Increment(w, i)]
  <2>1. Len(cells) < dataSize
    BY <1>1, RingAssumption
  <2> QED
    BY <1>1, <2>1, StoredCells, Zenon
<1> HIDE DEF e
<1>3. ASSUME NEW i \in 1..a PROVE e[Increment(r, i - 1)] = u[t + i]
  <2>1. PICK k \in Len(cells)..(dataSize - 1) : k = dataSize - a + (i - 1)
    BY <1>1, RingAssumption
  <2>2. Increment(w, k) = Increment(r, i - 1)
    BY <1>1, <2>1, Around
  <2>3. e[Increment(w, k)] = d[Increment(w, k)]
    BY <1>6, <2>1
  <2> QED
    BY <2>2, <2>3 DEF InRing
<1>4. ASSUME NEW i \in (a + 1)..(a + Len(cells)) PROVE e[Increment(r, i - 1)] = u[t + i]
  <2>1. PICK k \in 1..Len(cells) : i = a + k
    <3>1. i - a \in 1..Len(cells) /\ i = a + (i - a)
      BY <1>1
    <3> QED
      BY <3>1
  <2>2. Increment(r, i - 1) = Increment(w, k - 1)
    <3>1. k - 1 \in Nat /\ a + (k - 1) < dataSize /\ i - 1 = a + (k - 1)
      BY <1>1, <2>1, RingAssumption
    <3> QED
      BY <1>1, <3>1, IncrementsAdd
  <2>3. e[Increment(w, k - 1)] = cells[k]
    BY <1>6, <2>1
  <2>4. t + i = t + a + k
    BY <1>1, <2>1
  <2> QED
    BY <2>1, <2>2, <2>3, <2>4
<1>5. \A i \in 1..(a + Len(cells)) : i \in 1..a \/ i \in (a + 1)..(a + Len(cells))
  BY <1>1
<1> QED
  BY <1>2, <1>3, <1>4, <1>5 DEF InRing, e

\* What is read leaves the ring from the front.
LEMMA Reads ==
  ASSUME NEW d, NEW w, NEW r \in Offsets, NEW s, NEW t \in Nat,
         NEW a \in 0..(dataSize - 1), NEW n \in 0..a, InRing(d, w, r, s, t, a)
  PROVE  /\ InRing(d, w, Increment(r, n), s, t + n, a - n)
         /\ Increment(r, n) \in Offsets
<1>1. n \in 0..(dataSize - 1) /\ a - n \in Nat /\ n + (a - n) = a
  BY RingAssumption
<1>2. Increment(Increment(r, n), a - n) = Increment(r, a)
  <2>1. n + (a - n) < dataSize
    BY <1>1, RingAssumption
  <2> QED
    BY <1>1, <2>1, IncrementsAdd
<1>3. ASSUME NEW i \in 1..(a - n) PROVE d[Increment(Increment(r, n), i - 1)] = s[t + n + i]
  <2>1. /\ i - 1 \in Nat /\ n + (i - 1) < dataSize /\ n + (i - 1) = (n + i) - 1
        /\ n + i \in 1..a /\ t + (n + i) = t + n + i
    BY <1>1, RingAssumption
  <2>2. Increment(Increment(r, n), i - 1) = Increment(r, (n + i) - 1)
    BY <1>1, <2>1, IncrementsAdd
  <2> QED
    BY <2>1, <2>2 DEF InRing
<1> QED
  BY <1>1, <1>2, <1>3, Increments DEF InRing

-----------------------------------------------------------------------------
(* The inductive invariant.                                                *)

TypeInv ==
    /\ dispatcher \in BOOLEAN /\ notifications \subseteq Handles
    /\ data \in [Offsets -> Cells] /\ write \in Offsets /\ read \in Offsets
    /\ sem \in Nat
    /\ rpc \in {"header", "room", "chunk", "measure", "body", "notify", "ended"}
    /\ left \in Nat /\ chunk \in Nat /\ seen \in Offsets /\ torn \in BOOLEAN
    /\ dpc \in {"acquire", "samples", "skip", "callback", "cleanup", "ended"}
    /\ full \in Nat /\ samples \in Nat /\ current \in Cells
    /\ stopExecution \in BOOLEAN
    /\ upc \in {"idle", "emplace", "join", "destroyed"} /\ calls \in Nat
    /\ sent \in Seq(Messages) /\ stream \in Seq(Cells) /\ begin \in Seq(Nat)
    /\ done \in Nat
    /\ delivered \in Seq([of : Cells, cells : Seq(Cells)])

\* The stream is made of the records of the notifications.
StreamInv ==
    /\ Len(begin) = Len(sent) + 1
    /\ begin[1] = 0 /\ begin[Len(sent) + 1] = Len(stream)
    /\ \A i, m \in DOMAIN begin : i <= m => begin[i] <= begin[m]
    /\ \A m \in DOMAIN sent :
          /\ begin[m + 1] = begin[m] + Len(sent[m]) + 3
          /\ stream[begin[m] + 1] = Header("length", Len(sent[m]) + 1)
          /\ stream[begin[m] + 2] = Header("length", Len(sent[m]) + 1)
          /\ stream[begin[m] + 3] = Header("stamps", Count(sent[m]))
          /\ \A k \in DOMAIN sent[m] : stream[begin[m] + 3 + k] = CellOf(m, sent[m][k])

\* The last notification is the only one that may be incomplete; what it lacks has its place.
ReceiverInv ==
    /\ left > 0 => Len(sent) > 0 /\ left <= Len(sent[Len(sent)]) + 1
    /\ rpc \in {"chunk", "measure", "body"} => left > 0
    /\ rpc = "body" => write + Awaited <= dataSize
    /\ rpc \in {"header", "room", "notify"} => left = 0
    /\ rpc = "notify" => Len(sent) > 0

\* Between the two loads the reader only moves on, and what is awaited was free at the first.
SeenInv ==
    /\ rpc \in {"room", "measure"} => Written - Taken <= BytesAvailable(write, seen)
    /\ rpc = "measure" => left <= Free(write, seen)

\* Each notification that is whole is counted once by the semaphore, until the dispatcher begins it;
\* the destructor adds one that ends the thread.
Signalled == IF rpc = "notify" \/ left > 0 THEN Len(sent) - 1 ELSE Len(sent)
One(condition) == IF condition THEN 1 ELSE 0
CountInv ==
    /\ Begun <= Signalled
    /\ sem + Begun + One(dpc = "ended") = Signalled + One(stopExecution)
    /\ dpc = "ended" => stopExecution
    /\ stopExecution => rpc = "ended"
    /\ stopExecution <=> upc \in {"join", "destroyed"}

\* The ring holds what is written and not taken, and has room for what is awaited.
RingInv ==
    /\ Len(stream) - Taken < dataSize
    /\ InRing(data, write, read, stream, Taken, Written - Taken)

\* The dispatcher stands at a sample's header, behind one, or at the end of the notification it is at,
\* and has as many samples before it as it counts.
Message == sent[done + 1]
At == Len(Message) - full
Parsing == dpc \notin {"acquire", "ended"}
ParserInv ==
    /\ ~Parsing => full = 0
    /\ Parsing =>
          /\ full <= Len(Message)
          /\ dpc = "samples" => IF full = 0 THEN samples = 0
                                ELSE /\ IsSample(Message[At + 1])
                                     /\ samples = Count(Message) - Message[At + 1].j + 1
          /\ dpc # "samples" => /\ At >= 1 /\ IsSample(Message[At])
                                /\ current = CellOf(done + 1, Message[At])
                                /\ samples = Count(Message) - current.j + 1
    /\ dpc = "callback" => current.n = MappedSize[current.h]

\* What was delivered lies before the place where the dispatcher stands.
SampleOf(at) ==
    /\ at.m \in 1..Begun
    /\ at.n = MappedSize[at.h]
    /\ \E k \in DOMAIN sent[at.m] : IsSample(sent[at.m][k]) /\ at = CellOf(at.m, sent[at.m][k])
Later(a, b) == a.m < b.m \/ (a.m = b.m /\ a.j < b.j)
DeliveredInv ==
    /\ \A i \in DOMAIN delivered :
          /\ SampleOf(delivered[i].of)
          /\ delivered[i].cells = [k \in 1..delivered[i].of.n |-> UnitOf(delivered[i].of, k)]
          /\ Parsing /\ delivered[i].of.m = Begun => delivered[i].of.j + samples <= Count(Message)
    /\ \A i, k \in DOMAIN delivered : i < k => Later(delivered[i].of, delivered[k].of)

IInv == TypeInv /\ StreamInv /\ ReceiverInv /\ CountInv /\ RingInv /\ SeenInv /\ ParserInv /\ DeliveredInv

-----------------------------------------------------------------------------
(* What the invariant says of the pieces.                                  *)

\* A message of the device is a sequence of fields that are laid out as they say.
LEMMA MessageFacts ==
  ASSUME NEW message \in Messages
  PROVE  /\ message \in Seq(Fields) /\ Len(message) \in Nat /\ DOMAIN message = 1..Len(message)
         /\ \A k \in 1..Len(message) : message[k] \in Fields
         /\ Count(message) \in Nat
         /\ LaidOut(message)
<1>1. message \in Seq(Fields) /\ LaidOut(message)
  BY DispatcherAssumption
<1>2. /\ Len(message) \in Nat /\ DOMAIN message = 1..Len(message)
      /\ \A k \in 1..Len(message) : message[k] \in Fields
  BY <1>1
<1>3. CASE message = <<>>
  BY <1>1, <1>2, <1>3 DEF Count
<1>4. CASE message # <<>>
  <2>1. Len(message) \in 1..Len(message)
    BY <1>1, <1>4, EmptySeq
  <2>2. message[Len(message)].j \in Nat
    BY <1>2, <2>1 DEF Fields
  <2> QED
    BY <1>1, <1>2, <1>4, <2>2 DEF Count
<1> QED
  BY <1>3, <1>4

\* A field's cell is a cell, with the field's handle, number and size.
LEMMA CellsMade ==
  ASSUME NEW m \in Nat
  PROVE  /\ \A f \in Fields : CellOf(m, f) \in Cells
         /\ \A n \in Nat : Header("length", n) \in Cells /\ Header("stamps", n) \in Cells
         /\ Blank \in Cells
BY DEF CellOf, Cell, Header, Cells, Fields, Blank

\* One cell in front of a sequence moves its elements by one.
LEMMA Behind ==
  ASSUME NEW c \in Cells, NEW b \in Seq(Cells)
  PROVE  /\ <<c>> \o b \in Seq(Cells)
         /\ Len(<<c>> \o b) = Len(b) + 1
         /\ (<<c>> \o b)[1] = c
         /\ \A k \in 1..Len(b) : (<<c>> \o b)[k + 1] = b[k]
<1>1. <<c>> \in Seq(Cells) /\ Len(<<c>>) = 1 /\ <<c>>[1] = c /\ Len(b) \in Nat
  OBVIOUS
<1>2. /\ <<c>> \o b \in Seq(Cells) /\ Len(<<c>> \o b) = Len(<<c>>) + Len(b)
      /\ \A i \in 1..(Len(<<c>>) + Len(b)) :
            (<<c>> \o b)[i] = IF i <= Len(<<c>>) THEN <<c>>[i] ELSE b[i - Len(<<c>>)]
  BY <1>1, ConcatProperties
<1>3. \A k \in 1..Len(b) : k + 1 \in 1..(1 + Len(b)) /\ ~(k + 1 <= 1) /\ k + 1 - 1 = k
  BY <1>1
<1>4. 1 \in 1..(1 + Len(b))
  BY <1>1
<1> QED
  BY <1>1, <1>2, <1>3, <1>4

\* The fields of a notification in the ring.
LEMMA BodyFacts ==
  ASSUME NEW message \in Messages, NEW m \in Nat
  PROVE  /\ Body(m, message) \in Seq(Cells)
         /\ Len(Body(m, message)) = Len(message) + 1
         /\ Body(m, message)[1] = Header("stamps", Count(message))
         /\ \A k \in 1..Len(message) : Body(m, message)[k + 1] = CellOf(m, message[k])
<1> DEFINE fields == [k \in 1..Len(message) |-> CellOf(m, message[k])]
<1>1. /\ message \in Seq(Fields) /\ Len(message) \in Nat /\ DOMAIN message = 1..Len(message)
      /\ \A k \in 1..Len(message) : message[k] \in Fields
      /\ Count(message) \in Nat
  BY MessageFacts
<1>2. Header("stamps", Count(message)) \in Cells
  BY <1>1, CellsMade
<1>3. fields \in Seq(Cells) /\ Len(fields) = Len(message)
  BY <1>1, CellsMade
<1>4. Body(m, message) = <<Header("stamps", Count(message))>> \o fields
  BY <1>1 DEF Body
<1>5. \A k \in 1..Len(message) : fields[k] = CellOf(m, message[k])
  OBVIOUS
<1> HIDE DEF fields
<1> QED
  BY <1>1, <1>2, <1>3, <1>4, <1>5, Behind

\* A record is the length prefix of two cells, the header of the stamps and the cells of the fields.
LEMMA RecordFacts ==
  ASSUME NEW message \in Messages, NEW m \in Nat
  PROVE  /\ Record(m, message) \in Seq(Cells)
         /\ Len(Record(m, message)) = Len(message) + 3
         /\ Record(m, message)[1] = Header("length", Len(message) + 1)
         /\ Record(m, message)[2] = Header("length", Len(message) + 1)
         /\ Record(m, message)[3] = Header("stamps", Count(message))
         /\ \A k \in 1..Len(message) : Record(m, message)[k + 3] = CellOf(m, message[k])
<1>1. Len(message) \in Nat
  BY MessageFacts
<1>2. PICK c \in Cells : c = Header("length", Len(message) + 1)
  BY <1>1, CellsMade
<1>3. PICK body \in Seq(Cells) : body = Body(m, message)
  BY BodyFacts
<1>4. /\ Len(body) = Len(message) + 1
      /\ body[1] = Header("stamps", Count(message))
      /\ \A k \in 1..Len(message) : body[k + 1] = CellOf(m, message[k])
  BY <1>3, BodyFacts
<1>5. PICK half \in Seq(Cells) : half = <<c>> \o body
  BY Behind
<1>6. Len(half) = Len(body) + 1 /\ half[1] = c /\ \A k \in 1..Len(body) : half[k + 1] = body[k]
  BY <1>5, Behind
<1>7. PICK record \in Seq(Cells) : record = <<c>> \o half
  BY Behind
<1>8. Len(record) = Len(half) + 1 /\ record[1] = c /\ \A k \in 1..Len(half) : record[k + 1] = half[k]
  BY <1>7, Behind
<1>9. Record(m, message) = record
  <2>1. <<c>> \o (<<c>> \o body) = <<c, c>> \o body
    OBVIOUS
  <2> QED
    BY <1>2, <1>3, <1>5, <1>7, <2>1 DEF Record, Prefix
<1>10. /\ 1 \in 1..Len(half) /\ 2 \in 1..Len(half) /\ 1 \in 1..Len(body) /\ 1 + 1 = 2 /\ 2 + 1 = 3
       /\ \A k \in 1..Len(message) : /\ k + 1 \in 1..Len(body) /\ (k + 1) + 1 \in 1..Len(half)
                                     /\ ((k + 1) + 1) + 1 = k + 3
  BY <1>1, <1>4, <1>6
<1>11. record[2] = c /\ record[3] = body[1]
  BY <1>6, <1>8, <1>10
<1>12. \A k \in 1..Len(message) : record[k + 3] = body[k + 1]
  BY <1>6, <1>8, <1>10
<1>13. Len(record) = Len(message) + 3
  BY <1>1, <1>4, <1>6, <1>8
<1> QED
  BY <1>2, <1>4, <1>8, <1>9, <1>11, <1>12, <1>13

\* The notifications that were signalled, or are no longer received, are written to their end.
LEMMA Whole ==
  ASSUME TypeInv, StreamInv, ReceiverInv
  PROVE  /\ Signalled \in 0..Len(sent) /\ Written \in Nat /\ Written <= Len(stream)
         /\ \A m \in 0..Signalled : m + 1 \in DOMAIN begin /\ begin[m + 1] <= Written
<1>1. /\ Len(sent) \in Nat /\ Len(stream) \in Nat /\ left \in Nat
      /\ Len(begin) = Len(sent) + 1 /\ DOMAIN begin = 1..(Len(sent) + 1)
      /\ \A m \in 1..(Len(sent) + 1) : begin[m] \in Nat
      /\ DOMAIN sent = 1..Len(sent)
      /\ \A m \in 1..Len(sent) : sent[m] \in Messages
  BY DEF TypeInv, StreamInv
<1>2. Signalled \in 0..Len(sent)
  BY <1>1 DEF Signalled, ReceiverInv
<1>3. \A m \in 0..Signalled : m + 1 \in 1..(Len(sent) + 1)
  BY <1>1, <1>2
<1>4. CASE left = 0
  <2>1. \A m \in 1..(Len(sent) + 1) : begin[m] <= Len(stream)
    <3>1. Len(sent) + 1 \in DOMAIN begin
      BY <1>1
    <3>2. /\ begin[Len(sent) + 1] = Len(stream)
          /\ \A i, m \in DOMAIN begin : i <= m => begin[i] <= begin[m]
      BY DEF StreamInv
    <3> TAKE m \in 1..(Len(sent) + 1)
    <3>3. m \in DOMAIN begin /\ m <= Len(sent) + 1
      BY <1>1
    <3> QED
      BY <3>1, <3>2, <3>3
  <2> QED
    BY <1>1, <1>2, <1>3, <1>4, <2>1 DEF Written
<1>5. CASE left > 0
  <2>1. PICK last \in 1..Len(sent) : last = Len(sent)
    <3>1. Len(sent) \in 1..Len(sent)
      BY <1>1, <1>5 DEF ReceiverInv
    <3> QED
      BY <3>1
  <2>2. sent[last] \in Messages /\ Len(sent[last]) \in Nat
    BY <1>1, MessageFacts
  <2>3. begin[last + 1] = begin[last] + Len(sent[last]) + 3 /\ begin[last + 1] = Len(stream)
    BY <1>1, <2>1 DEF StreamInv
  <2>4. left <= Len(sent[last]) + 1
    BY <1>5, <2>1 DEF ReceiverInv
  <2>5. last \in DOMAIN begin /\ begin[last] \in Nat /\ begin[last] <= Len(stream) - left
    BY <1>1, <1>5, <2>1, <2>2, <2>3, <2>4
  <2>6. Signalled = last - 1
    BY <1>5, <2>1 DEF Signalled
  <2>7. ASSUME NEW m \in 0..Signalled PROVE begin[m + 1] <= begin[last] /\ begin[m + 1] \in Nat
    <3>1. m + 1 \in 1..(Len(sent) + 1) /\ m + 1 <= last
      BY <1>1, <1>3, <2>1, <2>6
    <3> QED
      BY <1>1, <2>5, <3>1 DEF StreamInv
  <2> QED
    BY <1>1, <1>2, <1>3, <1>5, <2>5, <2>7 DEF Written
<1> QED
  BY <1>1, <1>4, <1>5

\* Where the dispatcher stands in the stream.
LEMMA Place ==
  ASSUME IInv
  PROVE  /\ Begun \in 0..Len(sent) /\ Taken \in Nat /\ Written \in Nat
         /\ Written - Taken \in 0..(dataSize - 1)
         /\ ~Parsing => Taken = begin[done + 1] /\ Begun = done
         /\ Parsing => /\ Begun = done + 1 /\ done + 1 \in DOMAIN sent /\ Message \in Messages
                       /\ At \in 0..Len(Message)
                       /\ begin[done + 1] \in Nat
                       /\ Taken = begin[done + 1] + 3 + At
                       /\ full <= Written - Taken
<1>1. TypeInv /\ StreamInv /\ ReceiverInv /\ CountInv /\ RingInv /\ ParserInv
  BY DEF IInv
<1>2. /\ Signalled \in 0..Len(sent) /\ Written \in Nat /\ Written <= Len(stream)
      /\ \A m \in 0..Signalled : m + 1 \in DOMAIN begin /\ begin[m + 1] <= Written
  BY <1>1, Whole
<1>3. done \in Nat /\ Begun \in Nat /\ full \in Nat /\ Len(sent) \in Nat /\ Len(stream) \in Nat
  BY <1>1 DEF TypeInv, Begun
<1>4. /\ Begun \in 0..Len(sent) /\ Begun \in 0..Signalled /\ begin[Begun + 1] \in Nat
      /\ begin[Begun + 1] <= Written
  BY <1>1, <1>2, <1>3 DEF CountInv, TypeInv
<1>5. CASE ~Parsing
  <2>1. full = 0 /\ Begun = done
    BY <1>1, <1>5 DEF ParserInv, Parsing, Begun
  <2>2. Taken = begin[done + 1] /\ Taken \in Nat
    BY <1>4, <2>1 DEF Taken
  <2>3. Written - Taken \in 0..(dataSize - 1)
    BY <1>1, <1>2, <1>3, <1>4, <2>1, <2>2, RingAssumption DEF RingInv
  <2> QED
    BY <1>2, <1>4, <1>5, <2>1, <2>2, <2>3
<1>6. CASE Parsing
  <2>1. Begun = done + 1
    BY <1>6 DEF Parsing, Begun
  <2>2. done + 1 \in DOMAIN sent /\ Message \in Messages /\ Len(Message) \in Nat
    BY <1>1, <1>3, <1>4, <2>1, MessageFacts DEF TypeInv, Message
  <2>3. full <= Len(Message) /\ At \in 0..Len(Message)
    BY <1>1, <1>3, <1>6, <2>2 DEF ParserInv, At
  <2>4. begin[done + 1] \in Nat /\ begin[Begun + 1] = begin[done + 1] + Len(Message) + 3
    <3>1. begin \in Seq(Nat) /\ Len(begin) = Len(sent) + 1 /\ done + 1 \in 1..Len(begin)
      BY <1>1, <1>3, <1>4, <2>1 DEF StreamInv, TypeInv
    <3>2. begin[done + 1 + 1] = begin[done + 1] + Len(sent[done + 1]) + 3
      BY <1>1, <2>2 DEF StreamInv
    <3> QED
      BY <2>1, <3>1, <3>2 DEF Message
  <2>5. Taken = begin[done + 1] + 3 + At /\ Taken \in Nat
    BY <1>3, <2>1, <2>2, <2>3, <2>4, SMTT(20) DEF Taken, At
  <2>6. full <= Written - Taken /\ Written - Taken \in 0..(dataSize - 1)
    BY <1>1, <1>2, <1>3, <1>4, <2>5, RingAssumption, SMTT(20) DEF RingInv, Taken
  <2> QED
    BY <1>2, <1>4, <1>6, <2>1, <2>2, <2>3, <2>4, <2>5, <2>6
<1> QED
  BY <1>5, <1>6

\* What the dispatcher reads next are the fields that full says are left of its notification.
LEMMA Unread ==
  ASSUME IInv, Parsing, NEW i \in 1..full
  PROVE  /\ At + i \in DOMAIN Message
         /\ data[Increment(read, i - 1)] = CellOf(done + 1, Message[At + i])
<1>1. TypeInv /\ StreamInv /\ RingInv /\ ParserInv
  BY DEF IInv
<1>2. /\ done + 1 \in DOMAIN sent /\ Message \in Messages
      /\ At \in 0..Len(Message) /\ full <= Written - Taken /\ full \in Nat
      /\ begin[done + 1] \in Nat /\ Taken = begin[done + 1] + 3 + At /\ Taken \in Nat /\ Written \in Nat
      /\ Written - Taken \in 0..(dataSize - 1)
  BY <1>1, Place DEF TypeInv
<1>3. Len(Message) \in Nat /\ DOMAIN Message = 1..Len(Message)
  BY <1>2, MessageFacts
<1>4. At + i \in DOMAIN Message
  BY <1>1, <1>2, <1>3 DEF At
<1>5. i \in 1..(Written - Taken) /\ Taken + i = begin[done + 1] + 3 + (At + i)
  <2>1. i \in 1..(Written - Taken)
    BY <1>2
  <2>2. At \in Nat
    BY <1>2, <1>3
  <2>3. Taken + i = begin[done + 1] + 3 + (At + i)
    BY <1>2, <2>2, SMTT(20)
  <2> QED
    BY <2>1, <2>3
<1>6. data[Increment(read, i - 1)] = stream[Taken + i]
  BY <1>1, <1>5 DEF RingInv, InRing
<1>7. stream[begin[done + 1] + 3 + (At + i)] = CellOf(done + 1, Message[At + i])
  BY <1>1, <1>2, <1>4 DEF StreamInv, Message
<1> QED
  BY <1>4, <1>5, <1>6, <1>7

-----------------------------------------------------------------------------
(* The properties follow.                                                  *)

\* The ring is read off the invariant.
LEMMA InvRing == IInv => RingHoldsUnread
<1> SUFFICES ASSUME IInv PROVE RingHoldsUnread
  OBVIOUS
<1>1. TypeInv /\ RingInv
  BY DEF IInv
<1>2. /\ Taken \in Nat /\ Written \in Nat /\ Written - Taken \in 0..(dataSize - 1)
      /\ read \in Offsets /\ stream \in Seq(Cells)
  BY <1>1, Place DEF TypeInv
<1>3. BytesAvailable(write, read) = Written - Taken
  BY <1>1, <1>2, Counts DEF RingInv, InRing
<1>4. SubSeq(stream, Taken + 1, Written) = [k \in 1..(Written - Taken) |-> stream[Taken + k]]
  <2>1. SubSeq(stream, Taken + 1, Written)
          = [k \in 1..(Written - (Taken + 1) + 1) |-> stream[k + (Taken + 1) - 1]]
    BY <1>2 DEF SubSeq
  <2>2. Written - (Taken + 1) + 1 = Written - Taken
    BY <1>2
  <2>3. \A k \in 1..(Written - Taken) : k + (Taken + 1) - 1 = Taken + k
    BY <1>2
  <2> QED
    BY <2>1, <2>2, <2>3
<1>5. \A k \in 1..(Written - Taken) : data[Increment(read, k - 1)] = stream[Taken + k]
  BY <1>1 DEF RingInv, InRing
<1> QED
  BY <1>3, <1>4, <1>5 DEF RingHoldsUnread, Held

\* What is awaited ends with the stream, which fits into the ring.
LEMMA InvChunks == IInv => ChunksFit
<1> SUFFICES ASSUME IInv, rpc = "body"
             PROVE  Awaited <= Free(write, read) /\ write + Awaited <= dataSize
  BY DEF ChunksFit
<1>1. TypeInv /\ RingInv /\ ReceiverInv
  BY DEF IInv
<1>2. /\ Taken \in Nat /\ Written \in Nat /\ Written - Taken \in 0..(dataSize - 1)
      /\ read \in Offsets /\ write \in Offsets /\ Len(stream) \in Nat /\ left \in Nat /\ chunk \in Nat
  BY <1>1, Place DEF TypeInv
<1>3. Free(write, read) = dataSize - 1 - (Written - Taken)
  BY <1>1, <1>2, Counts DEF RingInv, InRing
<1>4. Awaited <= left /\ Awaited \in Nat
  BY <1>2 DEF Awaited
<1>5. Len(stream) - Taken < dataSize /\ write + Awaited <= dataSize
  BY <1>1 DEF RingInv, ReceiverInv
<1> QED
  BY <1>2, <1>3, <1>4, <1>5, RingAssumption DEF Written, Offsets

\* The deliveries are a part of the invariant.
LEMMA InvDelivered == IInv => DeliveredAsSent
<1> SUFFICES ASSUME IInv PROVE DeliveredAsSent
  OBVIOUS
<1>1. TypeInv /\ DeliveredInv /\ Begun \in 0..Len(sent)
  BY Place DEF IInv
<1>2. DOMAIN sent = 1..Len(sent) /\ Len(sent) \in Nat
  BY <1>1 DEF TypeInv
<1>3. \A m \in 1..Begun : m \in DOMAIN sent
  BY <1>1, <1>2
<1> QED
  BY <1>1, <1>3 DEF DeliveredInv, SampleOf, Later, DeliveredAsSent

-----------------------------------------------------------------------------
(* The invariant holds at first.                                           *)

\* At first the ring and the histories are empty.
LEMMA InitInv == Init => IInv
<1> SUFFICES ASSUME Init PROVE IInv
  OBVIOUS
<1> USE DEF Init
<1>1. TypeInv
  <2>1. data \in [Offsets -> Cells] /\ NoSample \in Cells
    BY CellsMade DEF NoSample
  <2>2. 0 \in Offsets
    BY RingAssumption DEF Offsets
  <2>3. /\ sent \in Seq(Messages) /\ stream \in Seq(Cells) /\ begin \in Seq(Nat)
        /\ delivered \in Seq([of : Cells, cells : Seq(Cells)])
    OBVIOUS
  <2> QED
    BY <2>1, <2>2, <2>3 DEF TypeInv
<1>2. StreamInv
  BY DEF StreamInv
<1>3. ReceiverInv
  BY DEF ReceiverInv
<1>4. Begun = 0 /\ Taken = 0 /\ Written = 0
  BY DEF Begun, Taken, Written
<1>5. CountInv /\ SeenInv
  BY <1>4 DEF CountInv, Signalled, One, SeenInv
<1>6. RingInv
  <2>1. Increment(0, 0) = 0
    BY Increments, RingAssumption DEF Offsets
  <2> QED
    BY <1>4, <2>1, RingAssumption DEF RingInv, InRing
<1>7. ParserInv /\ DeliveredInv
  BY DEF ParserInv, DeliveredInv, Parsing
<1> QED
  BY <1>1, <1>2, <1>3, <1>5, <1>6, <1>7 DEF IInv

-----------------------------------------------------------------------------
(* Steps that leave the ring and the dispatcher's thread alone.            *)

\* They keep all parts of the invariant but those about what they change.
LEMMA Quiet ==
  ASSUME IInv, UNCHANGED <<ring, left, thread, history, done, delivered>>
  PROVE  /\ StreamInv' /\ RingInv' /\ ParserInv' /\ DeliveredInv'
         /\ Begun' = Begun
<1> USE DEF ring, thread, history
<1>1. StreamInv'
  BY DEF IInv, StreamInv
<1>2. Begun' = Begun /\ Taken' = Taken /\ Written' = Written
  BY DEF Begun, Taken, Written
<1>3. RingInv'
  BY <1>2 DEF IInv, RingInv, InRing
<1>4. ParserInv'
  BY DEF IInv, ParserInv, Parsing, Message, At
<1>5. DeliveredInv'
  BY <1>2 DEF IInv, DeliveredInv, SampleOf, Parsing, Message
<1> QED
  BY <1>1, <1>2, <1>3, <1>4, <1>5

\* A receiver that stands still has loaded what it has loaded.
LEMMA SeenKept ==
  ASSUME IInv, UNCHANGED <<ring, receiver, thread, history, done>>
  PROVE  SeenInv'
<1>1. Taken' = Taken /\ Written' = Written /\ UNCHANGED <<rpc, write, seen, left>>
  BY DEF ring, receiver, thread, history, Taken, Written, Begun
<1> QED
  BY <1>1 DEF IInv, SeenInv

\* The receiver ends without writing.
LEMMA RefuseStep ==
  ASSUME IInv, RefuseNotification
  PROVE  IInv'
<1>1. StreamInv' /\ RingInv' /\ ParserInv' /\ DeliveredInv' /\ Begun' = Begun
  BY Quiet DEF RefuseNotification
<1>2. TypeInv'
  <2>1. 0 \in Offsets
    BY RingAssumption DEF Offsets
  <2> QED
    BY <2>1 DEF IInv, TypeInv, RefuseNotification, ring, thread, user, history
<1>3. ReceiverInv' /\ SeenInv'
  BY DEF IInv, ReceiverInv, SeenInv, RefuseNotification, ring, history
<1>4. CountInv'
  <2>1. rpc \in {"header", "room"}
    BY DEF RefuseNotification, Refused
  <2> QED
    BY <1>1, <2>1 DEF IInv, CountInv, Signalled, RefuseNotification, history, thread, user
<1> QED
  BY <1>1, <1>2, <1>3, <1>4 DEF IInv

\* The receiver ends; what is left of a body stays unsignalled.
LEMMA FailsStep ==
  ASSUME IInv, ReceiveFails
  PROVE  IInv'
<1>1. StreamInv' /\ RingInv' /\ ParserInv' /\ DeliveredInv' /\ Begun' = Begun
  BY Quiet DEF ReceiveFails
<1>2. TypeInv'
  BY DEF IInv, TypeInv, ReceiveFails, ring, thread, user, history
<1>3. ReceiverInv' /\ SeenInv'
  BY DEF IInv, ReceiverInv, SeenInv, ReceiveFails, ring, history
<1>4. CountInv'
  BY <1>1 DEF IInv, CountInv, Signalled, ReceiveFails, history, thread, user
<1> QED
  BY <1>1, <1>2, <1>3, <1>4 DEF IInv

\* The semaphore counts the notification that has just become whole.
LEMMA NotifyStep ==
  ASSUME IInv, Notify
  PROVE  IInv'
<1>1. StreamInv' /\ RingInv' /\ ParserInv' /\ DeliveredInv' /\ Begun' = Begun
  BY Quiet DEF Notify
<1>2. TypeInv'
  BY DEF IInv, TypeInv, Notify, Released, ring, thread, user, history
<1>3. ReceiverInv' /\ SeenInv'
  BY DEF IInv, ReceiverInv, SeenInv, Notify, ring, history
<1>4. CountInv'
  <2>1. left = 0 /\ Signalled = Len(sent) - 1 /\ Signalled' = Len(sent) /\ Len(sent) \in Nat
    BY DEF IInv, TypeInv, ReceiverInv, Notify, Signalled, history
  <2>2. Begun \in Int /\ sem \in Nat
    BY DEF IInv, TypeInv, Begun
  <2> QED
    BY <1>1, <2>1, <2>2 DEF IInv, CountInv, Notify, Released, One, thread, user
<1> QED
  BY <1>1, <1>2, <1>3, <1>4 DEF IInv

\* The dispatcher is made while it stands at its first count.
LEMMA ListAddStep ==
  ASSUME IInv, DispatcherListAdd
  PROVE  IInv'
<1>1. StreamInv' /\ RingInv' /\ ParserInv' /\ DeliveredInv' /\ Begun' = Begun
  BY Quiet DEF DispatcherListAdd, receiver
<1>2. TypeInv'
  BY DispatcherAssumption DEF IInv, TypeInv, DispatcherListAdd, ring, receiver, thread, history
<1>3. ReceiverInv' /\ SeenInv'
  BY <1>1, SeenKept DEF IInv, ReceiverInv, Awaited, DispatcherListAdd, ring, receiver, history
<1>4. CountInv'
  BY <1>1 DEF IInv, CountInv, Signalled, DispatcherListAdd, history, thread, receiver
<1> QED
  BY <1>1, <1>2, <1>3, <1>4 DEF IInv

\* Only the handles change.
LEMMA EmplaceStep ==
  ASSUME IInv, NEW h \in Handles, Emplace(h)
  PROVE  IInv'
<1>1. StreamInv' /\ RingInv' /\ ParserInv' /\ DeliveredInv' /\ Begun' = Begun
  BY Quiet DEF Emplace, receiver
<1>2. TypeInv'
  BY DEF IInv, TypeInv, Emplace, ring, receiver, thread, history
<1>3. ReceiverInv' /\ SeenInv'
  BY <1>1, SeenKept DEF IInv, ReceiverInv, Awaited, Emplace, ring, receiver, history
<1>4. CountInv'
  BY <1>1 DEF IInv, CountInv, Signalled, Emplace, history, thread, receiver
<1> QED
  BY <1>1, <1>2, <1>3, <1>4 DEF IInv

\* Only the handles change, also between a lookup and its callback.
LEMMA EraseStep ==
  ASSUME IInv, NEW h \in Handles, Erase(h)
  PROVE  IInv'
<1>1. StreamInv' /\ RingInv' /\ ParserInv' /\ DeliveredInv' /\ Begun' = Begun
  BY Quiet DEF Erase, receiver
<1>2. TypeInv'
  BY DEF IInv, TypeInv, Erase, ring, receiver, thread, history
<1>3. ReceiverInv' /\ SeenInv'
  BY <1>1, SeenKept DEF IInv, ReceiverInv, Awaited, Erase, ring, receiver, history
<1>4. CountInv'
  BY <1>1 DEF IInv, CountInv, Signalled, Erase, history, thread, receiver
<1> QED
  BY <1>1, <1>2, <1>3, <1>4 DEF IInv

\* The destructor adds the count that ends the thread.
LEMMA DestroyStep ==
  ASSUME IInv, Destroy
  PROVE  IInv'
<1>1. StreamInv' /\ RingInv' /\ ParserInv' /\ DeliveredInv' /\ Begun' = Begun
  BY Quiet DEF Destroy, receiver
<1>2. TypeInv'
  BY DEF IInv, TypeInv, Destroy, Woken, Released, ring, receiver, thread, history
<1>3. ReceiverInv' /\ SeenInv'
  BY <1>1, SeenKept DEF IInv, ReceiverInv, Awaited, Destroy, ring, receiver, history
<1>4. CountInv'
  <2>1. ~stopExecution /\ dpc # "ended"
    BY DEF IInv, CountInv, Destroy
  <2>2. Signalled' = Signalled /\ Begun \in Int /\ sem \in Nat /\ Signalled \in Int
    BY DEF IInv, TypeInv, Destroy, Signalled, Begun, receiver, history
  <2> QED
    BY <1>1, <2>1, <2>2 DEF IInv, CountInv, Destroy, Woken, Released, One, thread, receiver
<1> QED
  BY <1>1, <1>2, <1>3, <1>4 DEF IInv

\* Only the user's thread moves.
LEMMA JoinStep ==
  ASSUME IInv, Join
  PROVE  IInv'
<1>1. StreamInv' /\ RingInv' /\ ParserInv' /\ DeliveredInv' /\ Begun' = Begun
  BY Quiet DEF Join, receiver
<1>2. TypeInv'
  BY DEF IInv, TypeInv, Join, ring, receiver, thread, history
<1>3. ReceiverInv' /\ SeenInv'
  BY <1>1, SeenKept DEF IInv, ReceiverInv, Awaited, Join, ring, receiver, history
<1>4. CountInv'
  BY <1>1 DEF IInv, CountInv, Signalled, Join, history, thread, receiver
<1> QED
  BY <1>1, <1>2, <1>3, <1>4 DEF IInv

\* Nothing changes.
LEMMA StutterStep ==
  ASSUME IInv, UNCHANGED vars
  PROVE  IInv'
<1> USE DEF vars, ring, receiver, thread, user, history
<1>1. StreamInv' /\ RingInv' /\ ParserInv' /\ DeliveredInv' /\ Begun' = Begun
  BY Quiet
<1>2. TypeInv' /\ ReceiverInv' /\ SeenInv'
  BY SeenKept DEF IInv, TypeInv, ReceiverInv, Awaited
<1>3. CountInv'
  BY <1>1 DEF IInv, CountInv, Signalled
<1> QED
  BY <1>1, <1>2, <1>3 DEF IInv

-----------------------------------------------------------------------------
(* Steps of the dispatcher's thread.                                       *)

\* What was loaded of read stays behind it while the reader moves on.
LEMMA ReadsOn ==
  ASSUME IInv, UNCHANGED <<write, receiver>>, Written' = Written, NEW n \in Nat, Taken' = Taken + n
  PROVE  SeenInv'
<1>1. UNCHANGED <<rpc, write, seen, left>>
  BY DEF receiver
<1>2. Taken \in Nat /\ Written \in Nat
  BY Place
<1>3. CASE rpc \in {"room", "measure"}
  <2>1. PICK b \in Int : b = BytesAvailable(write, seen)
    BY FreeIsInt DEF IInv, TypeInv
  <2>2. Written - Taken <= b
    BY <1>3, <2>1 DEF IInv, SeenInv
  <2>3. Written - (Taken + n) <= b
    BY <1>2, <2>2
  <2> QED
    BY <1>1, <2>1, <2>3 DEF IInv, SeenInv
<1>4. CASE rpc \notin {"room", "measure"}
  BY <1>1, <1>4 DEF SeenInv
<1> QED
  BY <1>3, <1>4

\* It takes n of the fields that full says are left of the notification it is at.
LEMMA Takes ==
  ASSUME IInv, Parsing, NEW n \in 0..full, read' = Increment(read, n),
         full' = full - n, Begun' = Begun, dpc' # "ended",
         UNCHANGED <<data, write, sem, receiver, stopExecution, user, history>>
  PROVE  /\ StreamInv' /\ ReceiverInv' /\ CountInv' /\ RingInv' /\ SeenInv'
         /\ read' \in Offsets /\ full' \in Nat
<1> USE DEF receiver, user, history
<1>1. TypeInv /\ RingInv /\ full \in Nat
  BY DEF IInv, TypeInv
<1>2. /\ Taken \in Nat /\ Written \in Nat /\ Written - Taken \in 0..(dataSize - 1)
      /\ full <= Written - Taken /\ n \in 0..(Written - Taken)
      /\ read \in Offsets
  <2>1. /\ Taken \in Nat /\ Written \in Nat /\ Written - Taken \in 0..(dataSize - 1)
        /\ full <= Written - Taken
    BY Place
  <2> QED
    BY <1>1, <2>1 DEF TypeInv
<1>4. Taken' = Taken + n /\ Written' = Written /\ Len(stream) \in Nat
  <2>1. Begun \in 0..Len(sent) /\ begin \in Seq(Nat) /\ Len(begin) = Len(sent) + 1
    BY Place DEF IInv, TypeInv, StreamInv
  <2>2. begin[Begun + 1] \in Nat
    BY <2>1
  <2> QED
    BY <1>1, <2>2 DEF Taken, Written, TypeInv
<1>5. RingInv' /\ read' \in Offsets
  <2>1. /\ InRing(data, write, Increment(read, n), stream, Taken + n, (Written - Taken) - n)
        /\ Increment(read, n) \in Offsets
    BY <1>1, <1>2, Reads DEF RingInv
  <2>2. (Written - Taken) - n = Written' - Taken' /\ Len(stream) - (Taken + n) < dataSize
    BY <1>1, <1>2, <1>4, RingAssumption DEF RingInv
  <2> QED
    BY <1>4, <2>1, <2>2 DEF RingInv, InRing
<1>6. StreamInv' /\ ReceiverInv'
  BY DEF IInv, StreamInv, ReceiverInv, Awaited
<1>8. SeenInv'
  BY <1>2, <1>4, ReadsOn
<1>7. CountInv'
  <2>1. dpc # "ended"
    BY DEF Parsing
  <2>2. One(dpc = "ended")' = One(dpc = "ended") /\ Signalled' = Signalled
    BY <2>1 DEF One, Signalled
  <2> QED
    BY <2>1, <2>2 DEF IInv, CountInv, One
<1> QED
  BY <1>1, <1>2, <1>5, <1>6, <1>7, <1>8

\* The header of the next sample.
LEMMA NextSample ==
  ASSUME IInv, dpc = "samples", samples > 0
  PROVE  /\ full > 0 /\ At + 1 \in DOMAIN Message /\ IsSample(Message[At + 1])
         /\ data[read] = CellOf(done + 1, Message[At + 1])
         /\ data[read] \in Cells /\ data[read].n \in Nat /\ data[read].j \in Nat
         /\ samples = Count(Message) - data[read].j + 1
         /\ Message \in Messages /\ Len(Message) \in Nat /\ At \in 0..Len(Message)
<1>1. Parsing /\ full \in Nat /\ done \in Nat
  BY DEF Parsing, IInv, TypeInv
<1>2. /\ full > 0 /\ IsSample(Message[At + 1])
      /\ samples = Count(Message) - Message[At + 1].j + 1
  BY <1>1 DEF IInv, ParserInv
<1>3. 1 \in 1..full /\ 1 - 1 = 0
  BY <1>1, <1>2
<1>4. At + 1 \in DOMAIN Message /\ data[Increment(read, 0)] = CellOf(done + 1, Message[At + 1])
  BY <1>1, <1>3, Unread
<1>5. read \in Offsets /\ Increment(read, 0) = read
  BY Increments, RingAssumption DEF IInv, TypeInv, Offsets
<1>6. Message \in Messages /\ At \in 0..Len(Message)
  BY <1>1, Place
<1>7. Message[At + 1] \in Fields /\ Len(Message) \in Nat
  BY <1>4, <1>6, MessageFacts
<1> QED
  BY <1>1, <1>2, <1>4, <1>5, <1>6, <1>7, CellsMade, SMTT(20) DEF CellOf, Cell, Fields

\* The lookup takes the header of the next sample, whatever it finds.
LEMMA FindSampleStep ==
  ASSUME IInv, FindSample
  PROVE  IInv'
<1>1. /\ dpc = "samples" /\ samples > 0 /\ Parsing
      /\ current' = data[read] /\ read' = Increment(read, 1) /\ full' = full - 1
      /\ dpc' \in {"skip", "cleanup", "callback"} /\ Parsing'
      /\ dpc' = "callback" => ~WrongSize(data[read].h, data[read].n)
      /\ UNCHANGED <<dispatcher, notifications, data, write, sem, receiver, samples, stopExecution, user, history, done, delivered>>
  BY DEF FindSample, Parsing
<1>2. /\ full > 0 /\ At + 1 \in DOMAIN Message /\ IsSample(Message[At + 1])
      /\ data[read] = CellOf(done + 1, Message[At + 1])
      /\ data[read] \in Cells /\ data[read].n \in Nat /\ data[read].j \in Nat
      /\ samples = Count(Message) - data[read].j + 1
      /\ Message \in Messages /\ Len(Message) \in Nat /\ At \in 0..Len(Message)
  BY <1>1, NextSample
<1>3. Begun' = Begun /\ Begun = done + 1 /\ done \in Nat /\ full \in Nat
  BY <1>1 DEF Begun, IInv, TypeInv
<1>4. 1 \in 0..full
  BY <1>2, <1>3
<1>5. StreamInv' /\ ReceiverInv' /\ CountInv' /\ RingInv' /\ SeenInv' /\ read' \in Offsets /\ full' \in Nat
  <2>1. dpc' # "ended"
    BY <1>1
  <2> QED
    BY <1>1, <1>3, <1>4, <2>1, Takes
<1>6. TypeInv'
  BY <1>1, <1>2, <1>5 DEF IInv, TypeInv, receiver, user, history
<1>7. Message' = Message /\ At' = At + 1
  BY <1>1, <1>2, <1>3 DEF Message, At, history
<1>8. ParserInv'
  <2>1. full' <= Len(Message') /\ At' >= 1
    BY <1>1, <1>2, <1>3, <1>7 DEF At
  <2>2. current' = CellOf(done' + 1, Message'[At']) /\ IsSample(Message'[At'])
    BY <1>1, <1>2, <1>7
  <2>3. samples' = Count(Message') - current'.j + 1
    BY <1>1, <1>2, <1>7
  <2>4. dpc' = "callback" => current'.n = MappedSize[current'.h]
    BY <1>1 DEF WrongSize
  <2> QED
    BY <1>1, <2>1, <2>2, <2>3, <2>4 DEF ParserInv
<1>9. DeliveredInv'
  BY <1>1, <1>3, <1>7 DEF IInv, DeliveredInv, SampleOf, history
<1> QED
  BY <1>5, <1>6, <1>8, <1>9 DEF IInv

\* Behind the data of the sample stands the next one's header, or nothing more.
LEMMA AfterSample ==
  ASSUME IInv, dpc \in {"skip", "callback"}
  PROVE  /\ Message \in Messages /\ Len(Message) \in Nat /\ At \in 1..Len(Message)
         /\ done + 1 \in DOMAIN sent
         /\ IsSample(Message[At]) /\ current = CellOf(done + 1, Message[At])
         /\ current.n \in 0..full /\ current.n \in Nat /\ current.j \in Nat
         /\ \A i \in 1..current.n : Message[At + i] = DataOf(Message[At], i)
         /\ samples = Count(Message) - current.j + 1 /\ samples - 1 \in Nat
         /\ IF full - current.n = 0 THEN samples - 1 = 0
            ELSE /\ IsSample(Message[At + current.n + 1])
                 /\ Message[At + current.n + 1].j = current.j + 1
<1>1. Parsing /\ full \in Nat /\ done \in Nat
  BY DEF Parsing, IInv, TypeInv
<1>2. Message \in Messages /\ At \in 0..Len(Message) /\ done + 1 \in DOMAIN sent
  BY <1>1, Place
<1>3. /\ Len(Message) \in Nat /\ DOMAIN Message = 1..Len(Message) /\ LaidOut(Message)
      /\ Count(Message) \in Nat
      /\ \A k \in 1..Len(Message) : Message[k] \in Fields
  BY <1>2, MessageFacts
<1>4. /\ At >= 1 /\ IsSample(Message[At])
      /\ current = CellOf(done + 1, Message[At])
      /\ samples = Count(Message) - current.j + 1
  BY <1>1 DEF IInv, ParserInv
<1>5. PICK k \in 1..Len(Message) : k = At
  BY <1>2, <1>3, <1>4
<1>6. current.n = Message[k].n /\ current.j = Message[k].j /\ current.n \in Nat /\ current.j \in Nat
  BY <1>3, <1>4, <1>5 DEF CellOf, Cell, Fields
<1>7. /\ current.j <= Count(Message)
      /\ k + current.n <= Len(Message)
      /\ \A i \in 1..current.n : Message[k + i] = DataOf(Message[k], i)
      /\ k + current.n < Len(Message) =>
            IsSample(Message[k + current.n + 1]) /\ Message[k + current.n + 1].j = current.j + 1
  BY <1>3, <1>4, <1>5, <1>6 DEF LaidOut
<1>8. full = Len(Message) - k
  BY <1>1, <1>3, <1>5 DEF At
<1>9. ASSUME full - current.n = 0 PROVE samples - 1 = 0
  <2>1. k + current.n = Len(Message)
    BY <1>1, <1>3, <1>6, <1>8, <1>9
  <2>2. Message[Len(Message)].j = current.j
    <3>1. CASE current.n = 0
      BY <1>3, <1>6, <2>1, <3>1
    <3>2. CASE current.n # 0
      <4>1. current.n \in 1..current.n
        BY <1>6, <3>2
      <4>2. Message[Len(Message)] = DataOf(Message[k], current.n)
        BY <1>7, <2>1, <4>1
      <4> QED
        BY <1>3, <1>6, <4>2 DEF DataOf
    <3> QED
      BY <3>1, <3>2
  <2>3. Count(Message) = current.j
    <3>1. Message # <<>>
      BY <1>3, <1>5
    <3> QED
      BY <2>2, <3>1 DEF Count
  <2> QED
    BY <1>4, <1>6, <2>3
<1>10. current.n \in 0..full /\ samples - 1 \in Nat
  BY <1>1, <1>3, <1>4, <1>6, <1>7, <1>8
<1>11. full - current.n # 0 => k + current.n < Len(Message)
  BY <1>1, <1>3, <1>6, <1>8, <1>10
<1> QED
  BY <1>2, <1>3, <1>4, <1>5, <1>6, <1>7, <1>9, <1>10, <1>11

\* The common part of CallBack and SkipSample.
LEMMA SampleStep ==
  ASSUME IInv, dpc \in {"skip", "callback"}, SampleEnds(current.n)
  PROVE  /\ StreamInv' /\ ReceiverInv' /\ CountInv' /\ RingInv' /\ SeenInv' /\ ParserInv'
         /\ read' \in Offsets /\ full' \in Nat /\ samples' \in Nat /\ current' \in Cells
         /\ Parsing' /\ Begun' = Begun /\ Message' = Message
<1>1. /\ Parsing /\ Parsing' /\ dpc' = "samples"
      /\ read' = Increment(read, current.n) /\ full' = full - current.n /\ samples' = samples - 1
      /\ current' = NoSample
      /\ UNCHANGED <<dispatcher, notifications, data, write, sem, receiver, stopExecution, user, history, done>>
  BY DEF SampleEnds, Parsing
<1>2. /\ Message \in Messages /\ Len(Message) \in Nat /\ At \in 1..Len(Message)
      /\ current.n \in 0..full /\ current.n \in Nat /\ current.j \in Nat
      /\ samples = Count(Message) - current.j + 1 /\ samples - 1 \in Nat
      /\ IF full - current.n = 0 THEN samples - 1 = 0
         ELSE /\ IsSample(Message[At + current.n + 1])
              /\ Message[At + current.n + 1].j = current.j + 1
  BY AfterSample
<1>3. Begun' = Begun /\ full \in Nat /\ Count(Message) \in Nat
  BY <1>1, <1>2, MessageFacts DEF Begun, Parsing, IInv, TypeInv
<1>4. StreamInv' /\ ReceiverInv' /\ CountInv' /\ RingInv' /\ SeenInv' /\ read' \in Offsets /\ full' \in Nat
  <2>1. dpc' # "ended"
    BY <1>1
  <2> QED
    BY <1>1, <1>2, <1>3, <2>1, Takes
<1>5. Message' = Message /\ At' = At + current.n
  <2>1. Message' = Message
    BY <1>1 DEF Message, history
  <2>2. Len(Message) - (full - current.n) = Len(Message) - full + current.n
    BY <1>2, <1>3
  <2> QED
    BY <1>1, <2>1, <2>2 DEF At
<1>6. ParserInv'
  <2>1. full <= Len(Message)
    BY <1>1 DEF IInv, ParserInv
  <2>4. full' <= Len(Message')
    BY <1>1, <1>2, <1>3, <1>5, <2>1
  <2>2. CASE full' = 0
    BY <1>1, <1>2, <2>2, <2>4 DEF ParserInv
  <2>3. CASE full' # 0
    <3>1. /\ IsSample(Message'[At' + 1])
          /\ samples' = Count(Message') - Message'[At' + 1].j + 1
      <4>1. full - current.n # 0
        BY <1>1, <2>3
      <4>2. /\ IsSample(Message[At + current.n + 1])
            /\ Message[At + current.n + 1].j = current.j + 1
        BY <1>2, <4>1
      <4>3. samples - 1 = Count(Message) - (current.j + 1) + 1
        BY <1>2, <1>3
      <4> QED
        BY <1>1, <1>5, <4>2, <4>3
    <3> QED
      BY <1>1, <2>3, <2>4, <3>1 DEF ParserInv
  <2> QED
    BY <2>2, <2>3
<1>7. current' \in Cells
  BY <1>1, CellsMade DEF NoSample
<1> QED
  BY <1>1, <1>2, <1>3, <1>4, <1>5, <1>6, <1>7

\* The elements of a sequence.
LEMMA Elements ==
  ASSUME NEW S, NEW q \in Seq(S)
  PROVE  Len(q) \in Nat /\ DOMAIN q = 1..Len(q) /\ \A i \in DOMAIN q : q[i] \in S
OBVIOUS

\* A callback adds a delivery of the right type.
LEMMA DeliveredType ==
  ASSUME TypeInv
  PROVE  /\ Len(delivered) \in Nat /\ DOMAIN delivered = 1..Len(delivered)
         /\ \A i \in DOMAIN delivered : /\ delivered[i] \in [of : Cells, cells : Seq(Cells)]
                                       /\ delivered[i].of \in Cells
                                       /\ delivered[i].of.m \in Nat /\ delivered[i].of.j \in Nat
<1>1. delivered \in Seq([of : Cells, cells : Seq(Cells)])
  BY DEF TypeInv
<1>2. /\ Len(delivered) \in Nat /\ DOMAIN delivered = 1..Len(delivered)
      /\ \A i \in DOMAIN delivered : delivered[i] \in [of : Cells, cells : Seq(Cells)]
  BY <1>1, Elements
<1>3. \A i \in DOMAIN delivered : delivered[i].of \in Cells
  BY <1>2
<1>4. \A c \in Cells : c.m \in Nat /\ c.j \in Nat
  BY DEF Cells
<1> QED
  BY <1>2, <1>3, <1>4

\* A unit of data is in its cell what it is in the message.
LEMMA DataCells ==
  ASSUME NEW f \in Fields, NEW m \in Nat, NEW k \in Nat
  PROVE  /\ CellOf(m, DataOf(f, k)) = UnitOf(CellOf(m, f), k)
         /\ UnitOf(CellOf(m, f), k) \in Cells
BY DEF DataOf, CellOf, UnitOf, Cell, Cells, Fields

\* A sample of an unknown handle is read away.
LEMMA SkipStep ==
  ASSUME IInv, SkipSample
  PROVE  IInv'
<1>1. dpc \in {"skip", "callback"} /\ SampleEnds(current.n) /\ Parsing /\ delivered' = delivered
  BY DEF SkipSample, Parsing
<1>2. /\ StreamInv' /\ ReceiverInv' /\ CountInv' /\ RingInv' /\ SeenInv' /\ ParserInv'
      /\ read' \in Offsets /\ full' \in Nat /\ samples' \in Nat /\ current' \in Cells
      /\ Parsing' /\ Begun' = Begun /\ Message' = Message
  BY <1>1, SampleStep
<1>3. TypeInv'
  BY <1>1, <1>2 DEF IInv, TypeInv, SampleEnds, receiver, user, history
<1>4. DeliveredInv'
  <2>1. samples' <= samples /\ samples \in Nat /\ samples' = samples - 1
    BY <1>1, <1>2 DEF IInv, TypeInv, SampleEnds
  <2>2. Count(Message) \in Nat
    BY <1>1, AfterSample, MessageFacts
  <2>3. \A i \in DOMAIN delivered : delivered[i].of.j \in Nat
    BY DeliveredType DEF IInv
  <2>4. \A i \in DOMAIN delivered :
           Parsing /\ delivered[i].of.m = Begun => delivered[i].of.j + samples <= Count(Message)
    BY DEF IInv, DeliveredInv
  <2>5. \A i \in DOMAIN delivered :
           delivered[i].of.m = Begun => delivered[i].of.j + samples' <= Count(Message)
    BY <1>1, <2>1, <2>2, <2>3, <2>4
  <2>6. \A at : SampleOf(at) => SampleOf(at)'
    BY <1>1, <1>2 DEF SampleOf, SampleEnds, history
  <2> QED
    BY <1>1, <1>2, <2>5, <2>6 DEF IInv, DeliveredInv
<1> QED
  BY <1>2, <1>3, <1>4 DEF IInv

\* What the callback is given is the sample's data, and no sample was given before that stands behind it.
LEMMA CallBackStep ==
  ASSUME IInv, CallBack
  PROVE  IInv'
<1>1. /\ dpc = "callback" /\ dpc \in {"skip", "callback"} /\ Parsing
      /\ current.n = MappedSize[current.h] /\ SampleEnds(current.n)
      /\ delivered' = Append(delivered, [of |-> current, cells |-> Held(data, read, current.n)])
  BY DEF CallBack, IInv, ParserInv, Parsing
<1>2. /\ StreamInv' /\ ReceiverInv' /\ CountInv' /\ RingInv' /\ SeenInv' /\ ParserInv'
      /\ read' \in Offsets /\ full' \in Nat /\ samples' \in Nat /\ current' \in Cells
      /\ Parsing' /\ Begun' = Begun /\ Message' = Message
  BY <1>1, SampleStep
<1>3. PICK c \in Cells : c = current
  BY DEF IInv, TypeInv
<1>4. /\ Message \in Messages /\ Len(Message) \in Nat /\ At \in 1..Len(Message)
      /\ IsSample(Message[At]) /\ c = CellOf(done + 1, Message[At])
      /\ c.n \in 0..full /\ c.n \in Nat /\ c.j \in Nat /\ c.n = MappedSize[c.h]
      /\ \A i \in 1..c.n : Message[At + i] = DataOf(Message[At], i)
      /\ samples = Count(Message) - c.j + 1
  BY <1>1, <1>3, AfterSample
<1>5. /\ Begun = done + 1 /\ done \in Nat /\ full \in Nat /\ c.m = done + 1
      /\ Message[At] \in Fields /\ At \in DOMAIN Message /\ Count(Message) \in Nat
  BY <1>1, <1>4, MessageFacts DEF Begun, IInv, TypeInv, CellOf, Cell
<1>6. PICK cells \in Seq(Cells) : /\ cells = Held(data, read, c.n)
                                 /\ cells = [k \in 1..c.n |-> UnitOf(c, k)]
  <2>1. ASSUME NEW k \in 1..c.n
        PROVE  data[Increment(read, k - 1)] = UnitOf(c, k) /\ UnitOf(c, k) \in Cells
    <3>1. k \in 1..full /\ k \in Nat /\ done + 1 \in Nat
      BY <1>4, <1>5
    <3>2. data[Increment(read, k - 1)] = CellOf(done + 1, Message[At + k])
      BY <1>1, <3>1, Unread
    <3>3. data[Increment(read, k - 1)] = CellOf(done + 1, DataOf(Message[At], k))
      BY <1>4, <3>2
    <3> QED
      BY <1>4, <1>5, <3>1, <3>3, DataCells
  <2>2. Held(data, read, c.n) = [k \in 1..c.n |-> UnitOf(c, k)]
    BY <2>1 DEF Held
  <2>3. [k \in 1..c.n |-> UnitOf(c, k)] \in Seq(Cells)
    <3>1. PICK n \in Nat : n = c.n
      BY <1>4
    <3>2. \A k \in 1..n : UnitOf(c, k) \in Cells
      BY <2>1, <3>1
    <3>3. [k \in 1..n |-> UnitOf(c, k)] \in [1..n -> Cells]
      BY <3>2
    <3> QED
      BY <3>1, <3>3
  <2> QED
    BY <2>2, <2>3
<1>7. PICK new \in [of : Cells, cells : Seq(Cells)] : new = [of |-> c, cells |-> cells]
  BY <1>3, <1>6
<1>8. delivered' = Append(delivered, new)
  BY <1>1, <1>3, <1>6, <1>7
<1>9. TypeInv'
  <2>1. delivered' \in Seq([of : Cells, cells : Seq(Cells)])
    BY <1>7, <1>8 DEF IInv, TypeInv
  <2> QED
    BY <1>1, <1>2, <2>1 DEF IInv, TypeInv, SampleEnds, receiver, user, history
<1>10. /\ Len(delivered) \in Nat /\ DOMAIN delivered = 1..Len(delivered)
       /\ DOMAIN delivered' = 1..(Len(delivered) + 1)
       /\ delivered'[Len(delivered) + 1] = new
       /\ \A i \in 1..Len(delivered) : delivered'[i] = delivered[i]
  BY <1>7, <1>8 DEF IInv, TypeInv
<1>11. samples' = samples - 1 /\ sent' = sent /\ samples \in Nat
  BY <1>1 DEF SampleEnds, history, IInv, TypeInv
<1>12. samples = Count(Message) - c.j + 1 /\ c.j \in Nat /\ Count(Message) \in Nat
  BY <1>4, <1>5
<1> DEFINE Good(d) == /\ SampleOf(d.of)
                      /\ d.cells = [k \in 1..d.of.n |-> UnitOf(d.of, k)]
                      /\ (d.of.m = Begun => d.of.j + samples' <= Count(Message))
<1>13. Good(new)
  <2>1. new.of = c /\ new.cells = cells
    BY <1>7
  <2>2. c.m \in 1..Begun /\ c.j + samples' <= Count(Message)
    BY <1>5, <1>11, <1>12, SMTT(20)
  <2>3. SampleOf(c)
    BY <1>4, <1>5, <2>2 DEF SampleOf, Message
  <2> QED
    BY <1>6, <2>1, <2>2, <2>3
<1>14. ASSUME NEW i \in DOMAIN delivered
       PROVE  Good(delivered[i]) /\ Later(delivered[i].of, new.of)
  <2>1. PICK p \in Cells : p = delivered[i].of /\ p.j \in Nat /\ p.m \in Nat
    BY DeliveredType DEF IInv
  <2>2. /\ SampleOf(p) /\ delivered[i].cells = [k \in 1..p.n |-> UnitOf(p, k)]
        /\ p.m = Begun => p.j + samples <= Count(Message)
    BY <1>1, <2>1 DEF IInv, DeliveredInv
  <2>3. p.m = Begun => p.j + samples' <= Count(Message)
    BY <1>5, <1>11, <2>1, <2>2
  <2>4. Later(p, c)
    <3>1. p.m \in 1..Begun
      BY <2>2 DEF SampleOf
    <3>2. p.m < c.m \/ p.m = Begun
      BY <1>5, <2>1, <3>1
    <3>3. p.m = Begun => p.m = c.m /\ p.j < c.j
      BY <1>5, <1>11, <1>12, <2>1, <2>2, SMTT(20)
    <3> QED
      BY <3>2, <3>3 DEF Later
  <2>5. new.of = c
    BY <1>7
  <2> QED
    BY <2>1, <2>2, <2>3, <2>4, <2>5
<1>15. \A d : Good(d) => /\ SampleOf(d.of)'
                        /\ d.cells = [k \in 1..d.of.n |-> UnitOf(d.of, k)]
                        /\ (d.of.m = Begun' => d.of.j + samples' <= Count(Message'))
  BY <1>2, <1>11 DEF SampleOf
<1>16. DeliveredInv'
  <2>1. \A i \in DOMAIN delivered' : Good(delivered'[i])
    <3>1. \A i \in DOMAIN delivered' : i \in DOMAIN delivered \/ i = Len(delivered) + 1
      BY <1>10
    <3> HIDE DEF Good
    <3> QED
      BY <1>10, <1>13, <1>14, <3>1
  <2>2. ASSUME NEW i \in DOMAIN delivered', NEW k \in DOMAIN delivered', i < k
        PROVE  Later(delivered'[i].of, delivered'[k].of)
    <3>1. i \in DOMAIN delivered /\ (k \in DOMAIN delivered \/ k = Len(delivered) + 1)
      BY <1>10, <2>2
    <3>2. k \in DOMAIN delivered => Later(delivered[i].of, delivered[k].of)
      BY <2>2, <3>1 DEF IInv, DeliveredInv
    <3> HIDE DEF Good
    <3> QED
      BY <1>10, <1>14, <3>1, <3>2
  <2>3. ASSUME NEW i \in DOMAIN delivered'
        PROVE  /\ SampleOf(delivered[i].of)'
               /\ delivered'[i].cells = [k \in 1..delivered'[i].of.n |-> UnitOf(delivered'[i].of, k)]
               /\ delivered'[i].of.m = Begun' => delivered'[i].of.j + samples' <= Count(Message')
    <3>1. PICK d : d = delivered'[i]
      OBVIOUS
    <3>2. Good(d)
      BY <2>1, <3>1
    <3>3. /\ SampleOf(d.of)' /\ d.cells = [k \in 1..d.of.n |-> UnitOf(d.of, k)]
          /\ d.of.m = Begun' => d.of.j + samples' <= Count(Message')
      BY <1>15, <3>2
    <3>4. SampleOf(delivered[i].of)'
      BY <3>1, <3>3 DEF SampleOf
    <3> QED
      BY <3>1, <3>3, <3>4
  <2> HIDE DEF Good
  <2> QED
    BY <2>2, <2>3 DEF DeliveredInv
<1> QED
  BY <1>2, <1>9, <1>16 DEF IInv

\* Cleanup reads to the end of the notification, whatever was left of it.
LEMMA CleanupStep ==
  ASSUME IInv, Cleanup
  PROVE  IInv'
<1>1. /\ Parsing /\ ~Parsing' /\ dpc' = "acquire" /\ done' = done + 1
      /\ read' = Increment(read, full) /\ full' = 0 /\ samples' = 0 /\ current' = NoSample
      /\ UNCHANGED <<dispatcher, notifications, data, write, sem, receiver, stopExecution, user, history, delivered>>
  BY DEF Cleanup, Parsing, Rest
<1>2. Begun' = Begun /\ full \in Nat /\ full \in 0..full /\ done \in Nat
  BY <1>1 DEF Begun, Parsing, IInv, TypeInv
<1>3. StreamInv' /\ ReceiverInv' /\ CountInv' /\ RingInv' /\ SeenInv' /\ read' \in Offsets /\ full' \in Nat
  BY <1>1, <1>2, Takes
<1>4. TypeInv'
  BY <1>1, <1>2, <1>3, CellsMade DEF IInv, TypeInv, NoSample, receiver, user, history
<1>5. ParserInv'
  BY <1>1 DEF ParserInv
<1>6. DeliveredInv'
  BY <1>1, <1>2 DEF IInv, DeliveredInv, SampleOf, history
<1> QED
  BY <1>3, <1>4, <1>5, <1>6 DEF IInv

\* A count that is not the destructor's stands for a notification that is whole: its length and its
\* number of samples are at the read pointer.
LEMMA AcquireStep ==
  ASSUME IInv, Acquire
  PROVE  IInv'
<1>1. /\ dpc = "acquire" /\ ~Parsing /\ sem > 0 /\ sem' = sem - 1
      /\ UNCHANGED <<dispatcher, notifications, data, write, receiver, current, stopExecution, user, history, done, delivered>>
  BY DEF Acquire, Parsing
<1>2. TypeInv /\ StreamInv /\ ReceiverInv /\ CountInv /\ RingInv /\ SeenInv /\ ParserInv /\ DeliveredInv
  BY DEF IInv
<1>3. /\ Taken = begin[done + 1] /\ Begun = done /\ Taken \in Nat /\ Written \in Nat
      /\ Written - Taken \in 0..(dataSize - 1)
      /\ done \in Nat /\ sem \in Nat /\ read \in Offsets
  BY <1>1, Place DEF IInv, TypeInv
<1>4. CASE stopExecution
  <2>1. /\ dpc' = "ended" /\ ~Parsing' /\ UNCHANGED <<read, full, samples>> /\ Begun' = Begun
    BY <1>1, <1>4 DEF Acquire, Parsing, Begun
  <2>2. TypeInv'
    BY <1>1, <1>2, <1>3, <2>1 DEF TypeInv, receiver, user, history
  <2>3. StreamInv' /\ ReceiverInv'
    BY <1>1, <1>2 DEF StreamInv, ReceiverInv, Awaited, receiver, history
  <2>4. CountInv'
    <3>1. Signalled' = Signalled /\ Signalled \in Int
      BY <1>1, <1>2 DEF Signalled, receiver, history, TypeInv
    <3> QED
      BY <1>1, <1>2, <1>3, <1>4, <2>1, <3>1 DEF CountInv, One, receiver, user
  <2>5. RingInv'
    BY <1>1, <1>2, <2>1 DEF RingInv, InRing, Taken, Written, receiver, history
  <2>6. ParserInv' /\ SeenInv'
    BY <1>1, <1>2, <2>1 DEF ParserInv, SeenInv, Taken, Written, receiver, history
  <2>7. DeliveredInv'
    BY <1>1, <1>2, <2>1 DEF DeliveredInv, SampleOf, history
  <2> QED
    BY <2>2, <2>3, <2>4, <2>5, <2>6, <2>7 DEF IInv
<1>5. CASE ~stopExecution
  <2>1. /\ dpc' = "samples" /\ Parsing' /\ Begun' = done + 1
        /\ full' = data[read].n - 1 /\ samples' = data[Increment(read, 2)].n
        /\ read' = Increment(read, 3)
    BY <1>1, <1>5 DEF Acquire, Parsing, Begun
  <2>2. done + 1 \in 0..Signalled /\ Signalled' = Signalled /\ Signalled \in 0..Len(sent)
        /\ Len(sent) \in Nat
    <3>1. Signalled \in 0..Len(sent) /\ Len(sent) \in Nat
      BY <1>2, Whole DEF TypeInv
    <3>2. sem + done = Signalled
      BY <1>1, <1>2, <1>3, <1>5, <3>1 DEF CountInv, One
    <3> QED
      BY <1>1, <1>3, <3>1, <3>2 DEF Signalled, receiver, history
  <2>3. PICK m \in DOMAIN sent : m = done + 1
    BY <1>2, <1>3, <2>2 DEF TypeInv
  <2>4. sent[m] \in Messages /\ Len(sent[m]) \in Nat /\ Count(sent[m]) \in Nat
        /\ DOMAIN sent[m] = 1..Len(sent[m]) /\ LaidOut(sent[m])
    BY <1>2, MessageFacts DEF TypeInv
  <2>5. /\ begin[m + 1] = Taken + Len(sent[m]) + 3
        /\ stream[Taken + 1] = Header("length", Len(sent[m]) + 1)
        /\ stream[Taken + 3] = Header("stamps", Count(sent[m]))
    BY <1>2, <1>3, <2>3 DEF StreamInv
  <2>6. begin[m + 1] <= Written
    BY <1>2, <2>2, <2>3, Whole
  <2>7. 3 \in 0..(Written - Taken) /\ 1 \in 1..(Written - Taken) /\ 3 \in 1..(Written - Taken)
    <3>1. Taken + Len(sent[m]) + 3 <= Written
      BY <2>5, <2>6
    <3> QED
      BY <1>3, <2>4, <3>1, SMTT(20)
  <2>8. data[Increment(read, 0)] = stream[Taken + 1] /\ data[Increment(read, 2)] = stream[Taken + 3]
    <3>1. /\ data[Increment(read, 1 - 1)] = stream[Taken + 1]
          /\ data[Increment(read, 3 - 1)] = stream[Taken + 3]
      BY <1>2, <2>7 DEF RingInv, InRing
    <3> QED
      BY <3>1
  <2>9. Increment(read, 0) = read
    BY <1>3, Increments, RingAssumption DEF Offsets
  <2>10. full' = Len(sent[m]) /\ samples' = Count(sent[m])
    BY <2>1, <2>4, <2>5, <2>8, <2>9 DEF Header, Cell
  <2>11. Taken' = Taken + 3 /\ Written' = Written
    BY <1>1, <1>3, <2>1, <2>3, <2>4, <2>5, <2>10, SMTT(20) DEF Taken, Written, receiver, history
  <2>12. RingInv' /\ read' \in Offsets
    <3>1. /\ InRing(data, write, Increment(read, 3), stream, Taken + 3, (Written - Taken) - 3)
          /\ Increment(read, 3) \in Offsets
      BY <1>2, <1>3, <2>7, Reads DEF RingInv
    <3>2. (Written - Taken) - 3 = Written' - Taken'
      BY <1>3, <2>11
    <3>3. Len(stream) - (Taken + 3) < dataSize
      <4>1. Len(stream) \in Nat /\ Len(stream) - Taken < dataSize
        BY <1>2 DEF RingInv, TypeInv
      <4> QED
        BY <1>3, <4>1, RingAssumption, SMTT(20)
    <3> QED
      BY <1>1, <2>1, <2>11, <3>1, <3>2, <3>3 DEF RingInv, InRing, history
  <2>13. TypeInv'
    <3>1. sem' \in Nat /\ full' \in Nat /\ samples' \in Nat
      BY <1>1, <1>3, <2>4, <2>10
    <3> QED
      BY <1>1, <1>2, <2>1, <2>12, <3>1 DEF TypeInv, receiver, user, history
  <2>14. StreamInv' /\ ReceiverInv'
    BY <1>1, <1>2 DEF StreamInv, ReceiverInv, Awaited, receiver, history
  <2>19. SeenInv'
    BY <1>1, <2>11, ReadsOn
  <2>15. CountInv'
    BY <1>1, <1>2, <1>3, <1>5, <2>1, <2>2 DEF CountInv, One, receiver, user
  <2>16. Message' = sent[m] /\ At' = 0
    BY <1>1, <2>3, <2>4, <2>10 DEF Message, At, history
  <2>17. ParserInv'
    <3>1. CASE Len(sent[m]) = 0
      <4>1. sent[m] = <<>>
        BY <2>4, <3>1, DispatcherAssumption, EmptySeq
      <4>2. samples' = 0
        BY <2>10, <4>1 DEF Count
      <4> QED
        BY <2>1, <2>4, <2>10, <2>16, <3>1, <4>2 DEF ParserInv
    <3>2. CASE Len(sent[m]) # 0
      <4>1. sent[m] # <<>>
        BY <3>2
      <4>2. IsSample(sent[m][1]) /\ sent[m][1].j = 1
        BY <2>4, <4>1 DEF LaidOut
      <4>3. samples' = Count(sent[m]) - 1 + 1
        BY <2>4, <2>10
      <4> QED
        BY <2>1, <2>4, <2>10, <2>16, <3>2, <4>2, <4>3 DEF ParserInv
    <3> QED
      BY <3>1, <3>2
  <2>18. DeliveredInv'
    <3>1. \A i \in DOMAIN delivered : delivered[i].of.m \in 1..done
      BY <1>2, <1>3 DEF DeliveredInv, SampleOf
    <3>2. \A i \in DOMAIN delivered : delivered[i].of.m \in 1..(done + 1) /\ delivered[i].of.m # done + 1
      BY <1>3, <3>1
    <3> QED
      BY <1>1, <1>2, <2>1, <3>2 DEF DeliveredInv, SampleOf, history
  <2> QED
    BY <2>12, <2>13, <2>14, <2>15, <2>17, <2>18, <2>19 DEF IInv
<1> QED
  BY <1>4, <1>5

-----------------------------------------------------------------------------
(* Steps of the receiver that write into the ring.                         *)

\* The last notification has a beginning and an end in the stream.
LEMMA Begins ==
  ASSUME TypeInv, StreamInv, NEW m \in DOMAIN sent
  PROVE  /\ m \in DOMAIN begin /\ m + 1 \in DOMAIN begin
         /\ begin[m] \in Nat /\ begin[m + 1] \in Nat
<1>1. sent \in Seq(Messages) /\ begin \in Seq(Nat) /\ Len(begin) = Len(sent) + 1
  BY DEF TypeInv, StreamInv
<1>2. /\ DOMAIN sent = 1..Len(sent) /\ Len(sent) \in Nat
      /\ DOMAIN begin = 1..(Len(sent) + 1) /\ \A i \in DOMAIN begin : begin[i] \in Nat
  BY <1>1, Elements
<1> QED
  BY <1>2

\* What is awaited of the last notification is the end of the stream.
LEMMA BodyInStream ==
  ASSUME TypeInv, StreamInv, NEW m \in DOMAIN sent, NEW i \in 1..(Len(sent[m]) + 1)
  PROVE  stream[begin[m] + 2 + i] = Body(m, sent[m])[i]
<1>1. /\ sent[m] \in Messages /\ Len(sent[m]) \in Nat /\ m \in Nat
      /\ DOMAIN sent[m] = 1..Len(sent[m])
  BY MessageFacts DEF TypeInv
<1>2. begin[m] \in Nat
  BY Begins
<1>3. /\ Body(m, sent[m])[1] = Header("stamps", Count(sent[m]))
      /\ \A k \in 1..Len(sent[m]) : Body(m, sent[m])[k + 1] = CellOf(m, sent[m][k])
  BY <1>1, BodyFacts
<1>4. CASE i = 1
  <2>1. begin[m] + 2 + i = begin[m] + 3
    BY <1>2, <1>4
  <2> QED
    BY <1>3, <1>4, <2>1 DEF StreamInv
<1>5. CASE i # 1
  <2>1. PICK k \in 1..Len(sent[m]) : i = k + 1
    <3>1. i - 1 \in 1..Len(sent[m]) /\ i = (i - 1) + 1
      BY <1>1, <1>5
    <3> QED
      BY <3>1
  <2>2. begin[m] + 2 + i = begin[m] + 3 + k
    BY <1>2, <2>1
  <2> QED
    BY <1>1, <1>3, <2>1, <2>2, SMTT(20) DEF StreamInv
<1> QED
  BY <1>4, <1>5

\* A chunk is the next part of the body, and its place in the ring is free.
LEMMA ChunkStep ==
  ASSUME IInv, ReceiveChunk
  PROVE  IInv'
<1>1. TypeInv /\ StreamInv /\ ReceiverInv /\ CountInv /\ RingInv /\ SeenInv /\ ParserInv /\ DeliveredInv
  BY DEF IInv
<1>2. /\ left > 0 /\ left \in Nat /\ chunk \in Nat /\ write \in Offsets /\ read \in Offsets
      /\ Len(sent) \in Nat /\ Len(sent) > 0 /\ Len(stream) \in Nat
      /\ left <= Len(sent[Len(sent)]) + 1 /\ rpc = "body"
  BY <1>1 DEF TypeInv, ReceiverInv, ReceiveChunk
<1>3. PICK m \in DOMAIN sent : m = Len(sent) /\ m \in Nat
  <2>1. Len(sent) \in DOMAIN sent
    BY <1>1, <1>2 DEF TypeInv
  <2> QED
    BY <1>2, <2>1
<1>4. sent[m] \in Messages /\ Len(sent[m]) \in Nat
  BY <1>1, MessageFacts DEF TypeInv
<1>5. PICK body \in Seq(Cells) : body = Body(m, sent[m]) /\ Len(body) = Len(sent[m]) + 1
  BY <1>3, <1>4, BodyFacts
<1>6. PICK n \in Nat : n = Awaited /\ n <= left /\ n <= chunk
  BY <1>2 DEF Awaited
<1>7. PICK from \in Nat : from = Len(body) - left /\ from + n <= Len(body)
  BY <1>2, <1>3, <1>4, <1>5, <1>6
<1>8. PICK cells \in Seq(Cells) :
         /\ cells = SubSeq(body, from + 1, from + n)
         /\ Len(cells) = n
         /\ \A i \in 1..n : cells[i] = body[from + i]
  <2>1. from + 1 \in 1..(Len(body) + 1) /\ from + n \in from..Len(body)
    BY <1>5, <1>6, <1>7
  <2>2. /\ SubSeq(body, from + 1, from + n) \in Seq(Cells)
        /\ Len(SubSeq(body, from + 1, from + n)) = n
        /\ \A i \in 1..n : SubSeq(body, from + 1, from + n)[i] = body[from + i]
    <3>1. \A i \in (from + 1)..(from + n) : body[i] \in Cells
      BY <1>5, <1>6, <1>7
    <3>2. from + 1 \in Int /\ from + n \in Int /\ (from + n) - (from + 1) + 1 = n
      BY <1>6, <1>7
    <3>3. /\ SubSeq(body, from + 1, from + n) \in Seq(Cells)
          /\ Len(SubSeq(body, from + 1, from + n))
               = IF from + 1 <= from + n THEN (from + n) - (from + 1) + 1 ELSE 0
          /\ \A i \in 1..((from + n) - (from + 1) + 1) :
                SubSeq(body, from + 1, from + n)[i] = body[(from + 1) + i - 1]
      <4>1. PICK x \in Int, y \in Int : x = from + 1 /\ y = from + n
        BY <3>2
      <4>2. \A i \in x..y : body[i] \in Cells
        BY <3>1, <4>1
      <4>3. /\ SubSeq(body, x, y) \in Seq(Cells)
            /\ Len(SubSeq(body, x, y)) = IF x <= y THEN y - x + 1 ELSE 0
            /\ \A i \in 1..(y - x + 1) : SubSeq(body, x, y)[i] = body[x + i - 1]
        BY <4>2, SubSeqProperties
      <4> QED
        BY <4>1, <4>3
    <3>4. from + 1 <= from + n \/ n = 0
      BY <1>6, <1>7
    <3>5. \A i \in 1..n : (from + 1) + i - 1 = from + i
      BY <1>6, <1>7
    <3> QED
      BY <3>2, <3>3, <3>4, <3>5
  <2> QED
    BY <2>2
<1>9. /\ data' = Stored(data, write, cells) /\ write' = Increment(write, n) /\ left' = left - n
      /\ chunk' = 0
      /\ rpc' = AfterChunk(left)
      /\ UNCHANGED <<dispatcher, notifications, read, sem, seen, torn, thread, stopExecution, user, history, done, delivered>>
  BY <1>3, <1>5, <1>6, <1>7, <1>8 DEF ReceiveChunk
<1>10. /\ Taken \in Nat /\ Written \in Nat /\ Written - Taken \in 0..(dataSize - 1)
  BY Place
<1>11. PICK a \in Nat : a = Written - Taken /\ a + n < dataSize
  <2>1. Written - Taken \in Nat /\ (Written - Taken) + n < dataSize
    BY <1>1, <1>2, <1>6, <1>10, RingAssumption DEF RingInv, Written
  <2> QED
    BY <2>1
<1>12. \A i \in 1..n : stream[Taken + a + i] = cells[i]
  <2> TAKE i \in 1..n
  <2>1. begin[m] \in Nat /\ begin[m + 1] = begin[m] + Len(sent[m]) + 3 /\ begin[m + 1] = Len(stream)
    BY <1>1, <1>3, Begins DEF StreamInv
  <2>2. Written = begin[m] + 2 + from
    <3>1. PICK b \in Nat, l \in Nat : b = begin[m] /\ l = Len(sent[m])
      BY <1>4, <2>1
    <3>2. left \in Nat
      BY <1>2
    <3>3. Len(stream) = b + l + 3
      BY <2>1, <3>1
    <3>4. Len(body) = l + 1
      BY <1>5, <3>1
    <3>5. from = l + 1 - left
      <4>1. PICK k \in Nat : k = left
        BY <3>2
      <4>2. from = Len(body) - k
        BY <1>7, <4>1
      <4>3. PICK c \in Nat : c = Len(body)
        BY <3>4
      <4>4. from = c - k
        BY <4>2, <4>3, Zenon
      <4>5. c = l + 1
        BY <3>4, <4>3
      <4>6. from = l + 1 - k
        BY <4>4, <4>5
      <4> QED
        BY <4>1, <4>6
    <3>6. Len(stream) - left = b + 2 + from
      BY <3>2, <3>3, <3>5
    <3> QED
      BY <3>1, <3>6 DEF Written
  <2>3. Taken + a + i = begin[m] + 2 + (from + i) /\ from + i \in 1..(Len(sent[m]) + 1)
    <3>1. Taken + a = Written
      BY <1>10, <1>11
    <3>2. Taken + a + i = begin[m] + 2 + (from + i)
      <4>1. PICK b \in Nat : b = begin[m]
        BY <2>1
      <4>2. Taken + a = b + 2 + from
        BY <2>2, <3>1, <4>1
      <4>3. Taken \in Nat
        BY <1>10
      <4>4. Taken + a + i = b + 2 + (from + i)
        BY <4>2, <4>3
      <4> QED
        BY <4>1, <4>4
    <3>3. from + i \in 1..Len(body)
      BY <1>5, <1>6, <1>7
    <3> QED
      BY <1>5, <3>2, <3>3
  <2>4. stream[begin[m] + 2 + (from + i)] = body[from + i]
    BY <1>1, <1>5, <2>3, BodyInStream
  <2> QED
    BY <1>8, <2>3, <2>4
<1>13. InRing(data', write', read, stream, Taken, a + n)
  <2>1. /\ data \in [Offsets -> Cells] /\ InRing(data, write, read, stream, Taken, a)
        /\ \A i \in 1..a : stream[Taken + i] = stream[Taken + i]
        /\ a + Len(cells) < dataSize
        /\ \A i \in 1..Len(cells) : stream[Taken + a + i] = cells[i]
    BY <1>1, <1>8, <1>11, <1>12 DEF TypeInv, RingInv
  <2>2. InRing(Stored(data, write, cells), Increment(write, Len(cells)), read, stream, Taken, a + Len(cells))
    BY <1>2, <1>10, <2>1, Writes
  <2> QED
    BY <1>8, <1>9, <2>2
<1>14. Begun' = Begun /\ Taken' = Taken /\ Written' = Written + n
  BY <1>2, <1>6, <1>9 DEF Begun, Taken, Written, thread, history
<1>15. RingInv'
  <2>1. Written' - Taken' = a + n
    BY <1>10, <1>11, <1>14
  <2> QED
    BY <1>1, <1>9, <1>13, <1>14, <2>1 DEF RingInv, InRing, history
<1>16. StreamInv' /\ ParserInv' /\ DeliveredInv'
  <2>1. StreamInv'
    BY <1>1, <1>9 DEF StreamInv, history
  <2>2. ParserInv'
    BY <1>1, <1>9 DEF ParserInv, Parsing, Message, At, thread, history
  <2>3. DeliveredInv'
    BY <1>1, <1>9, <1>14 DEF DeliveredInv, SampleOf, Parsing, Message, thread, history
  <2> QED
    BY <2>1, <2>2, <2>3
<1>17. write' \in Offsets /\ data' \in [Offsets -> Cells] /\ left' \in Nat /\ chunk' \in Nat
  <2>1. n \in 0..(dataSize - 1) /\ Len(cells) < dataSize
    BY <1>8, <1>11, RingAssumption
  <2>2. write' \in Offsets
    BY <1>2, <1>9, <2>1, Increments
  <2>3. data' \in [Offsets -> Cells]
    BY <1>1, <1>2, <1>9, <2>1, StoredCells DEF TypeInv
  <2> QED
    BY <1>2, <1>6, <1>9, <2>2, <2>3
<1>18. TypeInv'
  BY <1>1, <1>9, <1>17 DEF TypeInv, AfterChunk, thread, user, history
<1>19. ReceiverInv'
  <2>1. CASE left > chunk
    <3>1. rpc' = "chunk" /\ left' = left - chunk
      BY <1>6, <1>9, <2>1 DEF AfterChunk, Awaited
    <3> QED
      BY <1>1, <1>2, <1>3, <1>4, <1>9, <2>1, <3>1 DEF ReceiverInv, history
  <2>2. CASE ~(left > chunk)
    <3>1. rpc' = "notify" /\ left' = 0
      BY <1>2, <1>6, <1>9, <2>2 DEF AfterChunk, Awaited
    <3> QED
      BY <1>2, <1>9, <3>1 DEF ReceiverInv, history
  <2> QED
    BY <2>1, <2>2
<1>20. CountInv'
  <2>1. rpc' = "notify" \/ left' > 0
    BY <1>2, <1>6, <1>9 DEF AfterChunk, Awaited
  <2>2. Signalled' = Signalled
    BY <1>2, <1>9, <2>1 DEF Signalled, history
  <2>3. ~stopExecution /\ ~stopExecution'
    BY <1>1, <1>2, <1>9 DEF CountInv
  <2> QED
    BY <1>1, <1>9, <1>14, <2>2, <2>3 DEF CountInv, thread, user
<1>21. SeenInv'
  BY <1>9 DEF SeenInv, AfterChunk
<1> QED
  BY <1>15, <1>16, <1>18, <1>19, <1>20, <1>21 DEF IInv

\* What is free has room for what is awaited.
LEMMA RoomLeft ==
  ASSUME IInv
  PROVE  BytesAvailable(write, read) = Written - Taken /\ left <= Free(write, read)
<1>1. /\ Taken \in Nat /\ Written \in Nat /\ Written - Taken \in 0..(dataSize - 1)
      /\ read \in Offsets /\ Len(stream) \in Nat /\ left \in Nat /\ Len(stream) - Taken < dataSize
  BY Place DEF IInv, TypeInv, RingInv
<1>2. BytesAvailable(write, read) = Written - Taken /\ Free(write, read) = dataSize - 1 - (Written - Taken)
  BY <1>1, Counts DEF IInv, RingInv, InRing
<1>3. left <= dataSize - 1 - (Written - Taken)
  BY <1>1, RingAssumption DEF Written
<1> QED
  BY <1>2, <1>3

\* Between two loads the reader has only moved on.
LEMMA RoomBehind ==
  ASSUME IInv, rpc \in {"room", "measure"}
  PROVE  BytesAvailable(write, read) <= BytesAvailable(write, seen)
BY RoomLeft DEF IInv, SeenInv

\* Where there is room, the prefix is stored in free cells, and the notification becomes the end of the stream.
LEMMA AcceptStep ==
  ASSUME IInv, NEW message \in Messages, AcceptNotification(message), ~torn'
  PROVE  IInv'
<1>1. TypeInv /\ StreamInv /\ ReceiverInv /\ CountInv /\ RingInv /\ SeenInv /\ ParserInv /\ DeliveredInv
  BY DEF IInv
<1>2. /\ rpc = "room" /\ left = 0 /\ write \in Offsets /\ read \in Offsets /\ seen \in Offsets
      /\ Len(sent) \in Nat /\ Len(stream) \in Nat /\ Written = Len(stream)
  BY <1>1 DEF TypeInv, ReceiverInv, AcceptNotification, Written
<1>3. PICK m \in Nat : m = Len(sent) + 1
  BY <1>2
<1>4. Len(message) \in Nat /\ DOMAIN message = 1..Len(message)
  BY MessageFacts
<1>5. PICK record \in Seq(Cells) :
         /\ record = Record(m, message)
         /\ Len(record) = Len(message) + 3
         /\ record[1] = Header("length", Len(message) + 1)
         /\ record[2] = Header("length", Len(message) + 1)
         /\ record[3] = Header("stamps", Count(message))
         /\ \A k \in 1..Len(message) : record[k + 3] = CellOf(m, message[k])
  BY RecordFacts
<1>6. Len(Body(m, message)) = Len(message) + 1
  BY BodyFacts
<1>7. PICK cells \in Seq(Cells) :
         /\ cells = Prefix(Len(message) + 1)
         /\ Len(cells) = 2 /\ cells[1] = Header("length", Len(message) + 1)
         /\ cells[2] = Header("length", Len(message) + 1)
  <2>1. Header("length", Len(message) + 1) \in Cells
    BY <1>4, CellsMade
  <2>2. PICK c \in Cells : c = Header("length", Len(message) + 1)
    BY <2>1
  <2>3. <<c, c>> \in Seq(Cells) /\ Len(<<c, c>>) = 2 /\ <<c, c>>[1] = c /\ <<c, c>>[2] = c
    OBVIOUS
  <2> QED
    BY <2>2, <2>3 DEF Prefix
<1>7a. Len(cells) = 2
  BY <1>7
<1>8. /\ data' = Stored(data, write, cells) /\ write' = Increment(write, 2)
      /\ left' = Len(message) + 1 /\ seen' = 0 /\ rpc' = "chunk"
      /\ sent' = Append(sent, message) /\ stream' = stream \o record
      /\ begin' = Append(begin, Len(stream'))
      /\ Len(record) <= Free(write, read)
      /\ UNCHANGED <<dispatcher, notifications, read, sem, chunk, thread, stopExecution, user, done, delivered>>
  <2>1. Len(record) \in Nat /\ Free(write, read) \in Int
    BY <1>2, <1>4, <1>5, FreeIsInt
  <2>4. BytesFree(write, seen, read) = Free(write, read)
    <3>1. BytesAvailable(write, read) <= BytesAvailable(write, seen)
      BY <1>1, <1>2, RoomBehind
    <3>2. ~Torn(write, seen, read)
      BY DEF AcceptNotification
    <3> QED
      BY <1>2, <3>1, <3>2, FreeOfTwo
  <2>2. ~(Len(record) > BytesFree(write, seen, read))
    BY <1>2, <1>3, <1>5 DEF AcceptNotification, Refused
  <2>3. Len(record) <= Free(write, read)
    BY <2>1, <2>2, <2>4
  <2> QED
    BY <1>3, <1>5, <1>6, <1>7, <2>3 DEF AcceptNotification
<1>9. /\ Len(stream') = Len(stream) + Len(message) + 3 /\ stream' \in Seq(Cells)
      /\ \A i \in 1..Len(stream) : stream'[i] = stream[i]
      /\ \A i \in 1..(Len(message) + 3) : stream'[Len(stream) + i] = record[i]
  <2>1. stream \in Seq(Cells)
    BY <1>1 DEF TypeInv
  <2>2. /\ stream \o record \in Seq(Cells) /\ Len(stream \o record) = Len(stream) + Len(record)
        /\ \A i \in 1..(Len(stream) + Len(record)) :
              (stream \o record)[i] = IF i <= Len(stream) THEN stream[i] ELSE record[i - Len(stream)]
    BY <1>5, <2>1, ConcatProperties
  <2>3. \A i \in 1..Len(stream) : i \in 1..(Len(stream) + Len(record)) /\ i <= Len(stream)
    BY <1>2, <1>4, <1>5
  <2>4. \A i \in 1..(Len(message) + 3) :
           /\ Len(stream) + i \in 1..(Len(stream) + Len(record)) /\ ~(Len(stream) + i <= Len(stream))
           /\ Len(stream) + i - Len(stream) = i
    BY <1>2, <1>4, <1>5
  <2>5. Len(stream) + Len(record) = Len(stream) + Len(message) + 3
    BY <1>2, <1>4, <1>5
  <2> QED
    BY <1>8, <2>2, <2>3, <2>4, <2>5
<1>10. /\ sent' \in Seq(Messages) /\ Len(sent') = m /\ DOMAIN sent' = 1..m
       /\ sent'[m] = message /\ \A i \in DOMAIN sent : i \in 1..Len(sent) /\ sent'[i] = sent[i]
       /\ \A i \in 1..m : i = m \/ i \in DOMAIN sent
  BY <1>1, <1>2, <1>3, <1>8 DEF TypeInv
<1>11. /\ begin \in Seq(Nat) /\ Len(begin) = m /\ DOMAIN begin = 1..m
       /\ begin' \in Seq(Nat) /\ Len(begin') = m + 1 /\ DOMAIN begin' = 1..(m + 1)
       /\ begin'[m + 1] = Len(stream') /\ \A i \in 1..m : begin'[i] = begin[i]
       /\ begin[m] = Len(stream)
  BY <1>1, <1>2, <1>3, <1>4, <1>8, <1>9, SMTT(20) DEF TypeInv, StreamInv
<1>12. \A i \in 1..m : begin[i] \in Nat /\ begin[i] <= Len(stream)
  <2>1. m \in DOMAIN begin
    BY <1>2, <1>3, <1>11
  <2>2. \A i, k \in DOMAIN begin : i <= k => begin[i] <= begin[k]
    BY <1>1 DEF StreamInv
  <2> TAKE i \in 1..m
  <2>3. i \in DOMAIN begin /\ i <= m
    BY <1>11
  <2>4. begin[i] \in Nat
    BY <1>11
  <2> QED
    BY <1>11, <2>1, <2>2, <2>3, <2>4
<1>13. StreamInv'
  <2>1. begin'[1] = 0 /\ begin'[Len(sent') + 1] = Len(stream') /\ Len(begin') = Len(sent') + 1
    <3>1. 1 \in 1..m
      BY <1>2, <1>3
    <3> QED
      BY <1>1, <1>10, <1>11, <3>1 DEF StreamInv
  <2>2. ASSUME NEW i \in DOMAIN begin', NEW k \in DOMAIN begin', i <= k PROVE begin'[i] <= begin'[k]
    <3>1. CASE k \in 1..m
      <4>1. i \in 1..m
        BY <1>11, <2>2, <3>1
      <4> QED
        BY <1>1, <1>11, <2>2, <3>1, <4>1 DEF StreamInv
    <3>2. CASE k = m + 1
      <4>1. i \in 1..m \/ i = m + 1
        BY <1>11
      <4> QED
        BY <1>2, <1>4, <1>9, <1>11, <1>12, <3>2, <4>1, SMTT(20)
    <3> QED
      BY <1>11, <3>1, <3>2
  <2>3. ASSUME NEW i \in DOMAIN sent'
        PROVE  /\ begin'[i + 1] = begin'[i] + Len(sent'[i]) + 3
               /\ stream'[begin'[i] + 1] = Header("length", Len(sent'[i]) + 1)
               /\ stream'[begin'[i] + 2] = Header("length", Len(sent'[i]) + 1)
               /\ stream'[begin'[i] + 3] = Header("stamps", Count(sent'[i]))
               /\ \A k \in DOMAIN sent'[i] : stream'[begin'[i] + 3 + k] = CellOf(i, sent'[i][k])
    <3>1. CASE i = m
      <4>1. m \in 1..m /\ begin'[m] = Len(stream)
        <5>1. m \in 1..m
          BY <1>2, <1>3
        <5> QED
          BY <1>11, <5>1
      <4>2. begin'[m + 1] = begin'[m] + Len(message) + 3
        BY <1>9, <1>11, <4>1
      <4>3. /\ stream'[Len(stream) + 1] = record[1] /\ stream'[Len(stream) + 2] = record[2]
            /\ stream'[Len(stream) + 3] = record[3]
        <5>1. 1 \in 1..(Len(message) + 3) /\ 2 \in 1..(Len(message) + 3) /\ 3 \in 1..(Len(message) + 3)
          BY <1>4
        <5> QED
          BY <1>9, <5>1
      <4>4. \A k \in 1..Len(message) : stream'[Len(stream) + 3 + k] = CellOf(m, message[k])
        <5> TAKE k \in 1..Len(message)
        <5>1. k + 3 \in 1..(Len(message) + 3) /\ Len(stream) + 3 + k = Len(stream) + (k + 3)
          BY <1>2, <1>4
        <5> QED
          BY <1>5, <1>9, <5>1
      <4> QED
        BY <1>4, <1>5, <1>10, <3>1, <4>1, <4>2, <4>3, <4>4
    <3>2. CASE i \in DOMAIN sent
      <4>1. /\ sent'[i] = sent[i] /\ i \in 1..m /\ i + 1 \in 1..m
            /\ begin'[i] = begin[i] /\ begin'[i + 1] = begin[i + 1]
        <5>1. i \in 1..Len(sent) /\ sent'[i] = sent[i]
          BY <1>10, <3>2
        <5>2. i \in 1..m /\ i + 1 \in 1..m
          BY <1>2, <1>3, <5>1
        <5> QED
          BY <1>11, <5>1, <5>2
      <4>2. /\ begin[i + 1] = begin[i] + Len(sent[i]) + 3
            /\ stream[begin[i] + 1] = Header("length", Len(sent[i]) + 1)
            /\ stream[begin[i] + 2] = Header("length", Len(sent[i]) + 1)
            /\ stream[begin[i] + 3] = Header("stamps", Count(sent[i]))
            /\ \A k \in DOMAIN sent[i] : stream[begin[i] + 3 + k] = CellOf(i, sent[i][k])
        BY <1>1, <3>2 DEF StreamInv
      <4>3. Len(sent[i]) \in Nat /\ DOMAIN sent[i] = 1..Len(sent[i])
        BY <1>1, <3>2, MessageFacts DEF TypeInv
      <4>4. begin[i] \in Nat /\ begin[i] + Len(sent[i]) + 3 <= Len(stream)
        BY <1>12, <4>1, <4>2
      <4>5. /\ begin[i] + 1 \in 1..Len(stream) /\ begin[i] + 2 \in 1..Len(stream)
            /\ begin[i] + 3 \in 1..Len(stream)
            /\ \A k \in DOMAIN sent[i] : begin[i] + 3 + k \in 1..Len(stream)
        <5>1. PICK b \in Nat : b = begin[i]
          BY <4>4
        <5>2. /\ b + 1 \in 1..Len(stream) /\ b + 2 \in 1..Len(stream) /\ b + 3 \in 1..Len(stream)
              /\ \A k \in 1..Len(sent[i]) : b + 3 + k \in 1..Len(stream)
          <6>1. PICK l \in Nat : l = Len(sent[i]) /\ b + l + 3 <= Len(stream)
            BY <4>3, <4>4, <5>1
          <6>2. /\ b + 1 \in 1..Len(stream) /\ b + 2 \in 1..Len(stream) /\ b + 3 \in 1..Len(stream)
                /\ \A k \in 1..l : b + 3 + k \in 1..Len(stream)
            <7>1. Len(stream) \in Nat
              BY <1>2
            <7>2. b + 1 \in 1..Len(stream) /\ b + 2 \in 1..Len(stream) /\ b + 3 \in 1..Len(stream)
              BY <6>1, <7>1
            <7>3. \A k \in 1..l : b + 3 + k \in 1..Len(stream)
              BY <6>1, <7>1
            <7> QED
              BY <7>2, <7>3
          <6> QED
            BY <6>1, <6>2
        <5> QED
          BY <4>3, <5>1, <5>2
      <4> QED
        BY <1>9, <4>1, <4>2, <4>5
    <3> QED
      BY <1>10, <3>1, <3>2
  <2> QED
    BY <2>1, <2>2, <2>3 DEF StreamInv
<1>14. /\ Begun \in 0..Len(sent) /\ Taken \in Nat /\ Written - Taken \in 0..(dataSize - 1)
       /\ (Parsing => Begun = done + 1 /\ done + 1 \in DOMAIN sent)
       /\ done \in Nat
  BY <1>1, Place DEF TypeInv
<1>15. Begun' = Begun /\ Taken' = Taken /\ Written' = Written + 2
  <2>1. Begun + 1 \in 1..m
    BY <1>2, <1>3, <1>14
  <2>2. Begun' = Begun
    BY <1>8 DEF Begun, thread
  <2>3. Taken' = Taken
    BY <1>8, <1>11, <2>1, <2>2 DEF Taken, thread
  <2> QED
    BY <1>2, <1>4, <1>8, <1>9, <2>2, <2>3 DEF Written
<1>16. PICK a \in Nat : a = Written - Taken /\ a + Len(message) + 3 < dataSize
  <2>1. Free(write, read) = dataSize - 1 - (Written - Taken)
    BY <1>1, <1>2, <1>14, Counts DEF RingInv, InRing
  <2>2. PICK b \in Nat : b = Written - Taken
    BY <1>14
  <2>3. b + Len(message) + 3 < dataSize
    BY <1>4, <1>5, <1>8, <2>1, <2>2, RingAssumption, SMTT(20)
  <2> QED
    BY <2>2, <2>3
<1>17. RingInv'
  <2>1. /\ \A i \in 1..a : stream'[Taken + i] = stream[Taken + i]
        /\ \A i \in 1..Len(cells) : stream'[Taken + a + i] = cells[i]
    <3>1. \A i \in 1..a : Taken + i \in 1..Len(stream)
      BY <1>2, <1>14, <1>16
    <3>2. Taken + a = Len(stream)
      BY <1>2, <1>14, <1>16
    <3>3. stream'[Len(stream) + 1] = record[1] /\ stream'[Len(stream) + 2] = record[2]
      BY <1>4, <1>9
    <3>4. \A i \in 1..a : stream'[Taken + i] = stream[Taken + i]
      BY <1>9, <3>1
    <3>5. \A i \in 1..Len(cells) : i = 1 \/ i = 2
      BY <1>7a
    <3> QED
      BY <1>5, <1>7, <3>2, <3>3, <3>4, <3>5
  <2>2. /\ data \in [Offsets -> Cells] /\ InRing(data, write, read, stream, Taken, a)
        /\ a + Len(cells) < dataSize
    <3>1. a + 2 < dataSize
      BY <1>4, <1>16, RingAssumption
    <3> QED
      BY <1>1, <1>16, <1>7a, <3>1 DEF TypeInv, RingInv
  <2>3. InRing(Stored(data, write, cells), Increment(write, Len(cells)), read, stream', Taken, a + Len(cells))
    BY <1>2, <1>14, <2>1, <2>2, Writes
  <2>4. Written' - Taken' = a + 2 /\ Len(stream') - Taken' < dataSize
    BY <1>2, <1>4, <1>9, <1>14, <1>15, <1>16, RingAssumption
  <2> QED
    BY <1>7, <1>8, <1>15, <2>3, <2>4 DEF RingInv, InRing
<1>18. write' \in Offsets /\ data' \in [Offsets -> Cells] /\ seen' \in Offsets
  <2>1. 2 \in 0..(dataSize - 1) /\ Len(cells) < dataSize
    BY <1>4, <1>7a, <1>16, RingAssumption
  <2>2. write' \in Offsets
    BY <1>2, <1>8, <2>1, Increments
  <2>3. data' \in [Offsets -> Cells]
    BY <1>1, <1>2, <1>8, <2>1, StoredCells DEF TypeInv
  <2> QED
    BY <1>8, <2>2, <2>3, RingAssumption DEF Offsets
<1>19. TypeInv'
  <2>1. left' \in Nat /\ rpc' = "chunk"
    BY <1>4, <1>8
  <2>1a. torn' \in BOOLEAN
    BY DEF AcceptNotification, Torn
  <2>2. /\ UNCHANGED <<dispatcher, notifications, read, sem, chunk, stopExecution, done, delivered>>
        /\ UNCHANGED <<dpc, full, samples, current>> /\ UNCHANGED <<upc, calls>>
    BY <1>8 DEF thread, user
  <2>3. sent' \in Seq(Messages) /\ stream' \in Seq(Cells) /\ begin' \in Seq(Nat)
    BY <1>9, <1>10, <1>11
  <2> QED
    BY <1>1, <1>18, <2>1, <2>1a, <2>2, <2>3 DEF TypeInv
<1>20. ReceiverInv'
  BY <1>3, <1>2, <1>4, <1>8, <1>10, <1>18 DEF ReceiverInv
<1>21. CountInv'
  <2>1. Signalled = Len(sent) /\ Signalled' = Len(sent)
    BY <1>2, <1>3, <1>4, <1>8, <1>10 DEF Signalled
  <2>2. ~stopExecution /\ ~stopExecution'
    BY <1>1, <1>2, <1>8 DEF CountInv
  <2> QED
    BY <1>1, <1>8, <1>15, <2>1, <2>2 DEF CountInv, thread, user
<1>22. Parsing' = Parsing /\ (Parsing => Message' = Message /\ At' = At)
  BY <1>8, <1>10, <1>14 DEF Parsing, Message, At, thread
<1>23. ParserInv'
  BY <1>1, <1>8, <1>22 DEF ParserInv, thread
<1>24. DeliveredInv'
  <2>1. \A k \in 1..Begun : k \in DOMAIN sent /\ sent'[k] = sent[k]
    <3>1. DOMAIN sent = 1..Len(sent)
      BY <1>1, Elements DEF TypeInv
    <3>2. \A k \in 1..Begun : k \in 1..Len(sent)
      BY <1>2, <1>14
    <3> QED
      BY <1>10, <3>1, <3>2
  <2>2. \A i \in DOMAIN delivered : SampleOf(delivered[i].of)'
    <3> TAKE i \in DOMAIN delivered
    <3>1. PICK p : p = delivered[i].of /\ SampleOf(p)
      BY <1>1 DEF DeliveredInv
    <3>2. p.m \in 1..Begun /\ sent'[p.m] = sent[p.m]
      BY <2>1, <3>1 DEF SampleOf
    <3>3. p.m \in 1..Begun' /\ delivered'[i].of = p
      BY <1>8, <1>15, <3>1, <3>2
    <3> QED
      BY <3>1, <3>2, <3>3 DEF SampleOf
  <2> QED
    BY <1>1, <1>8, <1>15, <1>22, <2>2 DEF DeliveredInv, thread
<1>25. SeenInv'
  BY <1>8 DEF SeenInv
<1> QED
  BY <1>13, <1>17, <1>19, <1>20, <1>21, <1>23, <1>24, <1>25 DEF IInv

\* A load of read to be compared.
LEMMA LookForRoomStep ==
  ASSUME IInv, LookForRoom
  PROVE  IInv'
<1>1. StreamInv' /\ RingInv' /\ ParserInv' /\ DeliveredInv' /\ Begun' = Begun
  BY Quiet DEF LookForRoom
<1>2. TypeInv'
  BY DEF IInv, TypeInv, LookForRoom, ring, thread, user, history
<1>3. ReceiverInv' /\ CountInv'
  BY <1>1 DEF IInv, ReceiverInv, CountInv, Signalled, LookForRoom, ring, thread, user, history
<1>4. SeenInv'
  <2>1. BytesAvailable(write, read) = Written - Taken
    BY RoomLeft
  <2>2. Written' = Written /\ Taken' = Taken /\ write' = write /\ seen' = read /\ rpc' = "room"
    BY <1>1 DEF LookForRoom, ring, thread, history, Written, Taken
  <2>3. Written - Taken \in Int
    BY Place
  <2> QED
    BY <2>1, <2>2, <2>3 DEF SeenInv
<1> QED
  BY <1>1, <1>2, <1>3, <1>4 DEF IInv

\* And before a chunk: what is awaited of the notification is free.
LEMMA LookForChunkStep ==
  ASSUME IInv, LookForChunk
  PROVE  IInv'
<1>1. StreamInv' /\ RingInv' /\ ParserInv' /\ DeliveredInv' /\ Begun' = Begun
  BY Quiet DEF LookForChunk
<1>2. TypeInv'
  BY DEF IInv, TypeInv, LookForChunk, ring, thread, user, history
<1>3. ReceiverInv' /\ CountInv'
  BY <1>1 DEF IInv, ReceiverInv, CountInv, Signalled, LookForChunk, ring, thread, user, history
<1>4. SeenInv'
  <2>1. BytesAvailable(write, read) = Written - Taken /\ left <= Free(write, read)
    BY RoomLeft
  <2>2. /\ Written' = Written /\ Taken' = Taken /\ write' = write /\ seen' = read /\ rpc' = "measure"
        /\ left' = left
    BY <1>1 DEF LookForChunk, ring, thread, history, Written, Taken
  <2>3. Written - Taken \in Int
    BY Place
  <2> QED
    BY <2>1, <2>2, <2>3 DEF SeenInv
<1> QED
  BY <1>1, <1>2, <1>3, <1>4 DEF IInv

\* The chunk is computed, from two values of read that need not belong together.
LEMMA MeasureStep ==
  ASSUME IInv, MeasureChunk
  PROVE  IInv'
<1>1. StreamInv' /\ RingInv' /\ ParserInv' /\ DeliveredInv' /\ Begun' = Begun
  BY Quiet DEF MeasureChunk
<1>2. /\ write \in Offsets /\ read \in Offsets /\ seen \in Offsets /\ left \in Nat
      /\ rpc = "measure" /\ left <= Free(write, seen)
  BY DEF IInv, TypeInv, SeenInv, MeasureChunk
<1>3. BytesAvailable(write, read) <= BytesAvailable(write, seen)
  BY <1>2, RoomBehind
<1>4. /\ WriteChunk(write, seen, read) \in Nat
      /\ write + (IF left > WriteChunk(write, seen, read) THEN WriteChunk(write, seen, read) ELSE left) <= dataSize
  BY <1>2, <1>3, ChunkInArray
<1>5. /\ chunk' = WriteChunk(write, seen, read) /\ rpc' = "body" /\ seen' = 0
      /\ UNCHANGED <<write, left, torn>>
  BY DEF MeasureChunk, ring
<1>6. TypeInv'
  <2>1. 0 \in Offsets
    BY RingAssumption DEF Offsets
  <2> QED
    BY <1>4, <1>5, <2>1 DEF IInv, TypeInv, MeasureChunk, ring, thread, user, history
<1>7. ReceiverInv'
  <2>1. write' + Awaited' <= dataSize
    BY <1>4, <1>5 DEF Awaited
  <2> QED
    BY <1>2, <1>5, <2>1 DEF IInv, ReceiverInv, MeasureChunk, history
<1>8. CountInv' /\ SeenInv'
  BY <1>1, <1>5 DEF IInv, CountInv, Signalled, SeenInv, MeasureChunk, thread, user, history
<1> QED
  BY <1>1, <1>6, <1>7, <1>8 DEF IInv

-----------------------------------------------------------------------------

-----------------------------------------------------------------------------
(* The theorems.                                                           *)

\* Until a notification is taken for which there was no room; then the two threads stand still.
Safe == /\ torn => rpc = "chunk"
        /\ ~torn => IInv

\* A step of the invariant's part.
LEMMA NextInv == IInv /\ ~torn /\ [Next]_vars /\ ~torn' => IInv'
<1> SUFFICES ASSUME IInv, [Next]_vars, ~torn' PROVE IInv'
  OBVIOUS
<1>1. CASE Accepts
  BY <1>1, AcceptStep DEF Accepts
<1>2. CASE RefuseNotification
  BY <1>2, RefuseStep
<1>3. CASE ReceiveChunk
  BY <1>3, ChunkStep
<1>4. CASE ReceiveFails
  BY <1>4, FailsStep
<1>5. CASE Notify
  BY <1>5, NotifyStep
<1>6. CASE Acquire
  BY <1>6, AcquireStep
<1>7. CASE FindSample
  BY <1>7, FindSampleStep
<1>8. CASE CallBack
  BY <1>8, CallBackStep
<1>9. CASE SkipSample
  BY <1>9, SkipStep
<1>10. CASE Cleanup
  BY <1>10, CleanupStep
<1>11. CASE DispatcherListAdd
  BY <1>11, ListAddStep
<1>12. CASE Emplaces
  BY <1>12, EmplaceStep DEF Emplaces
<1>13. CASE Erases
  BY <1>13, EraseStep DEF Erases
<1>14. CASE Destroy
  BY <1>14, DestroyStep
<1>15. CASE Join
  BY <1>15, JoinStep
<1>16. CASE UNCHANGED vars
  BY <1>16, StutterStep
<1>17. CASE LookForRoom
  BY <1>17, LookForRoomStep
<1>18. CASE LookForChunk
  BY <1>18, LookForChunkStep
<1>19. CASE MeasureChunk
  BY <1>19, MeasureStep
<1> QED
  BY <1>1, <1>2, <1>3, <1>4, <1>5, <1>6, <1>7, <1>8, <1>9, <1>10, <1>11, <1>12, <1>13, <1>14,
     <1>15, <1>16, <1>17, <1>18, <1>19 DEF Next

\* Every step keeps the whole: only AcceptNotification may find room by two values of read that do
\* not belong together, and nothing moves the receiver from there.
LEMMA NextSafe == Safe /\ [Next]_vars => Safe'
<1> SUFFICES ASSUME Safe, [Next]_vars PROVE Safe'
  OBVIOUS
<1>1. CASE ~torn
  <2>1. ~torn' => IInv'
    BY <1>1, NextInv DEF Safe
  <2>2. torn' => rpc' = "chunk"
    BY <1>1 DEF Next, vars, receiver, LookForRoom, RefuseNotification, Accepts, AcceptNotification,
                LookForChunk, MeasureChunk, ReceiveChunk, ReceiveFails, Notify, Acquire, FindSample,
                CallBack, SkipSample, SampleEnds, Cleanup, DispatcherListAdd, Emplaces, Emplace,
                Erases, Erase, Destroy, Join
  <2> QED
    BY <2>1, <2>2 DEF Safe
<1>2. CASE torn
  <2>1. rpc = "chunk"
    BY <1>2 DEF Safe
  <2>2. torn' /\ rpc' = "chunk"
    BY <1>2, <2>1 DEF Next, vars, receiver, LookForRoom, RefuseNotification, Refused, Accepts,
                      AcceptNotification, LookForChunk, MeasureChunk, ReceiveChunk, ReceiveFails, Notify,
                      Acquire, FindSample, CallBack, SkipSample, SampleEnds, Cleanup,
                      DispatcherListAdd, Emplaces, Emplace, Erases, Erase, Destroy, Join
  <2> QED
    BY <2>2 DEF Safe
<1> QED
  BY <1>1, <1>2

\* The invariant holds of every state of a behaviour.
LEMMA Inductive == Spec => []Safe
<1>1. Init => Safe
  BY InitInv DEF Init, Safe
<1> QED
  BY <1>1, NextSafe, PTL DEF Spec

\* The variables keep their types until a notification is taken for which there was no room: no field
\* count, and no count of the semaphore, drops below zero.
THEOREM TypesKept == Spec => [](~torn => TypeInv)
<1>1. Safe => (~torn => TypeInv)
  BY DEF Safe, IInv
<1> QED
  BY <1>1, Inductive, PTL

\* For every size of the ring: it holds what is written and not yet read of the notifications, in
\* order, whatever the receiver and the dispatcher's thread do at the same time and whatever sizes
\* and handles the samples have, until the receiver finds room by two values of the read pointer
\* that do not belong together (RingBuffer.h:16; WritesFit shows that it may).
THEOREM RingIsExact == Spec => []RingHoldsUnread
<1>1. Safe => RingHoldsUnread
  <2> SUFFICES ASSUME Safe, ~torn PROVE RingHoldsUnread
    BY DEF RingHoldsUnread
  <2> QED
    BY InvRing DEF Safe
<1> QED
  BY <1>1, Inductive, PTL

\* For every size of the ring: what is awaited, although the chunk was measured before the bytes
\* arrived, and by two loads of a read pointer that may wrap in between (RingBuffer.h:26), overwrites
\* nothing unread and does not run past the end of the array, if there was room for the notification.
THEOREM ChunksStayInside == Spec => []ChunksFit
<1>1. Safe => ChunksFit
  <2> SUFFICES ASSUME Safe, ~torn PROVE ChunksFit
    BY DEF ChunksFit
  <2> QED
    BY InvChunks DEF Safe
<1> QED
  BY <1>1, Inductive, PTL

\* Each callback is given the data of one sample of its handle, of the size asked for, and the
\* samples come in the order in which they were sent, each at most once, until a notification is taken
\* for which there was no room.
THEOREM CallbacksInOrder == Spec => []DeliveredAsSent
<1>1. Safe => DeliveredAsSent
  <2> SUFFICES ASSUME Safe, ~torn PROVE DeliveredAsSent
    BY DEF DeliveredAsSent
  <2> QED
    BY InvDelivered DEF Safe
<1> QED
  BY <1>1, Inductive, PTL
=============================================================================
