---------------------------- MODULE RingBuffer ----------------------------
(***************************************************************************)
(* The pointer arithmetic of standalone/RingBuffer.h.  The array has       *)
(* dataSize cells, one of which stays free; pointers are offsets into it.  *)
(*                                                                         *)
(* The writer's methods load the plain pointer read once to compare it and *)
(* once more to subtract it, while the reader's thread moves it: first and *)
(* second are the two values.  A size_t that drops below zero wraps.       *)
(***************************************************************************)
EXTENDS Integers, Sequences

CONSTANTS
    dataSize,    \* N + 1 of the constructor
    SizeSpace    \* of a size_t

ASSUME RingAssumption == dataSize \in Nat /\ dataSize > 1
ASSUME SizeAssumption == SizeSpace \in Nat /\ SizeSpace > dataSize

Offsets == 0..(dataSize - 1)

Increment(ptr, n) == (ptr + n) % dataSize

BytesFree(write, first, second) ==
    IF write < first THEN (second - write - 1) % SizeSpace ELSE dataSize - 1 - (write - second)

\* How much can be written from write on without a wrap.
\* A mutation: a chunk runs past the end of the array.
AnyFree(write, first, second) == BytesFree(write, first, second)
WriteChunk(write, first, second) ==
    IF write < first THEN (second - write - 1) % SizeSpace
    ELSE dataSize - write - (IF second = 0 THEN 1 ELSE 0)

\* The reader has wrapped between the two loads of read: the subtraction drops below zero.
Torn(write, first, second) == write < first /\ second <= write

\* What is free, and what is not, while nobody moves.
Free(write, read) == BytesFree(write, read, read)
BytesAvailable(write, read) == dataSize - Free(write, read) - 1

\* The array after cells were stored from write on.
Stored(data, write, cells) ==
    [i \in DOMAIN data |-> LET k == ((i - write) % dataSize) + 1
                           IN IF k <= Len(cells) THEN cells[k] ELSE data[i]]

\* The n cells from read on.
Held(data, read, n) == [k \in 1..n |-> data[Increment(read, k - 1)]]
=============================================================================
