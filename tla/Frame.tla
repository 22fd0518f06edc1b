------------------------------- MODULE Frame -------------------------------
(***************************************************************************)
(* standalone/Frame.h and Frame.cpp: a buffer that is filled from its end  *)
(* by prepending and emptied from its front.  A cell stands for one field  *)
(* of a message; an offset of the code is a count of cells.                *)
(***************************************************************************)
EXTENDS Integers, Sequences

\* What new leaves in memory.
Junk == "junk"
Uninitialised(n) == [i \in 0..(n - 1) |-> Junk]

Smaller(a, b) == IF a < b THEN a ELSE b

\* A frame without data: everything is free, and free space is in front.
FrameOf(n) == [data |-> Uninitialised(n), pos |-> n, size |-> n, originalSize |-> n]

capacity(f) == f.size
size(f) == f.size - f.pos
content(f) == [k \in 1..size(f) |-> f.data[f.pos + k - 1]]

\* Cells copied over data from an offset on.
Copied(data, from, cells) ==
    [i \in DOMAIN data |-> IF i >= from /\ i - from < Len(cells) THEN cells[i - from + 1] ELSE data[i]]

\* Where the old content begins in the buffer that replaces one with too little space in front.
MovedTo(f, n) == f.pos + n

prepend(f, cells) ==
    LET n == Len(cells)
        grown == [data |-> Copied(Uninitialised(n + f.size), MovedTo(f, n), content(f)),
                  pos |-> f.pos, size |-> f.size + n, originalSize |-> f.size + n]
        roomy == [f EXCEPT !.pos = @ - n]
        g == IF n > f.pos THEN grown ELSE roomy
    IN [g EXCEPT !.data = Copied(@, g.pos, cells)]

limit(f, newSize) == [f EXCEPT !.size = Smaller(@, newSize), !.pos = 0]

\* reset to at least newSize cells; a buffer that is large enough keeps what is in it.
reset(f, newSize) ==
    IF newSize > f.originalSize THEN FrameOf(newSize)
    ELSE [f EXCEPT !.size = f.originalSize, !.pos = f.originalSize]

remove(f, n) == [f EXCEPT !.pos = Smaller(@ + n, f.size)]

\* The value pop returns: it compares with the capacity, which pops do not lower, and so reads
\* past the content of a frame that is used up.
Peek(f) ==
    CASE capacity(f) < 1 -> 0
      [] capacity(f) >= 1 /\ f.pos \in DOMAIN f.data -> f.data[f.pos]
      [] OTHER -> Junk
popped(f) == remove(f, 1)

\* A datagram received into the buffer: at most its capacity, from its start.
received(f, cells) ==
    limit([f EXCEPT !.data = Copied(@, 0, SubSeq(cells, 1, Smaller(Len(cells), f.size)))],
          Smaller(Len(cells), f.size))
=============================================================================
