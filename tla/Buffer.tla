------------------------------- MODULE Buffer -------------------------------
(***************************************************************************)
(* net/Buffer.h and readFd of net/Buffer.cpp: the arithmetic of the two    *)
(* indices.  What the bytes are does not matter, only which bytes of the   *)
(* stream they are: the cell at index k holds byte k + shift of the stream *)
(* that went through the buffer.  Copying the content moves shift.         *)
(***************************************************************************)
EXTENDS Integers

CONSTANTS
  CheapPrepend,   \* kCheapPrepend
  InitialSize,    \* kInitialSize
  ExtraSize       \* sizeof extrabuf

ASSUME BufferAssumption ==
  /\ CheapPrepend \in Nat
  /\ InitialSize \in Nat
  /\ ExtraSize \in Nat

Buffers == [reader : Nat, writer : Nat, size : Nat, shift : Int]

EmptyBuffer ==
  [reader |-> CheapPrepend, writer |-> CheapPrepend,
   size |-> CheapPrepend + InitialSize, shift |-> -CheapPrepend]

Readable(b) == b.writer - b.reader
Writable(b) == b.size - b.writer
Prependable(b) == b.reader

\* The stream bytes at peek() and at beginWrite().
FirstByte(b) == b.reader + b.shift
NextByte(b) == b.writer + b.shift

-----------------------------------------------------------------------------

\* Both indices go back to the front; the next byte goes there.
RetrieveAll(b) ==
  [reader |-> CheapPrepend, writer |-> CheapPrepend, size |-> b.size,
   shift |-> NextByte(b) - CheapPrepend]

Retrieve(b, len) ==
  IF len > Readable(b) THEN b
  ELSE IF len < Readable(b) THEN [b EXCEPT !.reader = @ + len]
  ELSE RetrieveAll(b)

\* Mutant: the indices move, the bytes do not.
MakeSpaceInPlace(b, len) ==
  IF Writable(b) + Prependable(b) < len + CheapPrepend
    THEN [b EXCEPT !.size = b.writer + len]
    ELSE [b EXCEPT !.reader = CheapPrepend, !.writer = CheapPrepend + Readable(b)]

\* Grow, or move the content down when that frees enough.
MakeSpace(b, len) ==
  IF Writable(b) + Prependable(b) < len + CheapPrepend
    THEN [b EXCEPT !.size = b.writer + len]
  ELSE IF CheapPrepend >= b.reader THEN b
  ELSE [reader |-> CheapPrepend, writer |-> CheapPrepend + Readable(b),
        size |-> b.size, shift |-> FirstByte(b) - CheapPrepend]

EnsureWritable(b, len) == IF Writable(b) < len THEN MakeSpace(b, len) ELSE b

HasWritten(b, len) ==
  IF len > Writable(b) THEN b ELSE [b EXCEPT !.writer = @ + len]

AppendBytes(b, len) == HasWritten(EnsureWritable(b, len), len)

\* What one readv can bring: it uses extrabuf unless there is more room than
\* that in the buffer itself.
MaxRead(b) == Writable(b) + (IF Writable(b) < ExtraSize THEN ExtraSize ELSE 0)

\* Mutant: what went to extrabuf is counted as written.
ReadFdCountsAll(b, n) == [b EXCEPT !.writer = @ + n]

\* readFd of n > 0 bytes: first into the buffer, the rest through extrabuf.
ReadFd(b, n) ==
  IF n <= Writable(b)
    THEN [b EXCEPT !.writer = @ + n]
    ELSE AppendBytes([b EXCEPT !.writer = b.size], n - Writable(b))

-----------------------------------------------------------------------------
(* Properties.                                                             *)

\* The order of the indices on which every pointer into the vector depends.
BufferOK(b) ==
  /\ b \in Buffers
  /\ b.reader <= b.writer
  /\ b.writer <= b.size
  /\ CheapPrepend <= b.size

=============================================================================
