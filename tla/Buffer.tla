-------------------------------- MODULE Buffer --------------------------------
(***************************************************************************)
(* ham/net/Buffer.{h,cc}: the growable byte buffer of a connection.        *)
(* A buffer value is a record: data is buffer_ (the vector, data[1] being  *)
(* index 0), r is readIndex_, w is writeIndex_.  Each member function is   *)
(* an operator from the buffer before to the buffer after; the             *)
(* specification below drives one buffer through them.                     *)
(***************************************************************************)
EXTENDS Integers, Sequences

CONSTANTS kInitialSize, kCheapPrepend,
          ExtraSize,   \* sizeof(extraBuf) in readFd
          Bytes,       \* what a caller or the kernel may put in the buffer
          Zero,        \* what vector's constructor and resize fill with
          Chunks,      \* the strings appended, prepended or received
          Lengths,     \* the lengths passed to retrieve, shrink, ensureWritableBytes
          MaxSize      \* bound: size of buffer_

ASSUME SizeAssumption ==
    /\ kInitialSize \in Nat
    /\ kCheapPrepend \in Nat
    /\ ExtraSize \in Nat
    /\ MaxSize \in Nat
ASSUME DataAssumption == Chunks \subseteq Seq(Bytes) /\ Lengths \subseteq Nat

readableBytes(b) == b.w - b.r
writableBytes(b) == Len(b.data) - b.w
prependableBytes(b) == b.r

\* [peek(), beginWrite()), as a string.
Readable(b) == [i \in 1..readableBytes(b) |-> b.data[b.r + i]]

\* The constructor.
NewBuffer == [data |-> [i \in 1..(kInitialSize + kCheapPrepend) |-> Zero],
              r |-> kCheapPrepend, w |-> kCheapPrepend]

\* std::copy of the string d to index `at'.
Copy(data, at, d) ==
    [i \in 1..Len(data) |-> IF at < i /\ i <= at + Len(d) THEN d[i - at] ELSE data[i]]

Resize(data, n) == [i \in 1..n |-> IF i <= Len(data) THEN data[i] ELSE Zero]

\* Seeded fault: the indices go back to 0, into the prepend area.
retrieveAll_ToZero(b) == [b EXCEPT !.r = 0, !.w = 0]

retrieveAll(b) == [b EXCEPT !.r = kCheapPrepend, !.w = kCheapPrepend]

retrieve(b, len) ==
    IF len < readableBytes(b) THEN [b EXCEPT !.r = @ + len] ELSE retrieveAll(b)

\* Seeded fault: the prepend area is counted as room.
MustGrow_WholeFront(b, len) == writableBytes(b) + prependableBytes(b) < len

\* The spare room, less the prepend area, is too small for len bytes.
MustGrow(b, len) == writableBytes(b) + prependableBytes(b) < len + kCheapPrepend

\* makeSpace: grow, or move the readable bytes back to kCheapPrepend.
makeSpace(b, len) ==
    IF MustGrow(b, len)
    THEN [b EXCEPT !.data = Resize(b.data, b.w + len)]
    ELSE [data |-> Copy(b.data, kCheapPrepend, Readable(b)),
          r |-> kCheapPrepend, w |-> kCheapPrepend + readableBytes(b)]

ensureWritableBytes(b, len) ==
    IF writableBytes(b) < len THEN makeSpace(b, len) ELSE b

\* std::copy(data, data + len, beginWrite()); hasWritten(len).
WriteAtEnd(b, d) == [data |-> Copy(b.data, b.w, d), r |-> b.r, w |-> b.w + Len(d)]

append(b, d) == WriteAtEnd(ensureWritableBytes(b, Len(d)), d)

prepend(b, d) == [data |-> Copy(b.data, b.r - Len(d), d), r |-> b.r - Len(d), w |-> b.w]

\* shrink: copy into a fresh buffer with room for `reserve' more, and swap.
shrink(b, reserve) ==
    append(ensureWritableBytes(NewBuffer, readableBytes(b) + reserve), Readable(b))

\* Seeded fault: the bytes received in extraBuf are forgotten.
readFd_NoExtra(b, d) ==
    WriteAtEnd(b, IF Len(d) <= writableBytes(b) THEN d ELSE SubSeq(d, 1, writableBytes(b)))

\* readFd: readv fills the writable space first and extraBuf with the rest,
\* which is then appended.  d is what the kernel hands over.
readFd(b, d) ==
    IF Len(d) <= writableBytes(b) THEN WriteAtEnd(b, d)
    ELSE append(WriteAtEnd(b, SubSeq(d, 1, writableBytes(b))),
                SubSeq(d, writableBytes(b) + 1, Len(d)))

--------------------------------------------------------------------------------
VARIABLES buf,        \* the buffer
          returned    \* what the last retrieveAsString returned

bufferVars == <<buf, returned>>

BufferInit == buf = NewBuffer /\ returned = << >>

\* The bound on the vector's size.
Fits(b) == Len(b.data) <= MaxSize

Append_(d) ==
    /\ buf' = append(buf, d) /\ Fits(buf')
    /\ UNCHANGED returned

\* Its callers respect the assertion len <= prependableBytes().
Prepend(d) ==
    /\ Len(d) <= prependableBytes(buf)
    /\ buf' = prepend(buf, d)
    /\ UNCHANGED returned

\* Also retrieveUtil, whose end pointer is len bytes after peek().
Retrieve(len) ==
    /\ len <= readableBytes(buf)
    /\ buf' = retrieve(buf, len)
    /\ UNCHANGED returned

RetrieveAsString(len) ==
    /\ len <= readableBytes(buf)
    /\ returned' = SubSeq(Readable(buf), 1, len)
    /\ buf' = retrieve(buf, len)

EnsureWritableBytes(len) ==
    /\ buf' = ensureWritableBytes(buf, len) /\ Fits(buf')
    /\ UNCHANGED returned

Shrink(reserve) ==
    /\ buf' = shrink(buf, reserve) /\ Fits(buf')
    /\ UNCHANGED returned

\* A failed readv (n < 0) leaves the buffer alone.
ReadFd(d) ==
    /\ Len(d) <= writableBytes(buf) + ExtraSize
    /\ buf' = readFd(buf, d) /\ Fits(buf')
    /\ UNCHANGED returned

BufferNext ==
    \/ \E d \in Chunks : Append_(d) \/ Prepend(d) \/ ReadFd(d)
    \/ \E n \in Lengths : \/ Retrieve(n) \/ RetrieveAsString(n)
                          \/ EnsureWritableBytes(n) \/ Shrink(n)

BufferSpec == BufferInit /\ [][BufferNext]_bufferVars

--------------------------------------------------------------------------------
(* Properties.                                                             *)

IsBuffer(b) ==
    /\ b \in [data : Seq(Bytes \cup {Zero}), r : Nat, w : Nat]
    /\ b.r <= b.w /\ b.w <= Len(b.data)
    /\ kCheapPrepend <= b.w /\ Readable(b) \in Seq(Bytes)

\* The indices stay ordered inside the vector, the write index never falls
\* below the prepend area, and the readable part holds only bytes that were put
\* there, never the vector's fill (Buffer.h:31-36).
BufferOK == IsBuffer(buf) /\ returned \in Seq(Bytes)

\* The assertions of makeSpace and ensureWritableBytes hold for every length a
\* caller may ask for, even when prepend() has moved readIndex_ below kCheapPrepend:
\* bytes move only to the left, so the forward std::copy at Buffer.cc:277 is
\* defined (kCheapPrepend < readIndex_), and the room promised at 189 is there.
SpaceAssertionsHold ==
    \A len \in Lengths :
        /\ writableBytes(buf) < len /\ ~MustGrow(buf, len) => kCheapPrepend < buf.r
        /\ writableBytes(ensureWritableBytes(buf, len)) >= len

\* A buffer is a byte queue: growing, moving the bytes to the front, shrinking and
\* the two-part readv never lose, duplicate or reorder a byte.
Queue == INSTANCE ByteQueue WITH content <- Readable(buf)
ImplementsByteQueue == Queue!Spec
================================================================================
