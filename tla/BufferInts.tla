------------------------------ MODULE BufferInts ------------------------------
(***************************************************************************)
(* The integers of ham/net/Buffer.{h,cc} and the byte order of             *)
(* ham/net/Endian.h, on top of Buffer.  An integer of k bytes is signed,   *)
(* in two's complement, and lies in a little-endian host's memory with its *)
(* lowest byte first; a byte has Base values.                              *)
(***************************************************************************)
EXTENDS Buffer, SequencesExt

CONSTANTS Base,   \* 256 in the code
          Widths  \* sizeof of the integers used

ASSUME BaseAssumption == Base \in Nat \ {0} /\ Base % 2 = 0 /\ Widths \subseteq Nat \ {0}

\* intN_t.
Ints(k) == -(Base^k \div 2) .. (Base^k \div 2) - 1

\* An integer's bytes in memory, and the integer in k bytes of memory.
HostBytes(x, k) == [i \in 1..k |-> ((x % Base^k) \div Base^(i - 1)) % Base]
HostInt(s) ==
    LET k == Len(s)
        u == FoldLeftDomain(LAMBDA sum, i : sum + s[i] * Base^(i - 1), 0, s)
    IN  IF u < Base^k \div 2 THEN u ELSE u - Base^k

\* htobeN and beNtoh on a little-endian host.
hostToNetwork(s) == Reverse(s)
networkToHost(s) == Reverse(s)

\* Seeded fault: the host's order goes out.
appendInt_HostOrder(b, x, k) == append(b, HostBytes(x, k))

appendInt(b, x, k) == append(b, hostToNetwork(HostBytes(x, k)))

peekInt(b, k) == HostInt(networkToHost(SubSeq(Readable(b), 1, k)))
retrieveInt(b, k) == retrieve(b, k)

\* readInt: its result and the buffer it leaves.
readInt(b, k) == [res |-> peekInt(b, k), buf |-> retrieveInt(b, k)]

--------------------------------------------------------------------------------
\* An integer appended to any buffer goes behind what is readable, highest byte first
\* (in network byte order, Buffer.h:47), and is read back as the number it was,
\* negative ones and the extremes included, with nothing left (Buffer.cc:61-141).
IntegersReturn ==
    \A k \in Widths : \A x \in Ints(k) :
        LET n == readableBytes(buf)
            b == appendInt(buf, x, k)
            got == readInt(retrieve(b, n), k)
        IN  /\ SubSeq(Readable(b), 1, n) = Readable(buf)
            /\ Readable(b)[n + 1] = (x % Base^k) \div Base^(k - 1)
            /\ got.res = x /\ readableBytes(got.buf) = 0
================================================================================
