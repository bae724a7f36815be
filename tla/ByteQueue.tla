------------------------------ MODULE ByteQueue ------------------------------
(***************************************************************************)
(* What a Buffer promises its users: a byte string that grows at either    *)
(* end and is consumed from the front.                                     *)
(***************************************************************************)
EXTENDS Naturals, Sequences

CONSTANTS Chunks,    \* the strings put in
          Lengths    \* the lengths taken out

VARIABLES content,    \* the readable bytes
          returned    \* the string the last retrieveAsString handed out

Init == content = << >> /\ returned = << >>

PutBack(d) == content' = content \o d /\ UNCHANGED returned

PutFront(d) == content' = d \o content /\ UNCHANGED returned

Discard(n) ==
    /\ n <= Len(content)
    /\ content' = SubSeq(content, n + 1, Len(content))
    /\ UNCHANGED returned

Take(n) ==
    /\ n <= Len(content)
    /\ returned' = SubSeq(content, 1, n)
    /\ content' = SubSeq(content, n + 1, Len(content))

Next == \/ \E d \in Chunks : PutBack(d) \/ PutFront(d)
        \/ \E n \in Lengths : Discard(n) \/ Take(n)

Spec == Init /\ [][Next]_<<content, returned>>
==============================================================================
