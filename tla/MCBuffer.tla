------------------------------- MODULE MCBuffer -------------------------------
(* Buffer for TLC: strings of one and two bytes, so that an append or a readv *)
(* can fill the space left exactly, exceed it by one, and exceed it by two.   *)
EXTENDS BufferInts

MCBytes == {1, 2}
MCChunks == {<<1>>, <<2, 1>>}
MCLengths == 0..MaxSize
===============================================================================
