--------------------------- MODULE MCTcpConnection ---------------------------
(* TcpConnection for TLC. *)
EXTENDS TcpConnection, TLC

CONSTANTS t1, t2

TwoThreads == {t1, t2}
NoThread == {}
AllCalls == Calls
NoCall == {}
OnlySend == {"send"}

Symmetry == Permutations(TwoThreads)
==============================================================================
