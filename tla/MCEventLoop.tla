----------------------------- MODULE MCEventLoop -----------------------------
(* EventLoop for TLC: two foreign threads, three functors, one other channel. *)
EXTENDS EventLoop

CONSTANTS t1, t2, f1, f2, f3, c1

MCThreads == {t1, t2}
MCFunctors == {f1, f2, f3}
MCChannels == {c1}
==============================================================================
