------------------------------ MODULE MCSeqLock ------------------------------
(* Small instances of SeqLock.                                              *)
EXTENDS SeqLock, TLC

CONSTANTS w1, w2, t1, t2, h1, h2

TwoWords == {w1, w2}
TwoThreads == {t1, t2}
OneThread == {t1}
TwoHandles == {h1, h2}
OneHandle == {h1}

\* One reader object per thread, as create_ipc_reader makes them.
OwnHandle == (t1 :> h1) @@ (t2 :> h2)
SoleHandle == t1 :> h1
=============================================================================
