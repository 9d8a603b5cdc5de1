--------------------------- MODULE MCSeqLockCrash ---------------------------
(* A small instance of SeqLockCrash.                                        *)
EXTENDS SeqLockCrash, TLC

CONSTANTS w1, w2, t1, h1

TwoWords == {w1, w2}
OneThread == {t1}
OneHandle == {h1}
SoleHandle == t1 :> h1
=============================================================================
