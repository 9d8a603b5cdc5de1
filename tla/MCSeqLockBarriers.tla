-------------------------- MODULE MCSeqLockBarriers --------------------------
(* Small instances of SeqLockBarriers.                                      *)
EXTENDS SeqLockBarriers, TLC

OneThread == {"t1"}
OneHandle == {"h1"}
TwoWords == {"w1", "w2"}
SoleHandle == "t1" :> "h1"
=============================================================================
