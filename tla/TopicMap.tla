------------------------------- MODULE TopicMap -------------------------------
(***************************************************************************)
(* What the callers of ipc_read, ipc_write, ipc_rtid_read and               *)
(* ipc_rtid_write are promised: whatever the spelling of an id, what is      *)
(* written to a topic is read from it, and every reader is told each        *)
(* message is new exactly once.                                             *)
(***************************************************************************)
EXTENDS Integers

CONSTANTS
  Topics,
  Readers,    \* each remembers how far it has read in every topic
  MaxWrites   \* bound: messages per topic

VARIABLES
  published,  \* messages written to each topic
  seen,       \* the newest of them each reader was given
  answer      \* what the last read returned to whom

vars == <<published, seen, answer>>

NoAnswer == [reader |-> <<>>, rc |-> "none", message |-> 0]

Init ==
  /\ published = [tp \in Topics |-> 0]
  /\ seen = [r \in Readers |-> [tp \in Topics |-> 0]]
  /\ answer = NoAnswer

Write(tp) ==
  /\ published[tp] < MaxWrites
  /\ published' = [published EXCEPT ![tp] = @ + 1]
  /\ UNCHANGED <<seen, answer>>

Verdict(r, tp) ==
  IF seen[r][tp] # published[tp] THEN "ok"
  ELSE IF published[tp] = 0 THEN "ENOMSG" ELSE "EAGAIN"

Read(r, tp) ==
  /\ answer' = [reader |-> r, rc |-> Verdict(r, tp), message |-> published[tp]]
  /\ seen' = [seen EXCEPT ![r][tp] = published[tp]]
  /\ UNCHANGED published

Next ==
  \/ \E tp \in Topics : Write(tp)
  \/ \E r \in Readers, tp \in Topics : Read(r, tp)

Spec == Init /\ [][Next]_vars
=============================================================================
