----------------------------- MODULE LatestEntry -----------------------------
(***************************************************************************)
(* What ipc_read and ipc_write promise, without the sequence lock: one      *)
(* writer publishes messages 1, 2, 3, ...; a reader that asks gets, in one  *)
(* indivisible step between its call and its return, the newest published  *)
(* message, whole, and is told whether that message is new to it.           *)
(* Message 0 is the zero-filled memory of a topic nobody has written yet.  *)
(***************************************************************************)
EXTENDS Naturals

CONSTANTS Words,    \* the pieces a message is copied in
          Readers   \* each with a reader object of its own

VARIABLES latest,   \* number of the newest published message
          seen,     \* what the reader's object has last been given
          phase,    \* "idle", "called" (inside ipc_read), "read" (answer fixed)
          got,      \* the entry handed to the reader
          outcome   \* "ok", "ENOMSG", "EAGAIN"; "none" until the answer is fixed

vars == <<latest, seen, phase, got, outcome>>

Whole(n) == [w \in Words |-> n]

Init ==
  /\ latest = 0
  /\ seen = [r \in Readers |-> Whole(0)]
  /\ phase = [r \in Readers |-> "idle"]
  /\ got = [r \in Readers |-> Whole(0)]
  /\ outcome = [r \in Readers |-> "none"]

Publish ==
  /\ latest' = latest + 1
  /\ UNCHANGED <<seen, phase, got, outcome>>

Call(r) ==
  /\ phase[r] = "idle"
  /\ phase' = [phase EXCEPT ![r] = "called"]
  /\ got' = [got EXCEPT ![r] = Whole(0)]
  /\ outcome' = [outcome EXCEPT ![r] = "none"]
  /\ UNCHANGED <<latest, seen>>

Verdict(r) ==
  IF Whole(latest) # seen[r] THEN "ok"
  ELSE IF latest = 0 THEN "ENOMSG" ELSE "EAGAIN"

Read(r) ==
  /\ phase[r] = "called"
  /\ phase' = [phase EXCEPT ![r] = "read"]
  /\ got' = [got EXCEPT ![r] = Whole(latest)]
  /\ outcome' = [outcome EXCEPT ![r] = Verdict(r)]
  /\ seen' = [seen EXCEPT ![r] = Whole(latest)]
  /\ UNCHANGED latest

Return(r) ==
  /\ phase[r] = "read"
  /\ phase' = [phase EXCEPT ![r] = "idle"]
  /\ UNCHANGED <<latest, seen, got, outcome>>

\* The reader drops its reader object, or its process restarts.
Reopen(r) ==
  /\ phase[r] = "idle"
  /\ seen' = [seen EXCEPT ![r] = Whole(0)]
  /\ UNCHANGED <<latest, phase, got, outcome>>

Next ==
  \/ Publish
  \/ \E r \in Readers : Call(r) \/ Read(r) \/ Return(r) \/ Reopen(r)

Spec == Init /\ [][Next]_vars
=============================================================================
