------------------------------ MODULE GodProofs ------------------------------
(* Proofs about God, for every table of children and every number of errors. *)
EXTENDS God, FiniteSetTheorems, TLAPS

USE GodAssumption DEF GodAssumption, Children, Pids

\* The stages of main() and the handlers, and what they mean for the table.
ControlInv ==
  /\ child_at # "idle" => at = "pause"
  /\ on_chld = "handler" => at = "pause"
  /\ frame.stage # "none" => frame.c \in Children /\ ~alive[frame.c]
  /\ frame.stage # "none" /\ at = "spawn" => frame.c < next
  /\ frame.stage # "none" /\ at # "spawn" => frame.c = index
  /\ at = "spawn" => \A c \in Children : c >= next => ~alive[c]
  /\ child_at \in {"decide", "decrement"} => index \in Children
  /\ child_at = "decide" => ~alive[index]
  /\ frame.stage = "none" => frame = NoFrame

\* Whose process a number is.
ProcessInv ==
  /\ \A p \in Pids : p > forks => life[p] = "none" /\ of[p] = 0
  /\ \A p \in Pids : of[p] # 0 => p <= forks
  /\ \A c \in Children : pid[c] # 0 => of[pid[c]] = c
  /\ frame.stage \in {"pid", "alive"} => frame.p \in Pids /\ of[frame.p] = frame.c
  /\ frame.stage = "alive" => pid[frame.c] = frame.p
  /\ got # NoPid => life[got] = "gone"
  /\ child_at \in {"decide", "decrement"} => got # NoPid

\* What becomes of the starts a child still has.
Due(c) ==
  respawn[c]
  + (IF at = "spawn" /\ (c >= next \/ (frame.stage = "fork" /\ frame.c = c)) THEN 1 ELSE 0)
  - (IF child_at = "decrement" /\ index = c /\ frame.stage # "fork" THEN 1 ELSE 0)

BudgetInv ==
  \A c \in Children : Respawn[c] >= 0 =>
    /\ respawn[c] >= 0
    /\ child_at = "decrement" /\ index = c => respawn[c] > 0
    /\ Starts(c) + Due(c) <= 1 + Respawn[c]

IInv == TypeOK /\ ControlInv /\ ProcessInv /\ RunningIsKnown /\ BudgetInv

-----------------------------------------------------------------------------
(* Type correctness.                                                        *)

\* The initial state has its types.
LEMMA InitTypeOK == Init => TypeOK
  BY DEF Init, TypeOK, NoFrame, NoPid, Statuses

\* A pid in use is a pid.
LEMMA PidIsAPid ==
  ASSUME TypeOK, NEW c \in Children
  PROVE  pid[c] # NoPid
  <1>1. pid[c] \in {0} \cup Pids
    BY DEF TypeOK
  <1> QED
    BY <1>1 DEF NoPid

\* Every step keeps the types.
LEMMA TypeStep == TypeOK /\ [Next]_vars => TypeOK'
  <1> SUFFICES ASSUME TypeOK, [Next]_vars
               PROVE  TypeOK'
    OBVIOUS
  <1> USE DEF TypeOK, NoFrame, Statuses, table, main, handler, exiting, dispo, kernel
  <1>1. CASE Fork
    <2>1. life' \in [Pids -> {"none", "running", "zombie", "gone"}]
      BY <1>1 DEF Fork
    <2>2. of' \in [Pids -> {0} \cup Children]
      BY <1>1 DEF Fork
    <2>3. forks' \in 0..(N + MaxErrors)
      BY <1>1 DEF Fork
    <2>4. frame' \in [stage : {"none", "fork", "pid", "alive"},
                      c : {0} \cup Children, p : {0} \cup Pids]
      <3>1. CASE frame' = NoFrame
        BY <3>1
      <3>2. CASE frame' = [frame EXCEPT !.stage = "pid", !.p = forks + 1] /\ forks + 1 \in Pids
        BY <3>2
      <3> QED
        BY <1>1, <3>1, <3>2 DEF Fork
    <2>5. at = "spawn" \/ child_at = "decrement"
      BY <1>1 DEF Fork
    <2>6. UNCHANGED <<table, god, top, main, handler, exiting, dispo, pending,
                      ended, told, errors>>
      BY <1>1 DEF Fork
    <2> QED
      BY <2>1, <2>2, <2>3, <2>4, <2>5, <2>6
  <1>2. CASE StorePid
    BY <1>2 DEF StorePid, Runs, Caller
  <1>3. CASE StoreAlive
    <2>1. alive' \in [Children -> BOOLEAN]
      BY <1>3 DEF StoreAlive
    <2>2. frame'.stage = "none" /\ frame' \in [stage : {"none", "fork", "pid", "alive"},
                      c : {0} \cup Children, p : {0} \cup Pids]
      BY <1>3 DEF StoreAlive
    <2> QED
      BY <1>3, <2>1, <2>2 DEF StoreAlive
  <1>4. CASE Spawn
    BY <1>4 DEF Spawn, Runs, Enter
  <1>5. CASE SignalInt
    BY <1>5 DEF SignalInt, Runs
  <1>6. CASE SignalChld
    BY <1>6 DEF SignalChld, Runs
  <1>7. CASE Interrupt
    BY <1>7 DEF Interrupt
  <1>8. CASE DeliverInt
    BY <1>8 DEF DeliverInt
  <1>9. CASE DeliverChld
    BY <1>9 DEF DeliverChld, ChldBlocked
  <1>10. CASE Reap
    BY <1>10 DEF Reap, Runs, Zombies
  <1>11. CASE MarkDead
    <2>1. alive' \in [Children -> BOOLEAN]
      BY <1>11 DEF MarkDead
    <2>2. child_at' \in {"idle", "decide"} /\ index' \in {0} \cup Children
      BY <1>11 DEF MarkDead, Return
    <2>3. /\ top' \in {"main", "child", "exit"}
          /\ top' = "main" <=> child_at' = "idle" /\ exit_at = "idle"
      BY <1>11 DEF MarkDead, Runs, Return
    <2> QED
      BY <1>11, <2>1, <2>2, <2>3 DEF MarkDead
  <1>12. CASE Decide
    BY <1>12 DEF Decide, Runs, Return, Enter
  <1>13. CASE Decrement
    <2>1. respawn' \in [Children -> Int]
      <3>1. \A c \in Children : respawn[c] - 1 \in Int
        OBVIOUS
      <3> QED
        BY <1>13, <3>1 DEF Decrement
    <2>2. /\ child_at' = "idle"
          /\ top' \in {"main", "exit"}
          /\ top' = "main" <=> exit_at = "idle"
          /\ frame.stage = "none"
      BY <1>13 DEF Decrement, Return
    <2> QED
      BY <1>13, <2>1, <2>2 DEF Decrement
  <1>14. CASE IgnoreChld
    BY <1>14 DEF IgnoreChld, Runs
  <1>15. CASE Kill
    <2>1. told' \in [Pids -> BOOLEAN]
      BY <1>15 DEF Kill
    <2>2. i' \in 1..(N + 1) /\ god' \in {"running", "exited", "aborted", "killed"}
      BY <1>15 DEF Kill
    <2> QED
      BY <1>15, <2>1, <2>2 DEF Kill
  <1>16. CASE Exit
    BY <1>16 DEF Exit, Runs
  <1>17. ASSUME NEW p \in Pids, NEW s \in Statuses, Die(p, s)
         PROVE  TypeOK'
    <2>1. life' \in [Pids -> {"none", "running", "zombie", "gone"}]
      BY <1>17 DEF Die
    <2>2. ended' \in [Pids -> Statuses]
      BY <1>17 DEF Die
    <2>3. errors' \in 0..MaxErrors
      BY <1>17 DEF Die
    <2>4. pending' \in SUBSET {"INT", "CHLD"}
      BY <1>17 DEF Die
    <2> QED
      BY <1>17, <2>1, <2>2, <2>3, <2>4 DEF Die
  <1>18. CASE UNCHANGED vars
    BY <1>18 DEF vars
  <1> QED
    BY <1>1, <1>2, <1>3, <1>4, <1>5, <1>6, <1>7, <1>8, <1>9, <1>10, <1>11, <1>12,
       <1>13, <1>14, <1>15, <1>16, <1>17, <1>18
    DEF Next, GodStep, ChildHandlerStep, ExitHandlerStep

-----------------------------------------------------------------------------
(* Control.                                                                 *)

\* Every step keeps the control part of the invariant.
LEMMA ControlStep == TypeOK /\ ControlInv /\ [Next]_vars => ControlInv'
  <1> SUFFICES ASSUME TypeOK, ControlInv, [Next]_vars
               PROVE  ControlInv'
    OBVIOUS
  <1>1. CASE Fork
    <2>1. \/ frame' = NoFrame
          \/ frame.stage # "none" /\ frame'.stage = "pid" /\ frame'.c = frame.c
      BY <1>1 DEF Fork, TypeOK
    <2>2. UNCHANGED <<alive, at, next, child_at, index, on_chld>>
      BY <1>1 DEF Fork, table, main, handler, dispo
    <2> QED
      BY <2>1, <2>2 DEF ControlInv, NoFrame
  <1>2. CASE StorePid
    BY <1>2 DEF StorePid, ControlInv, TypeOK, main, handler, dispo
  <1>3. CASE StoreAlive
    <2>1. at = "spawn" => frame.c < next
      BY <1>3 DEF StoreAlive, ControlInv
    <2>2. child_at # "decide"
      BY <1>3 DEF StoreAlive, TypeOK, ControlInv
    <2>3. frame' = NoFrame /\ alive' = [alive EXCEPT ![frame.c] = TRUE]
      BY <1>3 DEF StoreAlive
    <2>4. UNCHANGED <<at, next, child_at, index, on_chld>>
      BY <1>3 DEF StoreAlive, main, handler, dispo
    <2>5. at = "spawn" => \A c \in Children : c >= next => ~alive'[c]
      BY <2>1, <2>3 DEF ControlInv, TypeOK
    <2> QED
      BY <2>2, <2>3, <2>4, <2>5 DEF ControlInv, NoFrame
  <1>4. CASE Spawn
    <2>1. UNCHANGED <<alive, child_at, index, on_chld>> /\ at = "spawn"
      BY <1>4 DEF Spawn, table, handler, dispo
    <2>2. CASE next <= N /\ Enter(next) /\ next' = next + 1 /\ UNCHANGED at
      <3>1. next \in Children /\ ~alive[next]
        BY <2>1, <2>2 DEF ControlInv, TypeOK
      <3>2. frame' = [stage |-> "fork", c |-> next, p |-> 0]
        BY <2>2 DEF Enter
      <3> QED
        BY <2>1, <2>2, <3>1, <3>2 DEF ControlInv
    <2>3. CASE at' = "signal_int" /\ UNCHANGED <<next, frame>> /\ frame = NoFrame
      BY <2>1, <2>3 DEF ControlInv, NoFrame
    <2> QED
      BY <1>4, <2>2, <2>3 DEF Spawn
  <1>5. CASE SignalInt \/ SignalChld
    <2>1. child_at = "idle" /\ frame.stage = "none"
      BY <1>5 DEF SignalInt, SignalChld, ControlInv, TypeOK
    <2> QED
      BY <1>5, <2>1 DEF SignalInt, SignalChld, ControlInv, table, handler
  <1>6. CASE Interrupt \/ DeliverInt \/ Kill \/ Exit \/ \E p \in Pids, s \in Statuses : Die(p, s)
    BY <1>6 DEF Interrupt, DeliverInt, Kill, Exit, Die, ControlInv, table, main, handler, dispo
  <1>7. CASE DeliverChld
    <2>1. child_at = "idle"
      BY <1>7 DEF DeliverChld, ChldBlocked
    <2> QED
      BY <1>7, <2>1 DEF DeliverChld, ControlInv, table, main, dispo
  <1>8. CASE Reap
    BY <1>8 DEF Reap, ControlInv, table, main, dispo
  <1>9. CASE MarkDead
    <2>1. frame.stage = "none" /\ at = "pause"
      BY <1>9 DEF MarkDead, TypeOK, ControlInv
    <2>2. \/ \E c \in Children : index' = c /\ ~alive'[c] /\ child_at' = "decide"
          \/ child_at' = "idle"
      BY <1>9 DEF MarkDead, Return, TypeOK
    <2>3. UNCHANGED <<at, next, frame, on_chld>>
      BY <1>9 DEF MarkDead, main, dispo
    <2> QED
      BY <2>1, <2>2, <2>3 DEF ControlInv
  <1>10. CASE Decide
    <2>1. at = "pause" /\ index \in Children /\ ~alive[index]
      BY <1>10 DEF Decide, ControlInv
    <2>2. \/ frame' = [stage |-> "fork", c |-> index, p |-> 0] /\ child_at' = "decrement"
          \/ UNCHANGED frame /\ child_at' = "idle" /\ frame.stage = "none"
      BY <1>10 DEF Decide, Enter, Return, TypeOK, ControlInv
    <2>3. UNCHANGED <<alive, at, next, index, on_chld>>
      BY <1>10 DEF Decide, table, main, dispo
    <2> QED
      BY <2>1, <2>2, <2>3 DEF ControlInv
  <1>11. CASE Decrement
    BY <1>11 DEF Decrement, Return, ControlInv, NoFrame, main, dispo
  <1>12. CASE IgnoreChld
    BY <1>12 DEF IgnoreChld, ControlInv, table, main, handler
  <1>13. CASE UNCHANGED vars
    BY <1>13 DEF vars, ControlInv, table, main, handler, dispo
  <1> QED
    BY <1>1, <1>2, <1>3, <1>4, <1>5, <1>6, <1>7, <1>8, <1>9, <1>10, <1>11, <1>12, <1>13
    DEF Next, GodStep, ChildHandlerStep, ExitHandlerStep

-----------------------------------------------------------------------------
(* Processes.                                                               *)

\* Every step keeps what the table says of processes.
LEMMA ProcessStep == TypeOK /\ ControlInv /\ ProcessInv /\ [Next]_vars => ProcessInv'
  <1> SUFFICES ASSUME TypeOK, ControlInv, ProcessInv, [Next]_vars
               PROVE  ProcessInv'
    OBVIOUS
  <1>1. CASE Fork
    <2> DEFINE p == forks + 1
    <2>1. UNCHANGED <<pid, child_at, got>>
      BY <1>1 DEF Fork, table, handler
    <2>2. CASE frame' = NoFrame /\ UNCHANGED <<forks, life, of>>
      BY <2>1, <2>2 DEF ProcessInv, NoFrame
    <2>3. CASE /\ p \in Pids
               /\ forks' = p
               /\ life' = [life EXCEPT ![p] = "running"]
               /\ of' = [of EXCEPT ![p] = frame.c]
               /\ frame' = [frame EXCEPT !.stage = "pid", !.p = p]
      <3>1. frame'.stage = "pid" /\ frame'.p = p /\ frame'.c = frame.c
        BY <2>3 DEF TypeOK
      <3>2. of[p] = 0 /\ life[p] = "none"
        BY <2>3 DEF ProcessInv, TypeOK
      <3>3. \A q \in Pids : q > p => life'[q] = "none" /\ of'[q] = 0
        BY <2>3 DEF ProcessInv, TypeOK
      <3>4. \A q \in Pids : of'[q] # 0 => q <= p
        BY <2>3 DEF ProcessInv, TypeOK
      <3>5. \A c \in Children : pid[c] # 0 => of'[pid[c]] = c
        <4> SUFFICES ASSUME NEW c \in Children, pid[c] # 0
                     PROVE  of'[pid[c]] = c
          OBVIOUS
        <4>1. pid[c] \in Pids /\ of[pid[c]] = c /\ c # 0
          BY DEF ProcessInv, TypeOK
        <4>2. pid[c] # p
          BY <3>2, <4>1
        <4> QED
          BY <2>3, <4>1, <4>2 DEF TypeOK
      <3>6. of'[p] = frame.c
        BY <2>3 DEF TypeOK
      <3>7. got # NoPid => life'[got] = "gone"
        <4>1. got # NoPid => got # p
          BY <3>2 DEF ProcessInv
        <4> QED
          BY <2>3, <4>1 DEF ProcessInv, TypeOK
      <3> QED
        BY <2>1, <2>3, <3>1, <3>3, <3>4, <3>5, <3>6, <3>7 DEF ProcessInv
    <2> QED
      BY <1>1, <2>2, <2>3 DEF Fork
  <1>2. CASE StorePid
    <2>1. frame.c \in Children /\ frame.p \in Pids /\ of[frame.p] = frame.c
      BY <1>2 DEF StorePid, ControlInv, ProcessInv
    <2>2. /\ pid' = [pid EXCEPT ![frame.c] = frame.p]
          /\ frame'.stage = "alive" /\ frame'.c = frame.c /\ frame'.p = frame.p
          /\ UNCHANGED <<life, of, forks, child_at, got>>
      BY <1>2 DEF StorePid, TypeOK, handler, kernel
    <2>3. \A c \in Children : pid'[c] # 0 => of[pid'[c]] = c
      BY <2>1, <2>2 DEF ProcessInv, TypeOK
    <2>4. pid'[frame.c] = frame.p
      BY <2>1, <2>2 DEF TypeOK
    <2> QED
      BY <2>1, <2>2, <2>3, <2>4 DEF ProcessInv
  <1>3. CASE StoreAlive
    BY <1>3 DEF StoreAlive, ProcessInv, NoFrame, handler, kernel
  <1>4. CASE Spawn
    <2>1. frame'.stage \in {"none", "fork"}
      BY <1>4 DEF Spawn, Enter, NoFrame
    <2> QED
      BY <1>4, <2>1 DEF Spawn, ProcessInv, table, handler, kernel
  <1>5. CASE SignalInt \/ SignalChld \/ Interrupt \/ DeliverInt \/ IgnoreChld \/ Kill \/ Exit
    BY <1>5 DEF SignalInt, SignalChld, Interrupt, DeliverInt, IgnoreChld, Kill, Exit,
         ProcessInv, table, handler, kernel
  <1>6. CASE DeliverChld
    BY <1>6 DEF DeliverChld, ProcessInv, table, kernel
  <1>7. CASE Reap
    <2>1. UNCHANGED <<pid, frame, forks, of>> /\ child_at' \in {"reap", "find"}
      BY <1>7 DEF Reap, table
    <2>2. \/ UNCHANGED <<life, got>>
          \/ \E p \in Pids : /\ life[p] = "zombie"
                             /\ life' = [life EXCEPT ![p] = "gone"]
                             /\ got' = p
      BY <1>7 DEF Reap, Zombies
    <2>3. \A p \in Pids : p > forks => life'[p] = "none"
      BY <2>2 DEF ProcessInv, TypeOK
    <2>4. got' # NoPid => life'[got'] = "gone"
      BY <2>2 DEF ProcessInv, TypeOK
    <2> QED
      BY <2>1, <2>3, <2>4 DEF ProcessInv
  <1>8. CASE MarkDead
    <2>1. UNCHANGED <<pid, frame, forks, of, life, got>>
      BY <1>8 DEF MarkDead, kernel
    <2>2. child_at' = "decide" => got # NoPid
      <3>1. child_at' = "decide" => \E c \in Children : pid[c] = got
        BY <1>8 DEF MarkDead, Return, Found
      <3> QED
        BY <3>1, PidIsAPid
    <2>3. child_at' # "decrement"
      BY <1>8 DEF MarkDead, Return
    <2> QED
      BY <2>1, <2>2, <2>3 DEF ProcessInv
  <1>9. CASE Decide
    <2>1. frame'.stage \in {"none", "fork"}
      BY <1>9 DEF Decide, Enter, TypeOK, ControlInv
    <2>2. UNCHANGED <<pid, forks, of, life, got>> /\ got # NoPid
      BY <1>9 DEF Decide, ProcessInv, table, kernel
    <2> QED
      BY <2>1, <2>2 DEF ProcessInv
  <1>10. CASE Decrement
    BY <1>10 DEF Decrement, Return, ProcessInv, kernel
  <1>11. ASSUME NEW p \in Pids, NEW s \in Statuses, Die(p, s)
         PROVE  ProcessInv'
    <2>1. /\ life[p] = "running"
          /\ life' \in {[life EXCEPT ![p] = "zombie"], [life EXCEPT ![p] = "gone"]}
          /\ UNCHANGED <<pid, frame, forks, of, child_at, got>>
      BY <1>11 DEF Die, table, handler
    <2>2. \A q \in Pids : q > forks => life'[q] = "none"
      BY <2>1 DEF ProcessInv, TypeOK
    <2>3. got # NoPid => life'[got] = "gone"
      BY <2>1 DEF ProcessInv, TypeOK
    <2> QED
      BY <2>1, <2>2, <2>3 DEF ProcessInv
  <1>12. CASE UNCHANGED vars
    BY <1>12 DEF vars, ProcessInv, table, handler, kernel
  <1> QED
    BY <1>1, <1>2, <1>3, <1>4, <1>5, <1>6, <1>7, <1>8, <1>9, <1>10, <1>11, <1>12
    DEF Next, GodStep, ChildHandlerStep, ExitHandlerStep

-----------------------------------------------------------------------------
(* What runs is known.                                                      *)

\* A step that makes no process, stores nothing in the table and leaves
\* fork_child alone.
LEMMA KnownKept ==
  ASSUME RunningIsKnown,
         \A p \in Pids : life'[p] = "running" => life[p] = "running",
         UNCHANGED <<pid, of>>,
         \A c \in Children : alive[c] => alive'[c],
         frame' = frame \/ frame.stage \notin {"pid", "alive"}
  PROVE  RunningIsKnown'
  BY DEF RunningIsKnown, BeingRecorded

\* Every step keeps the running children known.
LEMMA KnownStep ==
  TypeOK /\ ControlInv /\ ProcessInv /\ RunningIsKnown /\ [Next]_vars => RunningIsKnown'
  <1> SUFFICES ASSUME TypeOK, ControlInv, ProcessInv, RunningIsKnown, [Next]_vars
               PROVE  RunningIsKnown'
    OBVIOUS
  <1>1. CASE Fork
    <2> DEFINE p == forks + 1
    <2>1. UNCHANGED <<pid, alive>> /\ frame.stage = "fork"
      BY <1>1 DEF Fork, table
    <2>2. CASE UNCHANGED <<life, of>>
      BY <2>1, <2>2, KnownKept
    <2>3. CASE /\ p \in Pids
               /\ life' = [life EXCEPT ![p] = "running"]
               /\ of' = [of EXCEPT ![p] = frame.c]
               /\ frame' = [frame EXCEPT !.stage = "pid", !.p = p]
      <3>1. frame'.stage = "pid" /\ frame'.p = p
        BY <2>3 DEF TypeOK
      <3>2. ASSUME NEW q \in Pids, q # p, life'[q] = "running"
            PROVE  \E c \in Children : of'[q] = c /\ pid'[c] = q /\ alive'[c]
        <4>1. life[q] = "running" /\ of'[q] = of[q]
          BY <2>3, <3>2 DEF TypeOK
        <4>2. ~BeingRecorded(q)
          BY <2>1 DEF BeingRecorded
        <4> QED
          BY <2>1, <4>1, <4>2 DEF RunningIsKnown
      <3> QED
        BY <3>1, <3>2 DEF RunningIsKnown, BeingRecorded
    <2> QED
      BY <1>1, <2>2, <2>3 DEF Fork
  <1>2. CASE StorePid
    <2>1. /\ frame.c \in Children /\ ~alive[frame.c]
          /\ pid' = [pid EXCEPT ![frame.c] = frame.p]
          /\ frame'.stage = "alive" /\ frame'.p = frame.p
          /\ UNCHANGED <<alive, life, of>>
      BY <1>2 DEF StorePid, ControlInv, TypeOK, kernel
    <2>2. ASSUME NEW p \in Pids, life'[p] = "running"
          PROVE  BeingRecorded(p)' \/ \E c \in Children : of'[p] = c /\ pid'[c] = p /\ alive'[c]
      <3>1. CASE BeingRecorded(p)
        BY <2>1, <3>1 DEF BeingRecorded
      <3>2. ASSUME NEW c \in Children, of[p] = c, pid[c] = p, alive[c]
            PROVE  of'[p] = c /\ pid'[c] = p /\ alive'[c]
        BY <2>1, <3>2 DEF TypeOK
      <3> QED
        BY <2>1, <2>2, <3>1, <3>2 DEF RunningIsKnown
    <2> QED
      BY <2>2 DEF RunningIsKnown
  <1>3. CASE StoreAlive
    <2>1. /\ frame.c \in Children
          /\ of[frame.p] = frame.c /\ pid[frame.c] = frame.p
          /\ alive' = [alive EXCEPT ![frame.c] = TRUE]
          /\ UNCHANGED <<pid, life, of>>
      BY <1>3 DEF StoreAlive, ControlInv, ProcessInv, kernel
    <2>2. alive'[frame.c] /\ \A c \in Children : alive[c] => alive'[c]
      BY <2>1 DEF TypeOK
    <2> QED
      BY <2>1, <2>2 DEF RunningIsKnown, BeingRecorded
  <1>4. CASE Spawn \/ Decide
    <2>1. frame' = frame \/ frame.stage = "none"
      BY <1>4 DEF Spawn, Decide, Enter, NoFrame, TypeOK, ControlInv
    <2> QED
      BY <1>4, <2>1, KnownKept DEF Spawn, Decide, table, kernel
  <1>5. CASE SignalInt \/ SignalChld \/ Interrupt \/ DeliverInt \/ DeliverChld \/ IgnoreChld
             \/ Kill \/ Exit
    BY <1>5, KnownKept DEF SignalInt, SignalChld, Interrupt, DeliverInt, DeliverChld,
         IgnoreChld, Kill, Exit, table, kernel
  <1>6. CASE Reap
    <2>1. \A p \in Pids : life'[p] = "running" => life[p] = "running"
      BY <1>6 DEF Reap, TypeOK
    <2> QED
      BY <1>6, <2>1, KnownKept DEF Reap, table
  <1>7. CASE MarkDead
    <2>1. UNCHANGED <<pid, life, of, frame>>
      BY <1>7 DEF MarkDead, kernel
    <2>2. CASE UNCHANGED alive
      BY <2>1, <2>2, KnownKept
    <2>3. ASSUME NEW d \in Children, pid[d] = got, alive' = [alive EXCEPT ![d] = FALSE]
          PROVE  RunningIsKnown'
      <3>1. life[pid[d]] = "gone"
        <4>1. pid[d] # NoPid
          BY PidIsAPid
        <4> QED
          BY <2>3, <4>1 DEF ProcessInv
      <3>2. ASSUME NEW p \in Pids, life[p] = "running",
                   NEW c \in Children, of[p] = c, pid[c] = p, alive[c]
            PROVE  alive'[c]
        <4>1. c # d
          BY <3>1, <3>2
        <4> QED
          BY <2>3, <3>2, <4>1 DEF TypeOK
      <3> QED
        BY <2>1, <3>2 DEF RunningIsKnown, BeingRecorded
    <2> QED
      BY <1>7, <2>2, <2>3 DEF MarkDead, Found
  <1>8. CASE Decrement
    BY <1>8, KnownKept DEF Decrement, kernel
  <1>9. ASSUME NEW p \in Pids, NEW s \in Statuses, Die(p, s)
        PROVE  RunningIsKnown'
    <2>1. \A q \in Pids : life'[q] = "running" => life[q] = "running"
      BY <1>9 DEF Die, TypeOK
    <2> QED
      BY <1>9, <2>1, KnownKept DEF Die, table
  <1>10. CASE UNCHANGED vars
    BY <1>10, KnownKept DEF vars, table, kernel
  <1> QED
    BY <1>1, <1>2, <1>3, <1>4, <1>5, <1>6, <1>7, <1>8, <1>9, <1>10
    DEF Next, GodStep, ChildHandlerStep, ExitHandlerStep

-----------------------------------------------------------------------------
(* The respawn budget.                                                      *)

\* There are finitely many pids.
LEMMA PidsFinite == IsFiniteSet(Pids)
  BY FS_Interval

\* The starts a child still has are a number.
LEMMA StartsIsNat ==
  ASSUME NEW c \in Children
  PROVE  Starts(c) \in Nat
  <1>1. IsFiniteSet(Pids)
    BY PidsFinite
  <1>2. IsFiniteSet({p \in Pids : of[p] = c})
    BY <1>1, FS_Subset
  <1> QED
    BY <1>2, FS_CardinalityType DEF Starts

\* A fork counts for its child and for no other.
LEMMA ForkCounts ==
  ASSUME TypeOK, NEW p \in Pids, NEW d \in Children, of[p] = 0,
         of' = [of EXCEPT ![p] = d],
         NEW c \in Children
  PROVE  Starts(c)' = IF c = d THEN Starts(c) + 1 ELSE Starts(c)
  <1> DEFINE S == {q \in Pids : of[q] = c}
             T == {q \in Pids : of'[q] = c}
  <1>1. IsFiniteSet(S)
    <2>1. S \subseteq Pids
      OBVIOUS
    <2> QED
      BY <2>1, PidsFinite, FS_Subset
  <1>2. CASE c = d
    <2>1. T = S \cup {p} /\ p \notin S
      BY <1>2 DEF TypeOK
    <2>2. Cardinality(T) = Cardinality(S) + 1
      <3>1. Cardinality(S \cup {p}) = IF p \in S THEN Cardinality(S) ELSE Cardinality(S) + 1
        BY ONLY <1>1, FS_AddElement
      <3> QED
        BY <2>1, <3>1
    <2> QED
      BY <1>2, <2>2 DEF Starts
  <1>3. CASE c # d
    <2>1. T = S
      BY <1>3 DEF TypeOK
    <2> QED
      BY <1>3, <2>1 DEF Starts
  <1> QED
    BY <1>2, <1>3

\* Every step keeps the budget.
LEMMA BudgetStep ==
  TypeOK /\ ControlInv /\ ProcessInv /\ BudgetInv /\ [Next]_vars => BudgetInv'
  <1> SUFFICES ASSUME TypeOK, ControlInv, ProcessInv, BudgetInv, [Next]_vars,
                      NEW c \in Children, Respawn[c] >= 0
               PROVE  /\ respawn'[c] >= 0
                      /\ child_at' = "decrement" /\ index' = c => respawn'[c] > 0
                      /\ Starts(c)' + Due(c)' <= 1 + Respawn[c]
    BY DEF BudgetInv
  <1>b. /\ respawn[c] >= 0
        /\ child_at = "decrement" /\ index = c => respawn[c] > 0
        /\ Starts(c) + Due(c) <= 1 + Respawn[c]
    BY DEF BudgetInv
  <1>t. respawn[c] \in Int /\ Respawn[c] \in Int /\ Starts(c) \in Nat /\ next \in Int
    BY StartsIsNat DEF TypeOK
  <1>k. ASSUME UNCHANGED <<respawn, of, at, next, child_at, index>>,
               frame'.stage = "fork" <=> frame.stage = "fork",
               frame.stage = "fork" => frame'.c = frame.c
        PROVE  /\ respawn'[c] >= 0
               /\ child_at' = "decrement" /\ index' = c => respawn'[c] > 0
               /\ Starts(c)' + Due(c)' <= 1 + Respawn[c]
    <2>1. Starts(c)' = Starts(c)
      BY <1>k DEF Starts
    <2>2. Due(c)' = Due(c)
      BY <1>k DEF Due
    <2> QED
      BY <1>b, <1>k, <2>1, <2>2
  <1>1. CASE Fork
    <2>1. /\ UNCHANGED <<respawn, at, next, child_at, index>>
          /\ frame.stage = "fork" /\ frame'.stage # "fork"
          /\ frame.c \in Children
      <3>1. UNCHANGED <<respawn, at, next, child_at, index>> /\ frame.stage = "fork"
        BY <1>1 DEF Fork, table, main, handler
      <3>2. frame' = NoFrame \/ frame'.stage = "pid"
        BY <1>1 DEF Fork, TypeOK
      <3> QED
        BY <3>1, <3>2 DEF NoFrame, ControlInv
    <2>2. Starts(c)' <= IF c = frame.c THEN Starts(c) + 1 ELSE Starts(c)
      <3>1. CASE UNCHANGED of
        BY <1>t, <3>1 DEF Starts
      <3>2. CASE forks + 1 \in Pids /\ of' = [of EXCEPT ![forks + 1] = frame.c]
        <4>1. of[forks + 1] = 0
          BY <3>2 DEF ProcessInv, TypeOK
        <4>2. Starts(c)' = IF c = frame.c THEN Starts(c) + 1 ELSE Starts(c)
          BY <2>1, <3>2, <4>1, ForkCounts
        <4> QED
          BY <1>t, <4>2
      <3> QED
        BY <1>1, <3>1, <3>2 DEF Fork
    <2>n. Starts(c)' \in Int
      <3>1. Starts(c)' = Cardinality({p \in Pids : of'[p] = c})
        BY DEF Starts
      <3>2. IsFiniteSet({p \in Pids : of'[p] = c})
        <4>1. {p \in Pids : of'[p] = c} \subseteq Pids
          OBVIOUS
        <4> QED
          BY <4>1, PidsFinite, FS_Subset
      <3> QED
        BY <3>1, <3>2, FS_CardinalityType
    <2>3. CASE c # frame.c
      <3>1. Due(c)' <= Due(c)
        BY <1>t, <2>1, <2>3 DEF Due, ControlInv
      <3> QED
        BY <1>b, <1>t, <2>1, <2>2, <2>n, <2>3, <3>1 DEF Due
    <2>4. CASE c = frame.c
      <3>1. CASE at = "spawn"
        <4>1. c < next /\ child_at = "idle"
          BY <2>1, <2>4, <3>1 DEF ControlInv
        <4>2. Due(c) = respawn[c] + 1 /\ Due(c)' = respawn[c]
          BY <1>t, <2>1, <2>4, <3>1, <4>1 DEF Due
        <4> QED
          BY <1>b, <1>t, <2>1, <2>2, <2>n, <2>4, <4>1, <4>2
      <3>2. CASE at # "spawn"
        <4>1. index = c /\ child_at = "decrement"
          BY <2>1, <2>4, <3>2 DEF ControlInv, TypeOK
        <4>2. Due(c) = respawn[c] /\ Due(c)' = respawn[c] - 1
          BY <1>t, <2>1, <3>2, <4>1 DEF Due
        <4> QED
          BY <1>b, <1>t, <2>1, <2>2, <2>n, <2>4, <4>1, <4>2
      <3> QED
        BY <3>1, <3>2
    <2> QED
      BY <2>3, <2>4
  <1>2. CASE StorePid \/ StoreAlive
    <2>1. frame.stage # "fork" /\ frame'.stage # "fork"
      <3>1. CASE StorePid
        BY <3>1 DEF StorePid, TypeOK
      <3>2. CASE StoreAlive
        BY <3>2 DEF StoreAlive, NoFrame
      <3> QED
        BY <1>2, <3>1, <3>2
    <2> QED
      BY <1>2, <1>k, <2>1 DEF StorePid, StoreAlive, main, handler, kernel
  <1>3. CASE Spawn
    <2>1. UNCHANGED <<respawn, of, child_at, index>> /\ at = "spawn" /\ frame = NoFrame
      BY <1>3 DEF Spawn, table, handler, kernel
    <2>2. Starts(c)' = Starts(c)
      BY <2>1 DEF Starts
    <2>3. child_at = "idle"
      BY <2>1 DEF ControlInv
    <2>4. CASE frame' = [stage |-> "fork", c |-> next, p |-> 0] /\ next' = next + 1 /\ at' = at
      <3>1. (c >= next' \/ (frame'.stage = "fork" /\ frame'.c = c)) <=> c >= next
        BY <1>t, <2>4
      <3>2. Due(c)' = Due(c)
        BY <2>1, <2>3, <2>4, <3>1 DEF Due, NoFrame
      <3> QED
        BY <1>b, <2>1, <2>2, <3>2
    <2>5. CASE at' = "signal_int" /\ next > N /\ UNCHANGED <<next, frame>>
      <3>1. Due(c)' <= Due(c)
        BY <1>t, <2>1, <2>3, <2>5 DEF Due, NoFrame
      <3>2. Due(c) \in Int /\ Due(c)' \in Int
        BY <1>t, <2>1 DEF Due
      <3> QED
        BY <1>b, <1>t, <2>1, <2>2, <3>1, <3>2
    <2> QED
      BY <1>3, <2>4, <2>5 DEF Spawn, Enter
  <1>4. CASE SignalInt \/ SignalChld
    <2>1. /\ UNCHANGED <<respawn, of, child_at, index, frame>>
          /\ at # "spawn" /\ at' # "spawn"
      BY <1>4 DEF SignalInt, SignalChld, table, handler, kernel
    <2>2. Starts(c)' = Starts(c) /\ Due(c)' = Due(c)
      BY <2>1 DEF Starts, Due
    <2> QED
      BY <1>b, <2>1, <2>2
  <1>5. CASE Interrupt \/ DeliverInt \/ IgnoreChld \/ Kill \/ Exit
             \/ \E p \in Pids, s \in Statuses : Die(p, s)
    BY <1>5, <1>k DEF Interrupt, DeliverInt, IgnoreChld, Kill, Exit, Die,
         table, main, handler, kernel
  <1>6. CASE DeliverChld \/ Reap \/ MarkDead
    <2>1. /\ UNCHANGED <<respawn, of, at, next, frame>>
          /\ child_at # "decrement" /\ child_at' # "decrement"
      BY <1>6 DEF DeliverChld, ChldBlocked, Reap, MarkDead, Return, table, main, kernel
    <2>2. Starts(c)' = Starts(c) /\ Due(c)' = Due(c)
      BY <2>1 DEF Starts, Due
    <2> QED
      BY <1>b, <2>1, <2>2
  <1>7. CASE Decide
    <2>1. /\ UNCHANGED <<respawn, of, at, next, index>>
          /\ at # "spawn" /\ child_at = "decide"
      BY <1>7 DEF Decide, ControlInv, table, main, kernel
    <2>2. Starts(c)' = Starts(c)
      BY <2>1 DEF Starts
    <2>3. child_at' = "decrement" => frame'.stage = "fork" /\ respawn[index] # 0
      BY <1>7 DEF Decide, Enter, Return
    <2>4. Due(c)' = Due(c)
      BY <2>1, <2>3 DEF Due
    <2> QED
      BY <1>b, <1>t, <2>1, <2>2, <2>3, <2>4
  <1>8. CASE Decrement
    <2>1. /\ UNCHANGED <<of, at, next, frame, index>>
          /\ respawn' = [respawn EXCEPT ![index] = @ - 1]
          /\ child_at = "decrement" /\ child_at' = "idle"
          /\ frame.stage # "fork" /\ at = "pause"
      BY <1>8 DEF Decrement, Return, NoFrame, ControlInv, main, kernel
    <2>2. Starts(c)' = Starts(c)
      BY <2>1 DEF Starts
    <2>3. CASE index = c
      <3>1. respawn'[c] = respawn[c] - 1
        BY <2>1, <2>3 DEF TypeOK
      <3>2. Due(c)' = Due(c)
        BY <1>t, <2>1, <2>3, <3>1 DEF Due
      <3> QED
        BY <1>b, <1>t, <2>1, <2>2, <2>3, <3>1, <3>2
    <2>4. CASE index # c
      <3>1. respawn'[c] = respawn[c]
        BY <2>1, <2>4 DEF TypeOK
      <3>2. Due(c)' = Due(c)
        BY <2>1, <2>4, <3>1 DEF Due
      <3> QED
        BY <1>b, <2>1, <2>2, <3>1, <3>2
    <2> QED
      BY <2>3, <2>4
  <1>9. CASE UNCHANGED vars
    BY <1>9, <1>k DEF vars, table, main, handler, kernel
  <1> QED
    BY <1>1, <1>2, <1>3, <1>4, <1>5, <1>6, <1>7, <1>8, <1>9
    DEF Next, GodStep, ChildHandlerStep, ExitHandlerStep

-----------------------------------------------------------------------------
(* Theorems.                                                                *)

\* The whole invariant holds at the start.
LEMMA InitIInv == Init => IInv
  <1> SUFFICES ASSUME Init
               PROVE  IInv
    OBVIOUS
  <1>1. TypeOK
    BY InitTypeOK
  <1>2. ControlInv /\ RunningIsKnown
    BY DEF Init, ControlInv, RunningIsKnown, NoFrame
  <1>3. ProcessInv
    BY DEF Init, ProcessInv, NoFrame
  <1>4. BudgetInv
    <2> SUFFICES ASSUME NEW c \in Children, Respawn[c] >= 0
                 PROVE  Starts(c) + Due(c) <= 1 + Respawn[c]
      BY DEF Init, BudgetInv
    <2>1. {p \in Pids : of[p] = c} = {}
      BY DEF Init
    <2>2. Starts(c) = 0
      BY <2>1, FS_EmptySet DEF Starts
    <2>3. Respawn[c] \in Int
      OBVIOUS
    <2>4. Due(c) = Respawn[c] + 1
      BY <2>3 DEF Init, Due
    <2> QED
      BY <2>2, <2>3, <2>4
  <1> QED
    BY <1>1, <1>2, <1>3, <1>4 DEF IInv

\* The inductive invariant: the types, the control, whose process is whose, what
\* runs is known, and the starts a child still has.
THEOREM Invariance == Spec => []IInv
  <1>1. IInv /\ [Next]_vars => IInv'
    BY TypeStep, ControlStep, ProcessStep, KnownStep, BudgetStep DEF IInv
  <1> QED
    BY <1>1, InitIInv, PTL DEF Spec

\* Every variable keeps its type, and main(), the handlers and fork_child run
\* inside each other as they should.
THEOREM TypeCorrect == Spec => []TypeOK
  <1>1. IInv => TypeOK
    BY DEF IInv
  <1> QED
    BY <1>1, Invariance, PTL

\* God never takes a running child for dead.
THEOREM NeverForgetsTheLiving == Spec => []RunningIsKnown
  <1>1. IInv => RunningIsKnown
    BY DEF IInv
  <1> QED
    BY <1>1, Invariance, PTL

\* No child ever runs twice at once.
THEOREM NeverTwice == Spec => []OneIncarnation
  <1>1. IInv => OneIncarnation
    <2> SUFFICES ASSUME IInv, NEW p \in Pids, NEW q \in Pids,
                        life[p] = "running", life[q] = "running", of[p] = of[q]
                 PROVE  p = q
      BY DEF OneIncarnation
    <2>1. CASE BeingRecorded(p) /\ BeingRecorded(q)
      BY <2>1 DEF BeingRecorded
    <2>2. ASSUME NEW r \in Pids, BeingRecorded(r), NEW c \in Children, of[r] = c
          PROVE  ~alive[c]
      BY <2>2 DEF IInv, ControlInv, ProcessInv, BeingRecorded
    <2>3. CASE ~BeingRecorded(p) \/ ~BeingRecorded(q)
      BY <2>2, <2>3 DEF IInv, RunningIsKnown
    <2> QED
      BY <2>1, <2>3
  <1> QED
    BY <1>1, Invariance, PTL

\* No child is started more often than its table entry allows.
THEOREM WithinBudget == Spec => []RespawnBudget
  <1>1. IInv => RespawnBudget
    <2> SUFFICES ASSUME IInv, NEW c \in Children, Respawn[c] >= 0
                 PROVE  Starts(c) <= 1 + Respawn[c]
      BY DEF RespawnBudget
    <2>1. respawn[c] \in Int /\ Respawn[c] \in Int /\ Starts(c) \in Nat
      BY StartsIsNat DEF IInv, TypeOK
    <2>2. /\ respawn[c] >= 0
          /\ child_at = "decrement" /\ index = c => respawn[c] > 0
          /\ Starts(c) + Due(c) <= 1 + Respawn[c]
      BY DEF IInv, BudgetInv
    <2>3. Due(c) \in Int /\ Due(c) >= 0
      BY <2>1, <2>2 DEF Due
    <2> QED
      BY <2>1, <2>2, <2>3
  <1> QED
    BY <1>1, Invariance, PTL
=============================================================================
