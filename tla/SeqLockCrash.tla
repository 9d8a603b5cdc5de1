---------------------------- MODULE SeqLockCrash ----------------------------
(***************************************************************************)
(* The sequence lock when the writer's process may die in the middle of a   *)
(* write and be started again.  The segment outlives the process and is     *)
(* reused (README.md, "Shared memory is left open on shutdown"), with the    *)
(* seq and the entry the dead process left in it.                           *)
(***************************************************************************)
EXTENDS SeqLock

\* Only the writer's own variables go; its next write() begins from whatever
\* seq holds.
WriterCrash ==
  /\ writing
  /\ writing' = FALSE
  /\ wleft' = {}
  /\ UNCHANGED <<shared, wseq, written, reader, state>>

CrashNext == Next \/ WriterCrash

CrashSpec == Init /\ [][CrashNext]_vars

\* No successful read hands out an entry with words of two messages: what
\* tests/ipc/litmus.cpp asserts of every entry it reads.
ReadsWholeMessages ==
  \A t \in Threads :
    rc[t] = "ok" => \E n \in 0..MaxWrites : copied[t] = Whole(n)
=============================================================================
