------------------------------- MODULE LogSite -------------------------------
(***************************************************************************)
(* One place in the source that logs: log_cat_log of log.h, run by any      *)
(* number of threads.  Its should_log is a function-local static, which the *)
(* first thread to get there initialises with log_level() (LogLevel) for    *)
(* the category of its own call while the others wait.  The category may be *)
(* another one in every call.                                               *)
(***************************************************************************)
EXTENDS LogLevel

CONSTANTS
  Threads,
  Levels   \* of which one is the level of the place

VARIABLES
  lvl,
  guard,       \* of the static: "unset", "busy" or "set"
  should_log,
  pc,          \* of a thread: "idle", "log", "init" or "use"
  arg,         \* the category of its call
  printed      \* what its last call did: "nothing yet", "printed", "silent"

vars == <<env, cat, parse, lvl, guard, should_log, pc, arg, printed>>

Init ==
  /\ Start
  /\ env \in Envs
  /\ cat = <<>>
  /\ lvl \in Levels
  /\ guard = "unset"
  /\ should_log = FALSE
  /\ pc = [t \in Threads |-> "idle"]
  /\ arg = [t \in Threads |-> <<>>]
  /\ printed = [t \in Threads |-> "nothing yet"]

Goto(t, place) == pc' = [pc EXCEPT ![t] = place]

Call(t, c) ==
  /\ pc[t] = "idle"
  /\ Goto(t, "log")
  /\ arg' = [arg EXCEPT ![t] = c]
  /\ UNCHANGED <<env, cat, parse, lvl, guard, should_log, printed>>

\* The first thread takes the guard of the static ...
Acquire(t) ==
  /\ pc[t] = "log"
  /\ guard = "unset"
  /\ guard' = "busy"
  /\ cat' = arg[t]
  /\ phase' = "entries"
  /\ Goto(t, "init")
  /\ UNCHANGED <<env, e, pat_start, str_index, ret, ref_lvl, lvl, should_log, arg, printed>>

\* ... runs log_level() ...
Parse(t) ==
  /\ pc[t] = "init"
  /\ ParseStep
  /\ UNCHANGED <<lvl, guard, should_log, pc, arg, printed>>

\* ... and lets the others in.
Release(t) ==
  /\ pc[t] = "init"
  /\ phase = "done"
  /\ should_log' = (lvl <= ref_lvl)
  /\ guard' = "set"
  /\ Goto(t, "use")
  /\ UNCHANGED <<env, cat, parse, lvl, arg, printed>>

\* Seeded fault: a flag that is set before the value is.
MayPassEarly == guard # "unset"

MayPass == guard = "set"

Pass(t) ==
  /\ pc[t] = "log"
  /\ MayPass
  /\ Goto(t, "use")
  /\ UNCHANGED <<env, cat, parse, lvl, guard, should_log, arg, printed>>

Use(t) ==
  /\ pc[t] = "use"
  /\ printed' = [printed EXCEPT ![t] = IF should_log THEN "printed" ELSE "silent"]
  /\ Goto(t, "idle")
  /\ UNCHANGED <<env, cat, parse, lvl, guard, should_log, arg>>

ThreadStep(t) == Acquire(t) \/ Parse(t) \/ Release(t) \/ Pass(t) \/ Use(t)

Next == \E t \in Threads : ThreadStep(t) \/ \E c \in Categories : Call(t, c)

Spec == Init /\ [][Next]_vars

\* Threads that can run do, and the C++ runtime wakes those that wait for the
\* static once it is set; nobody has to log.
FairSpec == Spec /\ \A t \in Threads : WF_vars(ThreadStep(t))

-----------------------------------------------------------------------------
(* Properties                                                               *)

(* Whichever threads meet at the place, and in whatever order, what they    *)
(* print is what LOG_LEVEL says for the category of the call that came      *)
(* first; the categories of the later calls do not count (log.h:36).        *)
PrintedAsConfigured ==
  Documented /\ ~Misread =>
    \A t \in Threads : printed[t] # "nothing yet" =>
      (printed[t] = "printed" <=> lvl <= DocumentedResult)

(* Every call returns: the loops over the text end for every text, and no   *)
(* thread is left waiting for the static.                                   *)
EveryCallReturns == \A t \in Threads : pc[t] # "idle" ~> pc[t] = "idle"

=============================================================================
