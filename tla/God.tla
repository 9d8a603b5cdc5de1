--------------------------------- MODULE God ---------------------------------
(***************************************************************************)
(* The supervisor of examples/ipc/god.cpp: it starts the children of its    *)
(* table, starts those again that end in error, and takes them down when it *)
(* is interrupted.  All of it but the start runs in signal handlers, which  *)
(* interrupt main() and each other between any two steps.                   *)
(*                                                                         *)
(* A pending signal is a bit: what is raised twice before it is delivered   *)
(* is delivered once.  A handler installed with signal() has its own signal *)
(* blocked and no other.                                                    *)
(***************************************************************************)
EXTENDS Integers, FiniteSets

CONSTANTS
  N,            \* n_children
  Respawn,      \* the respawn member of each child, as filled in
  ForkMayFail,  \* whether fork() can return -1
  MaxErrors     \* bound: children that end in error

Children == 1..N

ASSUME GodAssumption ==
  /\ N \in Nat
  /\ Respawn \in [Children -> Int]
  /\ ForkMayFail \in BOOLEAN
  /\ MaxErrors \in Nat

VARIABLES
  \* struct child, one for each
  pid, alive, respawn,
  \* god
  god,          \* "running", "exited" from exit_handler, "aborted" by an
                \* assertion, "killed" by a signal it has no handler for
  top,          \* the function that runs: "main", or the handler on top of it
  at,           \* where main() is
  next,         \* i of the loop in main()
  frame,        \* fork_child: where it is, for which child, what fork() returned
  child_at,     \* where child_handler is, "idle" if it is not running
  got,          \* its locals pid, status and child_index
  status,
  index,
  exit_at,      \* where exit_handler is
  i,            \* its i
  on_int,       \* dispositions of SIGINT and SIGCHLD
  on_chld,
  pending,      \* signals raised and not delivered
  \* processes, by the number of the fork that made them
  forks,        \* number of forks
  life,         \* "none", "running", "zombie", "gone"
  of,           \* the child they are
  ended,        \* what wait will say of them
  told,         \* whether exit_handler has signalled them
  errors        \* history: children that ended in error

table   == <<pid, alive, respawn>>
main    == <<at, next>>
handler == <<child_at, got, status, index>>
exiting == <<exit_at, i>>
dispo   == <<on_int, on_chld>>
kernel  == <<forks, life, of, ended, told, errors>>
vars == <<table, god, top, main, frame, handler, exiting, dispo, pending, kernel>>

-----------------------------------------------------------------------------
Pids == 1..(N + MaxErrors)
NoPid == -1
Statuses == {"0", "SIGINT", "error"}
respawn_bypass_statuses == {"0", "SIGINT"}

NoFrame == [stage |-> "none", c |-> 0, p |-> 0]

Init ==
  /\ pid = [c \in Children |-> 0]
  /\ alive = [c \in Children |-> FALSE]
  /\ respawn = Respawn
  /\ god = "running" /\ top = "main"
  /\ at = "spawn" /\ next = 1
  /\ frame = NoFrame
  /\ child_at = "idle" /\ got = NoPid /\ status = "0" /\ index = 0
  /\ exit_at = "idle" /\ i = 1
  /\ on_int = "default" /\ on_chld = "default"
  /\ pending = {}
  /\ forks = 0
  /\ life = [p \in Pids |-> "none"]
  /\ of = [p \in Pids |-> 0]
  /\ ended = [p \in Pids |-> "0"]
  /\ told = [p \in Pids |-> FALSE]
  /\ errors = 0

Runs(f) == god = "running" /\ top = f

-----------------------------------------------------------------------------
(* fork_child, called by main() and by child_handler.                      *)

Caller == IF at = "spawn" THEN "main" ELSE "child"

Enter(c) == frame' = [stage |-> "fork", c |-> c, p |-> 0]

Fork ==
  LET p == forks + 1
  IN /\ Runs(Caller)
     /\ frame.stage = "fork"
     /\ \/ /\ p \in Pids   \* the bound, which MaxErrors keeps from being reached
           /\ forks' = p
           /\ life' = [life EXCEPT ![p] = "running"]
           /\ of' = [of EXCEPT ![p] = frame.c]
           /\ frame' = [frame EXCEPT !.stage = "pid", !.p = p]
        \/ /\ ForkMayFail
           /\ frame' = NoFrame
           /\ UNCHANGED <<forks, life, of>>
     /\ UNCHANGED <<table, god, top, main, handler, exiting, dispo, pending,
                    ended, told, errors>>

StorePid ==
  /\ Runs(Caller)
  /\ frame.stage = "pid"
  /\ pid' = [pid EXCEPT ![frame.c] = frame.p]
  /\ frame' = [frame EXCEPT !.stage = "alive"]
  /\ UNCHANGED <<alive, respawn, god, top, main, handler, exiting, dispo, pending, kernel>>

StoreAlive ==
  /\ Runs(Caller)
  /\ frame.stage = "alive"
  /\ alive' = [alive EXCEPT ![frame.c] = TRUE]
  /\ frame' = NoFrame
  /\ UNCHANGED <<pid, respawn, god, top, main, handler, exiting, dispo, pending, kernel>>

-----------------------------------------------------------------------------
(* main                                                                    *)

Spawn ==
  /\ Runs("main")
  /\ at = "spawn"
  /\ frame = NoFrame
  /\ \/ /\ next <= N
        /\ Enter(next)
        /\ next' = next + 1
        /\ UNCHANGED at
     \/ /\ next > N
        /\ at' = "signal_int"
        /\ UNCHANGED <<next, frame>>
  /\ UNCHANGED <<table, god, top, handler, exiting, dispo, pending, kernel>>

SignalInt ==
  /\ Runs("main")
  /\ at = "signal_int"
  /\ on_int' = "handler"
  /\ at' = "signal_chld"
  /\ UNCHANGED <<table, god, top, next, frame, handler, exiting, on_chld, pending, kernel>>

SignalChld ==
  /\ Runs("main")
  /\ at = "signal_chld"
  /\ on_chld' = "handler"
  /\ at' = "pause"
  /\ UNCHANGED <<table, god, top, next, frame, handler, exiting, on_int, pending, kernel>>

-----------------------------------------------------------------------------
(* Signals.                                                                *)

\* Somebody interrupts god.
Interrupt ==
  /\ god = "running"
  /\ pending' = pending \cup {"INT"}
  /\ UNCHANGED <<table, god, top, main, frame, handler, exiting, dispo, kernel>>

DeliverInt ==
  /\ god = "running"
  /\ "INT" \in pending
  /\ exit_at = "idle"
  /\ pending' = pending \ {"INT"}
  /\ \/ /\ on_int = "default"
        /\ god' = "killed"
        /\ UNCHANGED <<top, exit_at>>
     \/ /\ on_int = "handler"
        /\ top' = "exit"
        /\ exit_at' = "ignore"
        /\ UNCHANGED god
  /\ UNCHANGED <<table, main, frame, handler, i, dispo, kernel>>

\* Seeded fault: SIGCHLD is not blocked in its handler (SA_NODEFER).
ChldNeverBlocked == FALSE

ChldBlocked == child_at # "idle"

DeliverChld ==
  /\ god = "running"
  /\ "CHLD" \in pending
  /\ on_chld = "handler"
  /\ ~ChldBlocked
  /\ pending' = pending \ {"CHLD"}
  /\ top' = "child"
  /\ child_at' = "reap"
  /\ got' = NoPid
  /\ UNCHANGED <<table, god, main, frame, status, index, exiting, dispo, kernel>>

-----------------------------------------------------------------------------
(* child_handler                                                           *)

Return ==
  /\ child_at' = "idle"
  /\ top' = IF exit_at = "idle" THEN "main" ELSE "exit"

Zombies == {p \in Pids : life[p] = "zombie"}

\* Seeded fault: waitpid without WNOHANG, which waits while a child runs.
ReapBlocking ==
  /\ Runs("child")
  /\ child_at = "reap"
  /\ \/ \E p \in Zombies :
          /\ life' = [life EXCEPT ![p] = "gone"]
          /\ got' = p
          /\ status' = ended[p]
          /\ UNCHANGED child_at
     \/ /\ \A p \in Pids : life[p] \notin {"running", "zombie"}
        /\ child_at' = "find"
        /\ UNCHANGED <<life, got, status>>
  /\ UNCHANGED <<table, god, top, main, frame, index, exiting, dispo, pending,
                 forks, of, ended, told, errors>>

\* while ((tmp_pid = waitpid(-1, &status, WNOHANG)) > 0) pid = tmp_pid
Reap ==
  /\ Runs("child")
  /\ child_at = "reap"
  /\ \/ \E p \in Zombies :
          /\ life' = [life EXCEPT ![p] = "gone"]
          /\ got' = p
          /\ status' = ended[p]
          /\ UNCHANGED child_at
     \/ /\ Zombies = {}
        /\ child_at' = "find"
        /\ UNCHANGED <<life, got, status>>
  /\ UNCHANGED <<table, god, top, main, frame, index, exiting, dispo, pending,
                 forks, of, ended, told, errors>>

\* Seeded fault: child_index starts at the first child instead of at -1.
FoundOrFirst(c) ==
  \/ pid[c] = got /\ \A d \in Children : pid[d] = got => d <= c
  \/ c = 1 /\ \A d \in Children : pid[d] # got

\* The last child with that pid.
Found(c) == pid[c] = got /\ \A d \in Children : pid[d] = got => d <= c

MarkDead ==
  /\ Runs("child")
  /\ child_at = "find"
  /\ \/ \E c \in Children :
          /\ Found(c)
          /\ index' = c
          /\ alive' = [alive EXCEPT ![c] = FALSE]
          /\ child_at' = "decide"
          /\ UNCHANGED top
     \/ /\ \A c \in Children : ~Found(c)
        /\ Return
        /\ UNCHANGED <<index, alive>>
  /\ UNCHANGED <<pid, respawn, god, main, frame, got, status, exiting, dispo, pending, kernel>>

Decide ==
  /\ Runs("child")
  /\ child_at = "decide"
  /\ \/ /\ respawn[index] # 0
        /\ status \notin respawn_bypass_statuses
        /\ Enter(index)
        /\ child_at' = "decrement"
        /\ UNCHANGED top
     \/ /\ respawn[index] = 0 \/ status \in respawn_bypass_statuses
        /\ Return
        /\ UNCHANGED frame
  /\ UNCHANGED <<table, god, main, got, status, index, exiting, dispo, pending, kernel>>

Decrement ==
  /\ Runs("child")
  /\ child_at = "decrement"
  /\ frame = NoFrame
  /\ respawn' = [respawn EXCEPT ![index] = @ - 1]
  /\ Return
  /\ UNCHANGED <<pid, alive, god, main, frame, got, status, index, exiting, dispo,
                 pending, kernel>>

-----------------------------------------------------------------------------
(* exit_handler                                                            *)

\* signal(SIGCHLD, SIG_IGN), which discards one that is pending.
IgnoreChld ==
  /\ Runs("exit")
  /\ exit_at = "ignore"
  /\ on_chld' = "ignore"
  /\ pending' = pending \ {"CHLD"}
  /\ exit_at' = "kill"
  /\ UNCHANGED <<table, god, top, main, frame, handler, i, on_int, kernel>>

\* kill() succeeds for a zombie, and fails for a pid that was waited for.
Kill ==
  LET p == pid[i]
  IN /\ Runs("exit")
     /\ exit_at = "kill"
     /\ i <= N
     /\ \/ /\ ~alive[i]
           /\ i' = i + 1
           /\ UNCHANGED <<god, told>>
        \/ /\ alive[i] /\ life[p] \in {"running", "zombie"}
           /\ told' = [told EXCEPT ![p] = TRUE]
           /\ i' = i + 1
           /\ UNCHANGED god
        \/ /\ alive[i] /\ life[p] \notin {"running", "zombie"}
           /\ god' = "aborted"
           /\ UNCHANGED <<i, told>>
     /\ UNCHANGED <<table, top, main, frame, handler, exit_at, dispo, pending,
                    forks, life, of, ended, errors>>

\* ipc_cleanup(), exit(sig)
Exit ==
  /\ Runs("exit")
  /\ exit_at = "kill"
  /\ i > N
  /\ god' = "exited"
  /\ UNCHANGED <<table, top, main, frame, handler, exiting, dispo, pending, kernel>>

-----------------------------------------------------------------------------
\* A child ends, by itself or because it was signalled.  Nobody has to wait for
\* it when god ignores SIGCHLD or is gone.
Die(p, s) ==
  /\ life[p] = "running"
  /\ IF s = "error" THEN errors < MaxErrors /\ errors' = errors + 1 ELSE UNCHANGED errors
  /\ ended' = [ended EXCEPT ![p] = s]
  /\ life' = [life EXCEPT ![p] =
       IF god = "running" /\ on_chld # "ignore" THEN "zombie" ELSE "gone"]
  /\ pending' = pending \cup {x \in {"CHLD"} : on_chld = "handler"}
  /\ UNCHANGED <<table, god, top, main, frame, handler, exiting, dispo, forks, of, told>>

ChildHandlerStep == Reap \/ MarkDead \/ Decide \/ Decrement
ExitHandlerStep == IgnoreChld \/ Kill \/ Exit

GodStep ==
  \/ Spawn \/ SignalInt \/ SignalChld
  \/ Fork \/ StorePid \/ StoreAlive
  \/ DeliverInt \/ DeliverChld
  \/ ChildHandlerStep \/ ExitHandlerStep

Next ==
  \/ GodStep
  \/ Interrupt
  \/ \E p \in Pids, s \in Statuses : Die(p, s)

Spec == Init /\ [][Next]_vars

\* The kernel runs god and delivers its signals.
Fairness == WF_vars(GodStep)

FairSpec == Spec /\ Fairness

-----------------------------------------------------------------------------
(* Properties.                                                             *)

\* Every variable has its type, and the functions that run fit together: main()
\* runs when no handler does, and fork_child has a caller.
TypeOK ==
  /\ pid \in [Children -> {0} \cup Pids]
  /\ alive \in [Children -> BOOLEAN]
  /\ respawn \in [Children -> Int]
  /\ god \in {"running", "exited", "aborted", "killed"}
  /\ top \in {"main", "child", "exit"}
  /\ at \in {"spawn", "signal_int", "signal_chld", "pause"}
  /\ next \in 1..(N + 1)
  /\ frame \in [stage : {"none", "fork", "pid", "alive"},
                c : {0} \cup Children, p : {0} \cup Pids]
  /\ child_at \in {"idle", "reap", "find", "decide", "decrement"}
  /\ got \in {NoPid} \cup Pids
  /\ status \in Statuses
  /\ index \in {0} \cup Children
  /\ exit_at \in {"idle", "ignore", "kill"}
  /\ i \in 1..(N + 1)
  /\ on_int \in {"default", "handler"}
  /\ on_chld \in {"default", "handler", "ignore"}
  /\ pending \in SUBSET {"INT", "CHLD"}
  /\ forks \in 0..(N + MaxErrors)
  /\ life \in [Pids -> {"none", "running", "zombie", "gone"}]
  /\ of \in [Pids -> {0} \cup Children]
  /\ ended \in [Pids -> Statuses]
  /\ told \in [Pids -> BOOLEAN]
  /\ errors \in 0..MaxErrors
  /\ top = "main" <=> child_at = "idle" /\ exit_at = "idle"
  /\ frame.stage # "none" => at = "spawn" \/ child_at = "decrement"

BeingRecorded(p) == frame.stage \in {"pid", "alive"} /\ frame.p = p

\* Through all deaths, coalesced signals and interruptions of its handlers, god
\* never takes a running child for dead: it is alive in the table under its
\* pid, or about to be entered there (god.cpp: fork_child, child_handler).
RunningIsKnown ==
  \A p \in Pids : life[p] = "running" =>
    BeingRecorded(p) \/ \E c \in Children : of[p] = c /\ pid[c] = p /\ alive[c]

\* No child runs twice at once, even if deaths and respawns overlap.
OneIncarnation ==
  \A p, q \in Pids :
    life[p] = "running" /\ life[q] = "running" /\ of[p] = of[q] => p = q

Starts(c) == Cardinality({p \in Pids : of[p] = c})

\* A child is started no more often than its table entry allows (god.cpp: "-1 =
\* infinite , 0 = never, 1 = once, 2 = twice, etc.").
RespawnBudget ==
  \A c \in Children : Respawn[c] >= 0 => Starts(c) <= 1 + Respawn[c]

\* The SIGCHLD handler ends, however many children die meanwhile and however
\* many keep running, unless god ends first.
HandlerReturns == child_at # "idle" ~> child_at = "idle" \/ god # "running"

\* God has nothing left to do.
Quiet ==
  /\ god = "running" /\ at = "pause"
  /\ child_at = "idle" /\ exit_at = "idle"
  /\ pending = {}

\* When god has nothing left to do, a child that ended in error and was waited
\* for has been started again if it may (god.cpp: "respawn on error: -1 =
\* infinite").
ReapedAreRespawned ==
  Quiet => \A p \in Pids :
    life[p] = "gone" /\ ended[p] = "error" /\ respawn[of[p]] # 0
      => \E q \in Pids : q > p /\ of[q] = of[p]
=============================================================================
