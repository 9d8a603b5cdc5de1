-------------------------------- MODULE Shmem --------------------------------
(***************************************************************************)
(* The shared-memory segments of tyndall/ipc/shmem.h: how objects attach    *)
(* to a name in /dev/shm, check its type, use it, and let go of it, while   *)
(* processes die and names are unlinked.                                    *)
(*                                                                         *)
(* A segment is a row of cells: the data structure of some type from cell   *)
(* 0 (its sequence number) on, then the tailer, one cell with the hash of   *)
(* the type and any number with its debug format.  Each type puts the       *)
(* tailer right after its own data structure.                               *)
(*                                                                         *)
(* Reading and writing the data structure are single steps here; SeqLock    *)
(* and LatestEntry say why that is right.                                   *)
(***************************************************************************)
EXTENDS Integers

CONSTANTS
  Names,        \* prepared ids
  Procs,        \* processes
  Objects,      \* shmem_buf objects
  ProcOf,       \* the process an object lives in
  Writers,      \* the objects with SHMEM_WRITE; the others have SHMEM_READ
  Types,        \* values of DATA_STRUCTURE
  TypeOf,       \* each object's DATA_STRUCTURE
  DataCells,    \* sizeof(DATA_STRUCTURE)
  FormatCells,  \* sizeof(tailer.df), 0 without a debug format
  HashOf,       \* typeinfo_hash
  FormatOf,     \* the debug format
  Segments,     \* bound: the memory to make segments of
  NoSegment,    \* NULL, or no such name
  MaxWrites     \* bound: messages per segment

ASSUME ShmemAssumption ==
  /\ ProcOf \in [Objects -> Procs]
  /\ Writers \subseteq Objects
  /\ TypeOf \in [Objects -> Types]
  /\ Types # {}
  /\ DataCells \in [Types -> Nat \ {0}]
  /\ FormatCells \in [Types -> Nat]
  /\ HashOf \in [Types -> Nat \ {0}]
  /\ FormatOf \in [Types -> Nat]
  /\ NoSegment \notin Segments
  /\ MaxWrites \in Nat

VARIABLES
  dir,            \* the segment each name leads to
  size,           \* length of each segment
  cell,           \* contents of each segment
  pc,             \* how far each object is; see Stages
  fd,             \* the segment shmem_create has opened, for its duration
  buf,            \* the segment mapped
  prev_seq,       \* member `state`, in messages rather than stores
  has_read_once,
  last            \* history: the message the object delivered last

system == <<dir, size, cell>>
state  == <<prev_seq, has_read_once, last>>
vars   == <<system, pc, fd, buf, state>>

-----------------------------------------------------------------------------
Cells == UNION {0..(DataCells[T] + FormatCells[T]) : T \in Types}

Zero == <<"zero", 0>>
Data(n) == <<"data", n>>
Hash(T) == <<"hash", HashOf[T]>>
Format(T) == <<"format", FormatOf[T]>>

SizeOf(T) == DataCells[T] + 1 + FormatCells[T]

\* tailer_loc->th and tailer_loc->df, as an object of type T finds them.
HashCell(T) == DataCells[T]
FormatRange(T) == (DataCells[T] + 1)..(DataCells[T] + FormatCells[T])

Stages ==
  {"none",       \* the object does not exist
   "opened",     \* in init(): shm_open done
   "sized",      \* ftruncate done
   "mapped",     \* mmap done
   "formatted",  \* df.set() done
   "checking",   \* the hash was there already
   "attached",   \* init() done
   "empty"}      \* moved from

NoMessage == <<NoSegment, 0>>

\* Messages in a segment, by the sequence number in its first cell.
Count(i) == cell[i][0][2]

Init ==
  /\ dir = [n \in Names |-> NoSegment]
  /\ size = [i \in Segments |-> 0]
  /\ cell = [i \in Segments |-> [k \in Cells |-> Zero]]
  /\ pc = [o \in Objects |-> "none"]
  /\ fd = [o \in Objects |-> NoSegment]
  /\ buf = [o \in Objects |-> NoSegment]
  /\ prev_seq = [o \in Objects |-> 0]
  /\ has_read_once = [o \in Objects |-> FALSE]
  /\ last = [o \in Objects |-> NoMessage]

Goto(o, stage) == pc' = [pc EXCEPT ![o] = stage]

-----------------------------------------------------------------------------
(* Construction: shmem_create, then the tailer.                            *)

\* The kernel frees a segment when nothing leads to it any more.
InUse(i) ==
  \/ \E n \in Names : dir[n] = i
  \/ \E o \in Objects : fd[o] = i \/ buf[o] = i

\* shm_open(id, O_RDWR | O_CREAT)
ShmOpen(o, n) ==
  /\ pc[o] = "none"
  /\ \/ /\ dir[n] # NoSegment
        /\ fd' = [fd EXCEPT ![o] = dir[n]]
        /\ UNCHANGED system
     \/ \E i \in Segments :
          /\ dir[n] = NoSegment
          /\ ~InUse(i)
          /\ dir' = [dir EXCEPT ![n] = i]
          /\ size' = [size EXCEPT ![i] = 0]
          /\ cell' = [cell EXCEPT ![i] = [k \in Cells |-> Zero]]
          /\ fd' = [fd EXCEPT ![o] = i]
  /\ Goto(o, "opened")
  /\ UNCHANGED <<buf, state>>

\* Seeded fault: the segment is emptied before it is given its size (O_TRUNC).
TruncateAfresh(o) ==
  /\ pc[o] = "opened"
  /\ size' = [size EXCEPT ![fd[o]] = SizeOf(TypeOf[o])]
  /\ cell' = [cell EXCEPT ![fd[o]] = [k \in Cells |-> Zero]]
  /\ Goto(o, "sized")
  /\ UNCHANGED <<dir, fd, buf, state>>

\* ftruncate drops what lies beyond a smaller size.
Truncate(o) ==
  LET i == fd[o]
      new == SizeOf(TypeOf[o])
  IN /\ pc[o] = "opened"
     /\ size' = [size EXCEPT ![i] = new]
     /\ cell' = [cell EXCEPT ![i] =
          [k \in Cells |-> IF new <= k /\ new < size[i] THEN Zero ELSE cell[i][k]]]
     /\ Goto(o, "sized")
     /\ UNCHANGED <<dir, fd, buf, state>>

Map(o) ==
  /\ pc[o] = "sized"
  /\ buf' = [buf EXCEPT ![o] = fd[o]]
  /\ fd' = [fd EXCEPT ![o] = NoSegment]
  /\ Goto(o, "mapped")
  /\ UNCHANGED <<system, state>>

\* tailer_loc->df.set()
SetFormat(o) ==
  LET T == TypeOf[o]
  IN /\ pc[o] = "mapped"
     /\ cell' = [cell EXCEPT ![buf[o]] =
          [k \in Cells |-> IF k \in FormatRange(T) THEN Format(T) ELSE cell[buf[o]][k]]]
     /\ Goto(o, "formatted")
     /\ UNCHANGED <<dir, size, fd, buf, state>>

HashFound(o) == cell[buf[o]][HashCell(TypeOf[o])]

\* Seeded fault: the hash is stored whether or not one is there.
CmpXchBlind(o) ==
  /\ pc[o] = "formatted"
  /\ cell' = [cell EXCEPT ![buf[o]][HashCell(TypeOf[o])] = Hash(TypeOf[o])]
  /\ Goto(o, "attached")
  /\ UNCHANGED <<dir, size, fd, buf, state>>

\* smp_cmp_xch(tailer_loc->th, 0u, type_hash)
CmpXch(o) ==
  /\ pc[o] = "formatted"
  /\ \/ /\ HashFound(o) = Zero
        /\ cell' = [cell EXCEPT ![buf[o]][HashCell(TypeOf[o])] = Hash(TypeOf[o])]
        /\ Goto(o, "attached")
     \/ /\ HashFound(o) # Zero
        /\ Goto(o, "checking")
        /\ UNCHANGED cell
  /\ UNCHANGED <<dir, size, fd, buf, state>>

\* What is left of the objects of a process that dies: nothing.
Die(p) ==
  LET Gone(f, none) == [o \in Objects |-> IF ProcOf[o] = p THEN none ELSE f[o]]
  IN /\ pc' = Gone(pc, "none")
     /\ fd' = Gone(fd, NoSegment)
     /\ buf' = Gone(buf, NoSegment)
     /\ prev_seq' = Gone(prev_seq, 0)
     /\ has_read_once' = Gone(has_read_once, FALSE)
     /\ last' = Gone(last, NoMessage)

\* assert(tailer_loc->th == type_hash)
Validate(o) ==
  /\ pc[o] = "checking"
  /\ \/ /\ HashFound(o) = Hash(TypeOf[o])
        /\ Goto(o, "attached")
        /\ UNCHANGED <<fd, buf, state>>
     \/ /\ HashFound(o) # Hash(TypeOf[o])
        /\ Die(ProcOf[o])
  /\ UNCHANGED system

-----------------------------------------------------------------------------
(* Use.                                                                    *)

Write(o) ==
  LET i == buf[o]
      n == Count(i) + 1
  IN /\ pc[o] = "attached"
     /\ o \in Writers
     /\ n <= MaxWrites
     /\ cell' = [cell EXCEPT ![i] =
          [k \in Cells |-> IF k < DataCells[TypeOf[o]] THEN Data(n) ELSE cell[i][k]]]
     /\ UNCHANGED <<dir, size, pc, fd, buf, state>>

Reads(o) == pc[o] = "attached" /\ o \notin Writers

Newest(o) == <<buf[o], Count(buf[o])>>

\* What read() would answer.
Answer(o) ==
  IF Count(buf[o]) # prev_seq[o] THEN "ok"
  ELSE IF Count(buf[o]) = 0 /\ ~has_read_once[o] THEN "ENOMSG" ELSE "EAGAIN"

Read(o) ==
  /\ Reads(o)
  /\ Answer(o) = "ok"
  /\ prev_seq' = [prev_seq EXCEPT ![o] = Count(buf[o])]
  /\ has_read_once' = [has_read_once EXCEPT ![o] = TRUE]
  /\ last' = [last EXCEPT ![o] = Newest(o)]
  /\ UNCHANGED <<system, pc, fd, buf>>

\* Seeded fault: a move assignment that takes the mapping and not the state.
MoveMapping(o, q) ==
  /\ pc[o] \in {"attached", "empty"}
  /\ pc[q] \in {"none", "attached", "empty"}
  /\ ProcOf[o] = ProcOf[q] /\ TypeOf[o] = TypeOf[q] /\ (o \in Writers <=> q \in Writers)
  /\ buf' = [buf EXCEPT ![q] = buf[o], ![o] = NoSegment]
  /\ pc' = [pc EXCEPT ![q] = pc[o], ![o] = "empty"]
  /\ UNCHANGED <<system, fd, state>>

\* Seeded fault: a move that leaves other.buf as it was.
MoveTwice(o, q) ==
  /\ pc[o] \in {"attached", "empty"}
  /\ pc[q] \in {"none", "attached", "empty"}
  /\ ProcOf[o] = ProcOf[q] /\ TypeOf[o] = TypeOf[q] /\ (o \in Writers <=> q \in Writers)
  /\ buf' = [buf EXCEPT ![q] = buf[o]]
  /\ pc' = [pc EXCEPT ![q] = pc[o], ![o] = "empty"]
  /\ prev_seq' = [prev_seq EXCEPT ![q] = prev_seq[o]]
  /\ has_read_once' = [has_read_once EXCEPT ![q] = has_read_once[o]]
  /\ last' = [last EXCEPT ![q] = last[o]]
  /\ UNCHANGED <<system, fd>>

\* q = std::move(o), or q constructed from it; o may be q itself.
Move(o, q) ==
  /\ pc[o] \in {"attached", "empty"}
  /\ pc[q] \in {"none", "attached", "empty"}
  /\ ProcOf[o] = ProcOf[q] /\ TypeOf[o] = TypeOf[q] /\ (o \in Writers <=> q \in Writers)
  /\ buf' = [buf EXCEPT ![q] = buf[o], ![o] = NoSegment]
  /\ pc' = [pc EXCEPT ![q] = pc[o], ![o] = "empty"]
  /\ prev_seq' = [prev_seq EXCEPT ![q] = prev_seq[o]]
  /\ has_read_once' = [has_read_once EXCEPT ![q] = has_read_once[o]]
  /\ last' = [last EXCEPT ![q] = last[o]]
  /\ UNCHANGED <<system, fd>>

-----------------------------------------------------------------------------
(* Letting go.                                                             *)

Destroy(o) ==
  /\ pc[o] \in {"attached", "empty"}
  /\ Goto(o, "none")
  /\ buf' = [buf EXCEPT ![o] = NoSegment]
  /\ prev_seq' = [prev_seq EXCEPT ![o] = 0]
  /\ has_read_once' = [has_read_once EXCEPT ![o] = FALSE]
  /\ last' = [last EXCEPT ![o] = NoMessage]
  /\ UNCHANGED <<system, fd>>

\* A process ends at any point, by itself, by a signal, or by one of the
\* asserts on the return value of shmem_create.
Crash(p) ==
  /\ \E o \in Objects : ProcOf[o] = p /\ pc[o] # "none"
  /\ Die(p)
  /\ UNCHANGED system

\* One round of the loop of shmem_unlink_all, of the ipc_cleanup tool, or rm.
Unlink(n) ==
  /\ dir[n] # NoSegment
  /\ dir' = [dir EXCEPT ![n] = NoSegment]
  /\ UNCHANGED <<size, cell, pc, fd, buf, state>>

-----------------------------------------------------------------------------
ObjectStep(o) ==
  \/ \E n \in Names : ShmOpen(o, n)
  \/ Truncate(o) \/ Map(o) \/ SetFormat(o) \/ CmpXch(o) \/ Validate(o)
  \/ Write(o) \/ Read(o) \/ Destroy(o)
  \/ \E q \in Objects : Move(o, q)

Next ==
  \/ \E o \in Objects : ObjectStep(o)
  \/ \E p \in Procs : Crash(p)
  \/ \E n \in Names : Unlink(n)

Spec == Init /\ [][Next]_vars

-----------------------------------------------------------------------------
(* Properties.                                                             *)

Messages == 0..MaxWrites

Values ==
  {Zero} \cup {Data(n) : n \in Messages} \cup {Hash(T) : T \in Types}
  \cup {Format(T) : T \in Types}

\* Every variable has its type, and an object has a mapping when it needs one.
TypeOK ==
  /\ dir \in [Names -> Segments \cup {NoSegment}]
  /\ size \in [Segments -> Nat]
  /\ cell \in [Segments -> [Cells -> Values]]
  /\ \A i \in Segments : cell[i][0] \in {Zero} \cup {Data(n) : n \in Messages}
  /\ pc \in [Objects -> Stages]
  /\ fd \in [Objects -> Segments \cup {NoSegment}]
  /\ buf \in [Objects -> Segments \cup {NoSegment}]
  /\ prev_seq \in [Objects -> Messages]
  /\ has_read_once \in [Objects -> BOOLEAN]
  /\ last \in [Objects -> (Segments \cup {NoSegment}) \X Messages]
  /\ \A o \in Objects :
       /\ pc[o] \in {"opened", "sized"} <=> fd[o] # NoSegment
       /\ pc[o] \in {"mapped", "formatted", "checking", "attached"} <=> buf[o] # NoSegment

\* Whatever the order in which objects of different types come to a segment,
\* die in the middle of init() and come back, those that got through init() are
\* of one type (shmem.h: "put type tailer in the end for validation").
AttachedTypesAgree ==
  \A o, q \in Objects :
    pc[o] = "attached" /\ pc[q] = "attached" /\ buf[o] = buf[q]
      => TypeOf[o] = TypeOf[q]

\* No creation, refusal, move, crash, restart or unlinking changes what was
\* written: a segment's data cells change by a write to it only (README.md:
\* "Shared memory is left open on shutdown, so it gets reused on restart").
InData(k) == \E T \in Types : k < DataCells[T]
DataOnlyByWrite ==
  [][\A i \in Segments : \A k \in Cells :
       InUse(i) /\ InData(k) /\ cell'[i][k] # cell[i][k]
         => \E o \in Objects : buf[o] = i /\ Write(o)]_vars

\* A read that would fail with EAGAIN would hand back the very message the
\* object delivered last (ipc.h: "the last message received will be returned").
EagainRepeats ==
  \A o \in Objects : Reads(o) /\ Answer(o) = "EAGAIN" => last[o] = Newest(o)
=============================================================================
