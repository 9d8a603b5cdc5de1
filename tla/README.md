# Verification of tyndall

TLA+ models of tyndall's inter-process communication and of the code around it,
checked with TLC on small instances and, where marked, proved with TLAPS for
every value of the constants. Paths are relative to the repository's root.

## 1. Inventory

| component | source | state | operations |
|---|---|---|---|
| Sequence lock | `tyndall/ipc/seq_lock.h`, `smp.h` | in shared memory: `seq`, `entry`; per reader object: `prev_seq`, `has_read_once` | `write`, `read` |
| Segment | `tyndall/ipc/shmem.h` | `/dev/shm` directory, segments and their sizes, type tailer (hash, debug format); per object: `buf`, `state` | construct/`init`, `uninit`/destroy, move, `write`, `read`, `shmem_unlink_all` |
| ipc API | `tyndall/ipc/ipc.h` | one function-local static object per call with a new type and id | `ipc_write`, `ipc_read`, `create_ipc_writer/reader`, `ipc_cleanup` |
| Runtime ids | `tyndall/ipc/ipc_rtid.h` | a static vector of (id, object) per type | `ipc_rtid_write/read`, `create_ipc_rtid_lazy` |
| Ids | `tyndall/ipc/id.h`, `meta/hash.h`, `meta/strval.h` | none | name normalisation, FNV-1a, at compile and at run time |
| Type information | `tyndall/meta/typeinfo.h` | none | hash of a type's printed name |
| Log levels | `tyndall/log/` | `LOG_LEVEL`; a static `should_log` per call site | `log_level`, `log_glob_match`, `log_level_from_string` |
| Reflection | `tyndall/reflect/` | none (compile time) | `n_fields`, `reflect`, `get_format` |
| ipc_read tool | `tools/ipc_read.cpp`, `reflect/print_format.h` | its own last `seq` | read loop, printing by format |
| ipc_cleanup tool | `tools/ipc_cleanup.cpp` | none | unlink by prefix |
| God | `examples/ipc/god.cpp` | table of children (pid, alive, respawn), signal handlers | spawn, SIGCHLD handler, SIGINT handler |
| Rest | `meta/macro.h`, `debug.h`, `static_warn.h`, examples, CMake, tests | none of interest | |

How they interact: `ipc_write`/`ipc_read` build a name (Ids), attach an object to
the segment of that name (Segment, which stores the Type information and the
Reflection's format in the tailer), and then write or read the Sequence lock that
lies in it. Processes share nothing but the segments. The tools attach to the
same segments without the tailer check; God starts the processes and unlinks the
segments when it stops.

What is hard in each, and what makes it correct:

* Sequence lock: an entry is copied while it is being stored. Correct when an
  accepted entry is one whole message and the newest one, when the three answers
  0, `EAGAIN`, `ENOMSG` are right over every history of reads, when the memory
  barriers suffice on a machine that reorders, and when every read returns. Hard:
  the wrap of `seq`, reader objects shared by threads, a writer that dies half way.
* Segment: several processes create, resize, check and unlink one name at once.
  Correct when objects attached to one segment agree on its type, when attaching,
  detaching and dying never change a message, and when a restart finds the segment.
* Runtime ids: references into a vector that grows. Correct when no transport loses
  its mapping or its state to a move, and an id finds the transport it found before.
* Ids: two ids collide only as far as the hash allows; both ways of preparing an
  id agree, so that a topic is one topic however its id is spelled and passed.
* Log levels: which entry of `LOG_LEVEL` decides for a category. Correct when the
  result is the one its comment describes and the places that log go by it. Hard:
  the glob loop, which never goes back, entries that fall through to another
  meaning, and threads that meet at a place for the first time.
* Reflection and printing: the number of fields found is the number there is; a
  format walks a buffer exactly as the compiler laid the struct out; the tool prints
  the newest message and none twice, while the writer goes on.
* God: every child that dies in error is started again as often as its budget
  says, never twice at once, and none outlives God.

## 2. Plan

| order | modules | says | state |
|---|---|---|---|
| 1 | `LatestEntry`, `SeqLock`, `SeqLockProofs` | the lock, its promise, its proofs | done |
| 2 | `SeqLockBarriers`, `SeqLockBarriersProofs` | the lock on a reordering machine, refines `SeqLock` | done, proved |
| 3 | `SeqLockCrash` | the lock with a dying writer | done |
| 4 | `Shmem`, `ShmemProofs` | attach, tailer, unlink, restart | done |
| 5 | `God`, `GodProofs` | the supervisor | done |
| 6 | `TopicMap`, `Ids`, `Registry` | ids, registries and static objects, refine `TopicMap` | done, proved |
| 7 | `LogLevel`, `LogSite`, `LogProofs` | parsing against a reference reading of its comment, the place that logs | done, proved |
| 8 | `Reflect`, `IpcRead`, `IpcReadProofs` | formats and the tool that prints by them | done, proved |

Left: two writers on one topic.

## 3. Modules

### LatestEntry
What callers are promised: one writer publishes messages 1, 2, 3, ...; a read
takes one indivisible step (`Read`) between `Call` and `Return` in which it gets
the newest message whole and learns whether it is new to its reader object.

### SeqLock
`seq_lock.h`, one shared access per step.

| variable | code |
|---|---|
| `seq`, `entry` | the members of `seq_lock` in shared memory; `entry` is a function on `Words`, the pieces the build copies it in |
| `writing`, `wseq`, `wleft` | where the writer is in `write()`, its local `seq`, the words it still has to store |
| `pc`, `seq1`, `todo`, `copied`, `rc` | where a thread is in `read()`, its locals, words still to load, its out-parameter, its return value with errno |
| `prev_seq`, `has_read_once` | `seq_lock_state` of a reader object |
| `written`, `began`, `span`, `delivered` | history only: writes begun, how many stores to `seq` there had been at the load of `seq1` and between the loop's two loads, what the object last delivered |

`HandleOf` says which reader object a thread reads through: one each for
`create_ipc_reader`, one for all for `ipc_read` from several threads (a
function-local static). Words are copied in any order, since the compiler is free
to choose one. The payload of a message is its number. `SeqModulus` is the number
of values of an `unsigned`. `Reopen` is the destruction and re-creation of a
reader object, or the restart of its process.

With a shared object the tests and assignments after the loop are taken as one
step; the real interleavings are finer, so the violation shown with a shared
object is one the code has, and no positive claim is made for that case.

### SeqLockBarriers
The same code with a store buffer for the writer, which drains in any order that
respects `smp_wmb` and per-location order, and readers whose loads are performed in
any order that respects `smp_rmb`. Its `Memory` mapping shows it as `SeqLock`. Arm's
`dmb` is covered; x86-64, where the macros are compiler barriers and the hardware
keeps stores in order and loads in order, has fewer behaviours.

### SeqLockCrash
`SeqLock` plus the death of the writer process inside `write()`. The segment keeps
what was in it, and the restarted writer starts from there.

### Shmem
`shmem.h`, one system call or tailer access per step. A segment is a row of cells:
the data structure (its first cell stands for `seq`), then the tailer, which every
type puts right after its own data structure.

| variable | code |
|---|---|
| `dir` | the names in `/dev/shm` |
| `size`, `cell` | length and contents of each segment; a name leads to one, and a segment nothing leads to is free again |
| `pc`, `fd` | how far an object is in `init()`, `shmem_create`'s local |
| `buf`, `prev_seq`, `has_read_once` | members of `shmem_buf` |
| `last` | history: what the object delivered last |

`ShmOpen`, `Truncate` and `Map` are the three calls of `shmem_create`; `SetFormat`,
`CmpXch` and `Validate` the tailer. A refused object takes its process with it
(`assert`), as `Crash` does at any other point. `Move` is both move operations, also
onto an object in use and onto itself. `Unlink` is a round of the loop of
`shmem_unlink_all`, and of `ipc_cleanup`. Reads and writes of the data are single
steps, which `SeqLock` justifies. A mapping that is longer than its segment stays
usable, as it does within a page; the bus error beyond a page is left out. Objects of
one type write the same format, so the order of the bytes of `df.set()` is not seen.

### God
`god.cpp` as the build makes it (`-DDEBUG`, so assertions are evaluated).

| variable | code |
|---|---|
| `pid`, `alive`, `respawn` | the table of children |
| `top` | the function that runs: `main`, or the handler that interrupted last |
| `at`, `next` | `main()` and its loop |
| `frame` | `fork_child`: its stage, child and `fork()` result; only `main()`'s loop and `child_handler` call it, never at once |
| `child_at`, `got`, `status`, `index` | `child_handler` and its locals |
| `exit_at`, `i` | `exit_handler` |
| `on_int`, `on_chld`, `pending` | dispositions; pending signals, one bit each |
| `forks`, `life`, `of`, `ended`, `told` | the kernel's processes, numbered by fork |

A signal is delivered between any two steps unless its own handler is active
(`signal()` blocks no other). `fork()`, the store to `pid` and the store to `alive` are
three steps. Pids are not reused. `Die` is a child that ends with status 0, with
SIGINT or in error, a failed `execvp` included. Left out: the copy of the handlers a
child has before `execvp`, and what `printf` and `exit` may do inside a handler.

### TopicMap
What the callers of the four macros are promised, above ids and objects: a message
written to a topic is read from it, and a reader is told each message is new once.

### Ids
The two ways an id becomes a segment name: `id_prepare` (templates on `strval`) and
`id_rtid_prepare` (a `std::string`), with `ToStrval` and `StdToString` apart, since they
differ at 0. `Hash` is a parameter, a number for each id without leading slashes.

### Registry
`ipc_rtid.h` and the static objects of `ipc.h`, one process per registry user.

| variable | code |
|---|---|
| `registry`, `capacity` | the static vector of `create_ipc_rtid_lazy` |
| `temp`, `storage` | the item `push_back` was called with; the larger array while the vector grows |
| `pc`, `wanted`, `item` | where the call is, `prepared_id`, the loop's position |
| `literal` | the static objects, by spelling |
| `count` | messages in each segment |
| `mapped` | history: how often each process has mapped each segment |
| `answer` | what the last read returned to whom |

`Lookup` is a round of the loop. `Construct` makes the temporary; `PushBack` moves it
into the vector and destroys it; `Grow`, `Relocate` (one item a step: its move
constructor and the destructor of what it was moved from) and `Relocated` are what
libstdc++ does when there is no room. A `seq_lock` read or write and an object's
construction are one step each, as `SeqLock` and `Shmem` justify. The registries have
no lock, so a process uses its registry from one thread. Readers and writers have
registries of their own, the transport being a template parameter. The entry has one
type. An object that a caller makes with `create_ipc_rtid_reader/writer` and keeps is a
`Fresh` without a registry and is not modelled apart.

### LogLevel
`log_level()` and `log_glob_match()`, one round of a loop per step. A text is a row of
tokens: a level name or a character (`comma` is one). A category and a pattern may contain a name, as one
token; numbers have one digit. `ReadEntry` decides what an entry is,
`MatchPiece` looks for one piece of a pattern, `ReadValue` takes the level behind the
colon or falls back. `DocumentedResult` is the reference: what `log.h:50-59` says of a
value that has the described form (`Documented`), found with sets and a layout of the
pieces instead of loops. A pattern need not match the whole category (`my_ca*e*ry` is
found inside a longer name), and a star at the end needs a further character; both are
what the loop does, and the reference (`HasLayout`) says the same. The described form leaves
the names of categories free: a key may begin like a level (`error_handler:debug`).

`Misread` names what the code gets wrong, and nothing more (with the texts of the run, and by the
theorem, everything else is right):

* a value of one character, which is not read (`log.cpp:97`);
* a 0 in the entry that decides, unless it ends the text (`log.cpp:47, 49`);
* a key that begins with a level's name, or with a digit other than 0, where no entry concerns the category and
  there is no level for everything: such an entry, meant for another category, falls through to the
  branch for levels (`log.cpp:112`) and is read as one. Elsewhere such keys do no harm, since a level
  found before is kept and one found later replaces it.

`IntegersAccepted` and `OthersLeftAlone` state what `log.h` says with these cases included; the code
violates both.

### LogSite
`log_cat_log` at one place, run by threads: the guard of the static (`Acquire`, `Parse`,
`Release`, `Pass`) and the use of its value. `cat` of the parse is the category of the call
that came first. Making and writing the line is left out.

### Reflect
`reflect<T>().get_format()`, one template instantiation per step: the halving and the
count down of `n_fields`, the binding of the fields, and the walk over them.
`todo` is the work left, its head the struct being searched. What fails to compile ends
in "refused".

What the compiler makes of a type is the reference and a constant: `alignof`, `sizeof`,
`offsetof`, and `layout`, the row of its scalars with their places (`before` says how many
of them come before each field). `LayoutAssumption` states the rules the compiler keeps,
one level at a time: a scalar lies at a multiple of its size, the fields of a class in order,
each at the first place its type may have, and the size is rounded up to the alignment.
`NestingAssumption` says that no type contains itself. `MCIpcRead` computes the constants by
recursion, and TLC checks the assumptions of them.

### IpcRead
The tool on the segment of a writer whose type went through `Reflect`.

| variable | code |
|---|---|
| `published` | messages written, standing for `seq` of the segment |
| `seq`, `argument` | `main()`'s `seq`, `argv[2]` |
| `fmt`, `f`, `b` | the parameters and locals of `print()`, `b` from the start of `buf` |
| `line` | what was printed on the line: id, place and message of each field |

`Poll` is a round of the loop in `main()`, its copy being one step (`SeqLock`);
`PrintField` and `EndLine` are rounds of the loop in `print()`. The sizes are those of
x86-64 (cache lines of 64 bytes). How a value is rendered is left out.

## 4. Runs

| run | instance | shows |
|---|---|---|
| `seqlock` | 2 threads with own objects, 2 words, modulus 8, 3 writes; fairness | `IInv`, `AnswersInOrder`, `ImplementsLatestEntry`, `ReadReturns` |
| `seqlock_barriers` | 1 thread, 2 words, buffer of 8, modulus 4, 5 writes: `seq` goes round twice | `TypeOK`, `AcceptedUntorn`, `ImplementsSeqLock` |
| `shmem` | a writer and 2 readers of one type, an object of another type of the same size, in 2 processes, 1 name, 2 segments, 2 messages | `TypeOK`, `AttachedTypesAgree`, `DataOnlyByWrite`, `EagainRepeats` |
| `god` | 2 children (respawn -1 and 1), 3 errors, failing forks; fairness | `TypeOK`, `RunningIsKnown`, `OneIncarnation`, `RespawnBudget`, `HandlerReturns` |
| `registry` | a reader with 4 spellings of 3 topics at run time and 1 literal, a writer with 1 and 1, 2 messages a segment | `MappingsOwned`, `ImplementsTopicMap` |
| `log` | 2 threads, 2 categories, 2 levels, every `LOG_LEVEL` of 2 entries of 20 and of 3 of 5; fairness | `GlobIsLayout`, `ReadAsDocumented`, `PrintedAsConfigured`, `EveryCallReturns` |
| `ipc_read` | 18 entry types, 6 formats on the command line and none, 3 messages; fairness | `CountsFields`, `FormatIsLayout`, `FieldsAsLaidOut`, `FieldsApart`, `EntryCopied`, `PrintedOnce`, `NewestPrinted` |
| `crash_torn` | writer dies, restarts | entries of two messages accepted |
| `shmem_sizes` | as `shmem` with one reader, types of two sizes | two types attached to one segment |
| `god_respawn` | 2 children | one of two deaths is forgotten |
| `log_examples` | as `log` | `LOG_LEVEL=1` is not read |
| `log_others` | as `log`, `LOG_LEVEL` of 1 or 2 pairs for debug | a key that begins with `error` sets other categories to error |

The last five runs end in a violation: each is a disagreement between the code and
a sentence of its comments, tests or README, listed under `findings` in
`PROJECT.json`.

Bounds. Two words suffice to tell a torn entry from a whole one, and two threads
to have an object overtaken by another thread or by itself. Three writes let a
reader be overtaken by a whole write and stay in the middle of another. Modulus 4
with five writes makes `seq` pass 0 twice, and lets a reader sleep through a full
turn, the case `AcceptedUntorn` excludes by its hypothesis `span < SeqModulus`. A
buffer of eight holds more than one write with its barriers. The writer's bound
`MaxWrites` is in the guard of `WriteBegin`. In the segment runs two segments let a
name be unlinked and made again while the old segment is in use, three objects at once let
one come between the steps of two others, and the segments, being interchangeable,
are declared symmetric. In `shmem` the second reader, which is there for moves between readers, and
the object of another type take turns (the state constraint `NotBoth`); the theorems about `Shmem` need
neither this nor any other bound. The other type is compiled without debug data, so that its tailer is
shorter: resizing by one type cuts off what the other put there. `Segments` is the bound on memory,
`MaxWrites` on messages.

In `registry`, three topics make the vector grow from 0 to 1, 2 and 4, so that items are
moved that have been read before and others that have not, one of them twice. The ids
are `/a/b`, `a/b`, `a_b` and `c`: two of one topic, and two topics that differ in a
slash for an underscore. Their hashes have one and two digits, one ends in 0, and none is 0:
for a hash of 0 the two ways of naming disagree (`strval.h:146`), and the property fails.

In `log`, a category with a character in it twice lets the first place for a piece be
the wrong one for the next; the other category's name, and two keys, begin like a level;
patterns have up to two stars; two entries meet in every order, and three where the order decides.

In `ipc_read`, the types have padding at the beginning, between fields and at the end,
structs in structs two deep, more fields than are allowed, a field without an id, and no
format at all. Of these one is a cache line long and loses four bytes, and another is, ends
in two-byte fields and loses its last (see `FieldsAsLaidOut`). Three messages let one be skipped, and
one come while another is printed.

In `god`, three errors let the child with a budget of one use it up and go on, and
let two children die at once. `MaxErrors` bounds deaths in error, and with
them forks.

Fairness. `Fairness` says that a write once begun and a read once called go on:
the kernel runs every runnable process. It does not say that anybody begins one.
`ReadReturns` rests on the number of writes being finite: against an unending
stream of writes the loop may retry for ever, as any sequence lock may.

`HandlerReturns` assumes that god is scheduled and its signals delivered, nothing of
its children.

`EveryCallReturns` assumes that a thread that can run does, and that one that waits for
the static goes on once it is set. `NewestPrinted` assumes that the tool is scheduled, and
of the writer nothing.

Deadlock is checked except in `crash_torn`, where the only reader may spin on an odd
`seq` with no write left to make, in the runs of `God`, where god exits and all children
end, and in `ipc_read`, where the compiler may refuse the type and the tool has nothing
left to print once the writer is done.

## 5. Proofs

`SeqLockProofs`, for every set of words, threads and reader objects, every even
modulus and every number of writes (`SeqLockAssumption`):

| theorem | says | needs |
|---|---|---|
| `Invariance` | `Spec => []IInv` | |
| `TypeCorrect` | `Spec => []TypeOK` | |
| `NeverTorn` | `Spec => []AcceptedUntorn` | |
| `InOrder` | `Spec => AnswersInOrder` | `NoWrap`, `PrivateHandles` |
| `Linearizable` | `Spec => ImplementsLatestEntry` | `NoWrap`, `PrivateHandles` |

`AcceptedUntorn` is not inductive: it says nothing of a thread still copying. The
strengthening `IInv` has these parts. `WriterInv`: `seq` is odd exactly during a
write, and the entry is whole up to the words still to store. `CopyInv`: while a
thread copies, `seq` differs from its `seq1` by the number of stores since then
(with one wrap taken off), so that `seq = seq1` within a turn means no store, and
then the words copied so far belong to the message of `seq1`. `CountInv` and
`OwnStateInv`, for histories without a wrap: `seq`, `seq1` and `prev_seq` count
stores, `prev_seq` stands for the message the object delivered last, and is never
ahead of its only thread.

`Linearizable` maps each store that ends a write to `Publish` and the load of `seq`
that ends the read loop to `Read`; everything else is a call, a return, a reopening
or a stuttering step. `NoWrap` and `PrivateHandles` are not conveniences: a topic
whose `seq` has come round to 0 answers ENOMSG although it was written, and
an object that two threads use answers out of order: a slow thread returns an older
message as new.

`SeqLockBarriersProofs`, for every set of words and threads, every even modulus, every number
of writes and every size of the store buffer (`SeqLockAssumption`, and `BarrierAssumption`:
what a load or a store is of has one name):

| theorem | says | needs |
|---|---|---|
| `Buffered` | `BSpec => []BInv` | |
| `BarriersTypeCorrect` | `BSpec => []TypeOK` | |
| `Implements` | `BSpec => ImplementsSeqLock` | |
| `BarriersNeverTorn` | `BSpec => []AcceptedUntorn` | |

The invariant describes the buffer. `Numbered`: the stores to `seq` in flight are the next ones
after memory's, each once, in order. `Apart`: between a store to `seq` and one to the entry there
is a barrier, so that none passes the other. `WordsInv`: every word of the message being written
is in memory, in the buffer, or still to be stored. `TripInv` says which loads of a thread's
trip round the loop are left: all of them, or the second load of `seq` and the words not yet loaded, or
none, so that every word lies between the two loads of `seq`. Together they place memory in a state of `SeqLock`: a store to `seq` that leaves the buffer
maps to `WriteBegin` or `WriteEnd` by its parity, a word that does to `StoreWord`, the three kinds of
loads to `ReadBegin`, `LoadWord` and `ReadRetry`, and whatever stays within the processor to
stuttering. `BarriersNeverTorn` rests on `HeardInv`, the counterpart of `CopyInv`: how far `seq` in
memory has come since a thread's load of `seq1` is the number of stores that have arrived since, with one
wrap taken off, and while none has the words loaded are those of the message of `seq1`.

`ShmemProofs`, for every number of names, processes, objects, types, segments and
messages (`ShmemAssumption`):

| theorem | says | needs |
|---|---|---|
| `TypeCorrect` | `Spec => []TypeOK` | |
| `OneTypeToASegment` | `Spec => []AttachedTypesAgree` | `OneSize`, `DistinctHashes` |
| `DataSurvives` | `Spec => DataOnlyByWrite` | `OneSize` |
| `EagainIsRepetition` | `Spec => []EagainRepeats` | |

`AttachedTypesAgree` rests on `HashInv`: the hash an attached object found or stored
is still there. `HashCellKept` shows that no step of anybody changes a hash that is not
zero, which holds because all types look for it in one place (`OneSize`); the run
`shmem_sizes` shows what happens otherwise. `OneSize` is not rare: `seq_lock` is
aligned to cache lines, so types of similar size are of the same size.
`EagainRepeats` rests on `MemoryInv`, which ties `prev_seq` to the message delivered
last and says that an object not yet attached remembers nothing.

`GodProofs`, for every table and every number of errors (`GodAssumption`):
`TypeCorrect`, `NeverForgetsTheLiving` (`RunningIsKnown`), `NeverTwice`
(`OneIncarnation`) and `WithinBudget` (`RespawnBudget`), all from one invariant
`IInv`. `RunningIsKnown` alone is not inductive: a pid in the table must belong to
that child (`ProcessInv`), a child being forked must be marked dead, and the pid a
handler holds must be one that was waited for, so that marking it dead hits nobody
who runs. `BudgetInv` counts forks against the starts a child still has (`Due`),
through the window between the fork and the decrement.

`IpcReadProofs`, for every set of types, every format, every assignment of numbers and
every number of messages (`FieldsAssumption`, `LayoutAssumption`, `NestingAssumption`,
`SizeAssumption`, `NumberAssumption`: type ids are no numbers, and a type without an id is not
named on the command line):

| theorem | says | needs |
|---|---|---|
| `CountsFieldsAlways` | `Spec => []CountsFields` | |
| `FormatIsLayoutAlways` | `Spec => []FormatIsLayout` | |
| `FieldsAsLaidOutAlways` | `Spec => []FieldsAsLaidOut` | |
| `FieldsApartAlways` | `Spec => []FieldsApart` | |
| `EntryCopiedAlways` | `Spec => []EntryCopied` | |
| `PrintedOnceAlways` | `Spec => PrintedOnce` | |

`CountsFields` rests on a search invariant: while the bound is halved the count is at
most twice the bound and one more, and while it counts down it is at most the bound. It needs that
a field takes at least a bit, which is why the first bound is `sizeof(T) * CHAR_BIT`.
`EntryCopied` is arithmetic of cache lines and the tailer. `FieldsApart` needs that the
line's last field ends where `b` is.

`FormatIsLayout` speaks of the finished format only. `FormatInv` says of every step that the
format is the beginning of the layout and that what is still to be formatted makes up the rest: there
are places (`Placed`), one for each type in `todo`, at which the layout of the entry type reads as
the layout of that type. A struct that is replaced by its fields (`BindPlaces`) hands its place on
to them, by the compiler's rule; no induction over types is needed.

`FieldsAsLaidOut` needs one. `UniformPacked`: a type whose scalars have one size has them side by
side and no padding, by a least depth at which it had not. Then the scalars of a `Simple` type lie
each at the first place it may have behind the one before (`Laid`), which is all
`print_format_alignment` knows; `LaidInv` says that the line is the beginning of the layout and that
`b` is its end. The last field is printed when the entry has been copied to its end (`sizeof[type]
<= buf_size`): without this the property fails, since for a type without a format `main()` takes four
bytes too many off the size of the segment (`ipc_read.cpp:98`), and a type that ends in two-byte fields
at the end of a cache line loses the last of them even if its format is given on the command line.
The theorem uses of the rest of the system that the tool finds the whole text (`FormatFound`), which the
tailer's `static_assert` sees to.

`RegistryProofs`, for every set of processes and ids, every program, and every number of
messages (`ProgramsAssumption`, and `NamesAssumption`: a name is not empty, which the
underscores of `id.h` see to):

| theorem | says | needs |
|---|---|---|
| `Invariance` | `Spec => []IInv` | |
| `ImplementsTopics` | `Spec => ImplementsTopicMap` | `NamesAgree`, `NamesDiffer` |
| `Owned` (`RegistryOwnerProofs`) | `Spec => []MappingsOwned` | finitely many ids |

`NamesAgree` says that both ways of making a name agree, which they do unless a hash is 0;
`NamesDiffer` that the hash tells apart the topics that the underscores make alike, which is all
the library has against `my/topic` meeting `my_topic`. In `IInv`, `CallInv` says that the part of
the registry a call has searched does not have its id, so that a new item is the only one,
and `RegistryInv` that while the array grows the items moved remember what they did
and are where they were mapped. Reads and writes map to `Read` and `Write` of the topic
whose name the call looks for; growing maps to stuttering, since an item and what it was
moved from remember the same. `Owned` counts the four kinds of places apart (`Held`) and
shows of each action that what one kind loses another gains; it needs to know
that what an item was moved from owns nothing (`Emptied`), which is the move constructor's
assignment.

`LogProofs`, for every `LOG_LEVEL`, category, level and number of threads (`TextsAssumption`:
texts are sequences of tokens):

| theorem | says | needs |
|---|---|---|
| `Invariance` | `Spec => []SiteInv` | |
| `GlobFindsLayouts` | `Spec => []GlobIsLayout` | |
| `ReadsWhatIsDocumented` | `Spec => []ReadAsDocumented` | |
| `PrintsWhatIsConfigured` | `Spec => []PrintedAsConfigured` | |

`GlobIsLayout` speaks of the end of the glob loop only. `GlobInv` says of each round that the
pieces before `pat_start` lie in the category up to `str_index` if `ret` still holds, and that in
*every* layout of the whole pattern the next piece lies at `str_index` or later: taking the
first place loses nothing. `ResultInv` says what the entries before `e` amount to (`Says`): nothing if none in
the whole text concerns the category, and what the entry that decides says once it has been read. Before
that anything may be there, since a key of another category can be read as a level: the entry that decides replaces
it if it is a pair, and comes first if it is the level for everything. After it, an entry that does not match changes
nothing, because there is a level already. Where no entry concerns the category this does not help,
and the third case of `Misread` is needed (`PairIs`). `GuardInv` has one thread at most in
the initialiser. The two properties about results have
the form of `LOG_LEVEL` (`Documented`, without `Misread`) as their hypothesis, as the theorems do; section 3
says what `Misread` leaves out.

Model-checked only: liveness (`ReadReturns`, `HandlerReturns`, `EveryCallReturns`,
`NewestPrinted`), which is out of the provers' reach, and the crash behaviours, whose run shows a
violation. Every safety property and every refinement of the passing runs is proved.

## 6. Seeded faults

Definitions marked "Seeded fault" are variants of the definition below them with a
plausible mistake (a missing barrier, a missing retry, a forgotten increment).
Nothing uses them; `PROJECT.json` (`mutants`) says which property fails when one
takes the place of the original.

## 7. Not modelled

Two writers on one topic, and threads that share a registry (the library forbids the
one, has no lock for the other, and detects neither). Known, but no run is spent on it: a
reader object shared by threads, which answers out of order; readers that spin for ever
when a writer died in a write; a child that dies after god's exit handler has begun, whose
failed `kill()` ends god before it has told the others.

The arithmetic of FNV-1a (a parameter of `Ids`) and of `typeinfo.h` (a constant of
`Shmem`). In `log`, pieces of patterns that cut through a level's name, numbers of several digits,
blanks and signs before a number, and an empty `LOG_LEVEL`, for which `e[1]` lies behind the text; the layout
of a printed line. In `Shmem`, `init(id)` on an object that is attached or was moved from, which nothing in the
repository does. In the format, C arrays, empty structs, and how a value is rendered: `unsigned long`
is printed with `%u`, and `s` is always a short in the code and in the model, though `README.md:276`
calls it a string and `print()` has a case for one. In `Registry`, the order in which `libstdc++` moves items and
destroys what they were moved from (all moves first when a move may throw), which one thread cannot see.
In the tool, a name that does not exist, for which it creates an empty segment
and fails to map it. `macro.h`, `static_warn.h` and `debug.h` are gone, or print, before
there is a state to speak of. The demonstrations, the build and the tests.
