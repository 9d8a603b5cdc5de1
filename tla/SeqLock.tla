------------------------------- MODULE SeqLock -------------------------------
(***************************************************************************)
(* The sequence lock of tyndall/ipc/seq_lock.h: one writer and any number  *)
(* of reader threads on one shared-memory topic.                            *)
(*                                                                         *)
(* A step is one access to the shared sequence number, one word of an       *)
(* entry copied, or code that touches only the thread's own data.  The     *)
(* entry is an aggregate the build copies piece by piece in an order of    *)
(* its choosing, so words are stored and loaded in any order.  The memory   *)
(* barriers are taken at their word here: accesses on two sides of one      *)
(* happen in that order (SeqLockBarriers spells the barriers out and        *)
(* refines this module).                                                    *)
(*                                                                         *)
(* The payload of a message is its number: the n-th write stores n into    *)
(* every word, so an entry mixed from two messages shows.                   *)
(***************************************************************************)
EXTENDS Integers

CONSTANTS
  Words,       \* the pieces an entry (STORAGE) is copied in
  Threads,     \* threads that call read()
  Handles,     \* reader objects (shmem_buf<.., SHMEM_READ>), each with its state
  HandleOf,    \* the reader object each thread calls read() on
  SeqModulus,  \* number of values of `unsigned seq`: 2^32 in the build
  MaxWrites    \* bound: the writer makes at most this many writes

ASSUME SeqLockAssumption ==
  /\ Words # {}
  /\ HandleOf \in [Threads -> Handles]
  /\ SeqModulus \in Nat \ {0}
  /\ SeqModulus % 2 = 0
  /\ MaxWrites \in Nat

VARIABLES
  seq,            \* the shared sequence number
  entry,          \* the shared entry, word by word
  writing,        \* the writer is between write_begin and write_end
  wseq,           \* the writer's local `seq`, as write_begin returned it
  wleft,          \* words the writer still has to store
  written,        \* number of writes begun; the payload of the newest one
  pc,             \* reader: "idle", "begin", "copy", "accepted"
  seq1,           \* reader: local seq1
  todo,           \* reader: words still to load
  copied,         \* reader: the out-parameter `entry`
  rc,             \* reader: what the last read() returned, with its errno
  prev_seq,       \* seq_lock_state of each reader object
  has_read_once,
  began,          \* history: value of Stores at the thread's seq1 load
  span,           \* history: stores to seq between the two loads of the last
                  \* trip round the read loop
  delivered       \* history: what the object's last successful read() gave

shared == <<seq, entry>>
writer == <<writing, wseq, wleft, written>>
reader == <<pc, seq1, todo, copied, rc, began, span>>
state  == <<prev_seq, has_read_once, delivered>>
vars   == <<shared, writer, reader, state>>

-----------------------------------------------------------------------------
Whole(n) == [w \in Words |-> n]

\* Seeded fault: a sequence number that is not an unsigned.
IncUnbounded(s) == s + 1

\* ++ on an unsigned.
Inc(s) == IF s + 1 = SeqModulus THEN 0 ELSE s + 1

IsOdd(s) == s % 2 = 1

\* Stores made to seq so far, and the newest message that is complete.
Stores == IF writing THEN 2 * written - 1 ELSE 2 * written
Published == IF writing THEN written - 1 ELSE written

\* A zero-filled segment (ftruncate), no reader object used yet.
Init ==
  /\ seq = 0
  /\ entry = Whole(0)
  /\ writing = FALSE
  /\ wseq = 0
  /\ wleft = {}
  /\ written = 0
  /\ pc = [t \in Threads |-> "idle"]
  /\ seq1 = [t \in Threads |-> 0]
  /\ todo = [t \in Threads |-> {}]
  /\ copied = [t \in Threads |-> Whole(0)]
  /\ rc = [t \in Threads |-> "none"]
  /\ prev_seq = [h \in Handles |-> 0]
  /\ has_read_once = [h \in Handles |-> FALSE]
  /\ began = [t \in Threads |-> 0]
  /\ span = [t \in Threads |-> 0]
  /\ delivered = [h \in Handles |-> Whole(0)]

-----------------------------------------------------------------------------
(* The writer.                                                             *)

\* Only the writer stores to seq, so its load of seq and its store are one step.
WriteBegin ==
  /\ ~writing
  /\ written < MaxWrites
  /\ seq' = Inc(seq)
  /\ wseq' = Inc(seq)
  /\ writing' = TRUE
  /\ wleft' = Words
  /\ written' = written + 1
  /\ UNCHANGED <<entry, reader, state>>

StoreWord(w) ==
  /\ w \in wleft
  /\ entry' = [entry EXCEPT ![w] = written]
  /\ wleft' = wleft \ {w}
  /\ UNCHANGED <<seq, writing, wseq, written, reader, state>>

\* Seeded fault: without the smp_wmb() of seq_lock_write_end the store to seq
\* may come before the last words of the entry.
WriteEndUnordered ==
  /\ writing
  /\ seq' = Inc(wseq)
  /\ writing' = FALSE
  /\ UNCHANGED <<entry, wseq, wleft, written, reader, state>>

\* Seeded fault: the write ends with the odd value it began with.
WriteEndOdd ==
  /\ writing
  /\ wleft = {}
  /\ seq' = wseq
  /\ writing' = FALSE
  /\ UNCHANGED <<entry, wseq, wleft, written, reader, state>>

WriteEnd ==
  /\ writing
  /\ wleft = {}
  /\ seq' = Inc(wseq)
  /\ writing' = FALSE
  /\ UNCHANGED <<entry, wseq, wleft, written, reader, state>>

-----------------------------------------------------------------------------
(* A reader thread.                                                        *)

Call(t) ==
  /\ pc[t] = "idle"
  /\ pc' = [pc EXCEPT ![t] = "begin"]
  /\ rc' = [rc EXCEPT ![t] = "none"]
  /\ UNCHANGED <<shared, writer, seq1, todo, copied, began, span, state>>

\* Seeded fault: the spin on an odd value is missing.
ReadBeginNoSpin(t) ==
  /\ pc[t] = "begin"
  /\ seq1' = [seq1 EXCEPT ![t] = seq]
  /\ todo' = [todo EXCEPT ![t] = Words]
  /\ began' = [began EXCEPT ![t] = Stores]
  /\ pc' = [pc EXCEPT ![t] = "copy"]
  /\ UNCHANGED <<shared, writer, copied, rc, span, state>>

\* The spin ends at the first even value; spinning on an odd one changes nothing.
ReadBegin(t) ==
  /\ pc[t] = "begin"
  /\ ~IsOdd(seq)
  /\ seq1' = [seq1 EXCEPT ![t] = seq]
  /\ todo' = [todo EXCEPT ![t] = Words]
  /\ began' = [began EXCEPT ![t] = Stores]
  /\ pc' = [pc EXCEPT ![t] = "copy"]
  /\ UNCHANGED <<shared, writer, copied, rc, span, state>>

LoadWord(t, w) ==
  /\ w \in todo[t]
  /\ copied' = [copied EXCEPT ![t][w] = entry[w]]
  /\ todo' = [todo EXCEPT ![t] = @ \ {w}]
  /\ UNCHANGED <<shared, writer, pc, seq1, rc, began, span, state>>

\* What seq_lock_read_retry returns.
MustRetry(t) == seq # seq1[t]

\* The end of a trip round the read loop.
ReadRetry(t) ==
  /\ pc[t] = "copy"
  /\ todo[t] = {}
  /\ pc' = [pc EXCEPT ![t] = IF MustRetry(t) THEN "begin" ELSE "accepted"]
  /\ span' = [span EXCEPT ![t] = Stores - began[t]]
  /\ UNCHANGED <<shared, writer, seq1, todo, copied, rc, began, state>>

\* Seeded fault: the answer depends on a third load of seq, not on seq1.
VerdictOfFreshSeq(t) ==
  LET h == HandleOf[t]
  IN IF seq # prev_seq[h] THEN "ok"
     ELSE IF seq = 0 /\ ~has_read_once[h] THEN "ENOMSG" ELSE "EAGAIN"

Verdict(t) ==
  LET h == HandleOf[t]
  IN IF seq1[t] # prev_seq[h] THEN "ok"
     ELSE IF seq1[t] = 0 /\ ~has_read_once[h] THEN "ENOMSG" ELSE "EAGAIN"

Return(t) ==
  LET h == HandleOf[t]
  IN /\ pc[t] = "accepted"
     /\ pc' = [pc EXCEPT ![t] = "idle"]
     /\ rc' = [rc EXCEPT ![t] = Verdict(t)]
     /\ \/ /\ Verdict(t) = "ok"
           /\ prev_seq' = [prev_seq EXCEPT ![h] = seq1[t]]
           /\ has_read_once' = [has_read_once EXCEPT ![h] = TRUE]
           /\ delivered' = [delivered EXCEPT ![h] = copied[t]]
        \/ /\ Verdict(t) # "ok"
           /\ UNCHANGED state
     /\ UNCHANGED <<shared, writer, seq1, todo, copied, began, span>>

\* A reader object is destroyed and created again, by its process or by the
\* restart of its process: the segment stays, the object's state starts afresh.
Reopen(h) ==
  /\ \A t \in Threads : HandleOf[t] = h => pc[t] = "idle"
  /\ prev_seq' = [prev_seq EXCEPT ![h] = 0]
  /\ has_read_once' = [has_read_once EXCEPT ![h] = FALSE]
  /\ delivered' = [delivered EXCEPT ![h] = Whole(0)]
  /\ UNCHANGED <<shared, writer, reader>>

-----------------------------------------------------------------------------
WriterStep == WriteBegin \/ (\E w \in Words : StoreWord(w)) \/ WriteEnd

ReaderStep(t) ==
  \/ Call(t) \/ ReadBegin(t) \/ ReadRetry(t) \/ Return(t)
  \/ \E w \in Words : LoadWord(t, w)

Next ==
  \/ WriterStep
  \/ \E t \in Threads : ReaderStep(t)
  \/ \E h \in Handles : Reopen(h)

Spec == Init /\ [][Next]_vars

\* Every process the kernel can run is run: a write once begun and a read once
\* called go on.  Nobody has to start a write or a read.
Fairness ==
  /\ WF_vars((\E w \in Words : StoreWord(w)) \/ WriteEnd)
  /\ \A t \in Threads :
       WF_vars(ReadBegin(t) \/ (\E w \in Words : LoadWord(t, w))
               \/ ReadRetry(t) \/ Return(t))

FairSpec == Spec /\ Fairness

-----------------------------------------------------------------------------
(* Properties.                                                             *)

\* Each thread reads through an object of its own.
PrivateHandles ==
  \A t, u \in Threads : HandleOf[t] = HandleOf[u] => t = u

\* seq does not come round to a value it had before.
NoWrap == 2 * MaxWrites < SeqModulus

Messages == 0..MaxWrites
Seqs == 0..(SeqModulus - 1)

\* Every variable has its type (unsigned seq, seq1 and prev_seq stay in range).
TypeOK ==
  /\ seq \in Seqs
  /\ entry \in [Words -> Messages]
  /\ writing \in BOOLEAN
  /\ wseq \in Seqs
  /\ wleft \in SUBSET Words
  /\ written \in Messages
  /\ pc \in [Threads -> {"idle", "begin", "copy", "accepted"}]
  /\ seq1 \in [Threads -> Seqs]
  /\ todo \in [Threads -> SUBSET Words]
  /\ copied \in [Threads -> [Words -> Messages]]
  /\ rc \in [Threads -> {"none", "ok", "ENOMSG", "EAGAIN"}]
  /\ prev_seq \in [Handles -> Seqs]
  /\ has_read_once \in [Handles -> BOOLEAN]
  /\ began \in [Threads -> Int]
  /\ span \in [Threads -> Int]
  /\ delivered \in [Handles -> [Words -> Messages]]

\* What the read loop lets through is one whole message, the one that was the
\* newest when the loop loaded seq1, provided that fewer than SeqModulus
\* stores to seq (2^31 writes) fell between its two loads.
AcceptedUntorn ==
  \A t \in Threads :
    pc[t] = "accepted" /\ span[t] < SeqModulus =>
      \A w \in Words : 2 * copied[t][w] = began[t]

\* The answer a read() gives with the step that returns from it.
AnswerInOrder(t) ==
  pc[t] = "accepted" /\ pc'[t] = "idle" =>
    LET last == delivered[HandleOf[t]]
    IN CASE rc'[t] = "ok"     -> \A w \in Words : copied[t][w] > last[w]
         [] rc'[t] = "EAGAIN" -> copied[t] = last /\ last # Whole(0)
         [] rc'[t] = "ENOMSG" -> copied[t] = Whole(0)

\* A read() that succeeds hands its caller a message newer than every message
\* the same reader object was given before; one that fails with EAGAIN hands
\* back the last of those (ipc.h: "the last message received will be returned
\* instead"); one that fails with ENOMSG, the zeroes of an unwritten topic.
AnswersInOrder == [][\A t \in Threads : AnswerInOrder(t)]_vars

\* Every read() returns: a retry or a spin is always some write's doing.
ReadReturns == \A t \in Threads : pc[t] # "idle" ~> pc[t] = "idle"

\* What LatestEntry sees of a thread.
SeenBy(t) == IF pc[t] = "accepted" THEN copied[t] ELSE delivered[HandleOf[t]]
PhaseOf(t) == CASE pc[t] = "idle"               -> "idle"
                [] pc[t] = "accepted"           -> "read"
                [] pc[t] \in {"begin", "copy"} -> "called"
GotBy(t) == IF pc[t] \in {"begin", "copy"} THEN Whole(0) ELSE copied[t]
OutcomeOf(t) == IF pc[t] = "accepted" THEN Verdict(t) ELSE rc[t]

\* The lock implements LatestEntry: a read takes effect at the load of seq
\* that lets it out of its loop, and a write at the store that ends it.
Promise == INSTANCE LatestEntry WITH
  Readers <- Threads,
  latest  <- Published,
  seen    <- [t \in Threads |-> SeenBy(t)],
  phase   <- [t \in Threads |-> PhaseOf(t)],
  got     <- [t \in Threads |-> GotBy(t)],
  outcome <- [t \in Threads |-> OutcomeOf(t)]

\* Readers and writer together behave as LatestEntry says.
ImplementsLatestEntry == Promise!Spec

-----------------------------------------------------------------------------
(* The inductive invariant.                                                *)

\* seq is odd exactly while a write is under way, and the shared entry is the
\* newest message except for the words the writer has still to store.
WriterInv ==
  /\ IsOdd(seq) <=> writing
  /\ writing => wseq = seq /\ written > 0
  /\ ~writing => wleft = {}
  /\ \A w \in Words : entry[w] = IF w \in wleft THEN written - 1 ELSE written

Lag(t) == Stores - began[t]

\* While a thread copies, seq is as far from its seq1 as there were stores
\* since, modulo one wrap; and as long as there were none, the words copied
\* are those of the message seq1 stands for.
CopyInv(t) ==
  /\ pc[t] # "copy" => todo[t] = {}
  /\ pc[t] = "copy" =>
       /\ ~IsOdd(seq1[t])
       /\ began[t] <= Stores
       /\ Lag(t) < SeqModulus =>
            seq = IF seq1[t] + Lag(t) < SeqModulus
                  THEN seq1[t] + Lag(t) ELSE seq1[t] + Lag(t) - SeqModulus
       /\ Lag(t) = 0 => \A w \in Words \ todo[t] : 2 * copied[t][w] = began[t]

\* Without a wrap seq counts the stores, and a reader object's prev_seq stands
\* for the message it delivered last.
CountInv ==
  NoWrap =>
    /\ seq = Stores
    /\ \A t \in Threads :
         pc[t] \in {"copy", "accepted"} => seq1[t] = began[t] /\ began[t] <= Stores
    /\ \A t \in Threads : pc[t] = "accepted" => span[t] < SeqModulus
    /\ \A h \in Handles :
         /\ \A w \in Words : prev_seq[h] = 2 * delivered[h][w]
         /\ prev_seq[h] <= Stores

\* A thread with a reader object to itself finds it no newer than its seq1, so
\* that prev_seq never goes back to the 0 it began with.
OwnStateInv ==
  NoWrap /\ PrivateHandles =>
    /\ \A t \in Threads :
         pc[t] \in {"copy", "accepted"} => prev_seq[HandleOf[t]] <= seq1[t]
    /\ \A h \in Handles : has_read_once[h] <=> prev_seq[h] # 0

\* The lock's bookkeeping as a whole; every step of writer and readers keeps it.
IInv ==
  /\ TypeOK
  /\ WriterInv
  /\ \A t \in Threads : CopyInv(t)
  /\ AcceptedUntorn
  /\ CountInv
  /\ OwnStateInv
=============================================================================
