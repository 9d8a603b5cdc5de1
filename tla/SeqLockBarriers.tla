--------------------------- MODULE SeqLockBarriers ---------------------------
(***************************************************************************)
(* The sequence lock on a machine that reorders memory accesses, with the   *)
(* barriers of smp.h spelled out.                                           *)
(*                                                                         *)
(* Stores of the writer enter a buffer and reach memory in any order that   *)
(* keeps stores to one location in program order and never moves a store    *)
(* over a smp_wmb().  Loads of one trip round a reader's loop are performed *)
(* in any order that does not move a load over a smp_rmb().  This covers     *)
(* the Arm dmb of smp.h; on x86-64, whose buffer is first-in first-out and  *)
(* whose barriers only hold the compiler, fewer behaviours are possible.    *)
(*                                                                         *)
(* The module shows that with these barriers nothing happens in memory that *)
(* SeqLock does not allow.                                                  *)
(***************************************************************************)
EXTENDS SeqLock, SequencesExt

CONSTANT BufferSize    \* bound: stores and barriers in flight

\* The words of an entry are other locations than the sequence number.
ASSUME BarrierAssumption ==
  /\ BufferSize \in Nat
  /\ Words \cap {"seq", "wmb", "seq1", "seq2"} = {}

VARIABLES
  sb,      \* the writer's buffer: stores and barriers in program order
  trip,    \* reader: loads of this trip round the loop not yet performed
  seq2,    \* reader: local seq2
  arrived  \* history: stores to seq that have reached memory

bvars == <<vars, sb, trip, seq2, arrived>>

-----------------------------------------------------------------------------
Wmb == [loc |-> "wmb", val |-> 0]
SeqStore(s) == [loc |-> "seq", val |-> s]
WordStore(w, n) == [loc |-> w, val |-> n]

\* What the writer's own load of *seq sees: its newest store, if still buffered.
NewestSeq ==
  LET stores == {i \in DOMAIN sb : sb[i].loc = "seq"}
  IN IF stores = {} THEN seq ELSE sb[Max(stores)].val

Fits(items) == Len(sb \o items) <= BufferSize

\* Seeded fault: without smp_wmb() only stores to one location keep their order.
MayDrainNoWmb(i) == \A j \in 1..(i - 1) : sb[j].loc # sb[i].loc

\* Nothing the entry at position i must wait for is still in front of it.
MayDrain(i) ==
  \A j \in 1..(i - 1) : sb[j].loc # "wmb" /\ sb[j].loc # sb[i].loc

\* Seeded fault: seq_lock_read_retry without its smp_rmb().
OrderedBeforeNoRmb(l) == IF l = "seq1" THEN {} ELSE {"seq1"}

\* The loads an smp_rmb() keeps in front of load l.
OrderedBefore(l) ==
  CASE l = "seq1" -> {}
    [] l = "seq2" -> {"seq1"} \cup Words
    [] OTHER      -> {"seq1"}

Loads == {"seq1", "seq2"} \cup Words

MayLoad(t, l) == l \in trip[t] /\ OrderedBefore(l) \cap trip[t] = {}

\* How far the writes have got in memory.
MemWriting == IsOdd(arrived)
MemWritten == (arrived + 1) \div 2
MemLeft == {w \in Words : MemWriting /\ entry[w] # MemWritten}

-----------------------------------------------------------------------------
BInit ==
  /\ Init
  /\ sb = <<>>
  /\ trip = [t \in Threads |-> {}]
  /\ seq2 = [t \in Threads |-> 0]
  /\ arrived = 0

IssueWriteBegin ==
  LET s == Inc(NewestSeq)
      items == <<SeqStore(s), Wmb>>
  IN /\ ~writing
     /\ written < MaxWrites
     /\ Fits(items)
     /\ sb' = sb \o items
     /\ wseq' = s
     /\ writing' = TRUE
     /\ wleft' = Words
     /\ written' = written + 1
     /\ UNCHANGED <<shared, reader, state, trip, seq2, arrived>>

IssueStoreWord(w) ==
  LET items == <<WordStore(w, written)>>
  IN /\ w \in wleft
     /\ Fits(items)
     /\ sb' = sb \o items
     /\ wleft' = wleft \ {w}
     /\ UNCHANGED <<shared, writing, wseq, written, reader, state, trip, seq2, arrived>>

IssueWriteEnd ==
  LET items == <<Wmb, SeqStore(Inc(wseq))>>
  IN /\ writing
     /\ wleft = {}
     /\ Fits(items)
     /\ sb' = sb \o items
     /\ writing' = FALSE
     /\ UNCHANGED <<shared, wseq, wleft, written, reader, state, trip, seq2, arrived>>

\* The memory system carries out a buffered store, or is done with a barrier.
Drain(i) ==
  /\ sb[i].loc # "wmb"
  /\ MayDrain(i)
  /\ \/ /\ sb[i].loc = "seq"
        /\ seq' = sb[i].val
        /\ arrived' = arrived + 1
        /\ UNCHANGED entry
     \/ /\ sb[i].loc \in Words
        /\ entry' = [entry EXCEPT ![sb[i].loc] = sb[i].val]
        /\ UNCHANGED <<seq, arrived>>
  /\ sb' = RemoveAt(sb, i)
  /\ UNCHANGED <<writer, reader, state, trip, seq2>>

PassBarrier ==
  /\ sb # <<>>
  /\ Head(sb) = Wmb
  /\ sb' = Tail(sb)
  /\ UNCHANGED <<vars, trip, seq2, arrived>>

-----------------------------------------------------------------------------
StartRead(t) ==
  /\ Call(t)
  /\ trip' = [trip EXCEPT ![t] = Loads]
  /\ UNCHANGED <<sb, seq2, arrived>>

LoadSeq1(t) ==
  /\ MayLoad(t, "seq1")
  /\ ~IsOdd(seq)
  /\ seq1' = [seq1 EXCEPT ![t] = seq]
  /\ todo' = [todo EXCEPT ![t] = trip[t] \cap Words]
  /\ began' = [began EXCEPT ![t] = arrived]
  /\ pc' = [pc EXCEPT ![t] = "copy"]
  /\ trip' = [trip EXCEPT ![t] = @ \ {"seq1"}]
  /\ UNCHANGED <<shared, writer, copied, rc, span, state, sb, seq2,
                 arrived>>

LoadEntryWord(t, w) ==
  /\ MayLoad(t, w)
  /\ copied' = [copied EXCEPT ![t][w] = entry[w]]
  /\ todo' = [todo EXCEPT ![t] = @ \ {w}]
  /\ trip' = [trip EXCEPT ![t] = @ \ {w}]
  /\ UNCHANGED <<shared, writer, pc, seq1, rc, began, span, state, sb, seq2,
                 arrived>>

LoadSeq2(t) ==
  /\ MayLoad(t, "seq2")
  /\ seq2' = [seq2 EXCEPT ![t] = seq]
  /\ span' = [span EXCEPT ![t] = arrived - began[t]]
  /\ trip' = [trip EXCEPT ![t] = @ \ {"seq2"}]
  /\ UNCHANGED <<shared, writer, pc, seq1, todo, copied, rc, began, state, sb,
                 arrived>>

\* The loop condition, once every load of the trip is in.
EndTrip(t) ==
  /\ pc[t] = "copy"
  /\ trip[t] = {}
  /\ \/ /\ seq2[t] # seq1[t]
        /\ pc' = [pc EXCEPT ![t] = "begin"]
        /\ trip' = [trip EXCEPT ![t] = Loads]
     \/ /\ seq2[t] = seq1[t]
        /\ pc' = [pc EXCEPT ![t] = "accepted"]
        /\ UNCHANGED trip
  /\ UNCHANGED <<shared, writer, seq1, todo, copied, rc, began, span, state,
                 sb, seq2, arrived>>

EndRead(t) == Return(t) /\ UNCHANGED <<sb, trip, seq2, arrived>>
ReopenObject(h) == Reopen(h) /\ UNCHANGED <<sb, trip, seq2, arrived>>

-----------------------------------------------------------------------------
BNext ==
  \/ IssueWriteBegin
  \/ \E w \in Words : IssueStoreWord(w)
  \/ IssueWriteEnd
  \/ \E i \in DOMAIN sb : Drain(i)
  \/ PassBarrier
  \/ \E t \in Threads :
       \/ StartRead(t) \/ LoadSeq1(t) \/ LoadSeq2(t) \/ EndTrip(t) \/ EndRead(t)
       \/ \E w \in Words : LoadEntryWord(t, w)
  \/ \E h \in Handles : ReopenObject(h)

BSpec == BInit /\ [][BNext]_bvars

-----------------------------------------------------------------------------
\* The lock as memory shows it: a write begins and ends when its stores to seq
\* arrive, and a trip round the loop ends at the load of seq2.
Memory == INSTANCE SeqLock WITH
  writing <- MemWriting,
  wseq    <- IF MemWriting \/ arrived = 0 THEN seq
             ELSE IF seq = 0 THEN SeqModulus - 1 ELSE seq - 1,
  wleft   <- MemLeft,
  written <- MemWritten,
  pc      <- [t \in Threads |->
                IF pc[t] = "copy" /\ trip[t] = {}
                THEN IF seq2[t] = seq1[t] THEN "accepted" ELSE "begin"
                ELSE pc[t]]

\* With the barriers of smp.h, every reordering the machine makes is a
\* behaviour of SeqLock.
ImplementsSeqLock == Memory!Spec
=============================================================================
