---------------------------- MODULE SeqLockProofs ----------------------------
(* Theorems about SeqLock, for every number of words, threads, reader        *)
(* objects and writes, and every even modulus of the sequence number.        *)
EXTENDS SeqLock, TLAPS

USE SeqLockAssumption DEF SeqLockAssumption

-----------------------------------------------------------------------------
\* ++ stays in range and flips the parity, at the wrap of an unsigned as well.
LEMMA IncFlips ==
  ASSUME NEW s \in Seqs
  PROVE  Inc(s) \in Seqs /\ (IsOdd(Inc(s)) <=> ~IsOdd(s))
<1>1. CASE s + 1 = SeqModulus
  BY <1>1 DEF Inc, IsOdd, Seqs
<1>2. CASE s + 1 # SeqModulus
  BY <1>2 DEF Inc, IsOdd, Seqs
<1> QED
  BY <1>1, <1>2

\* A zero-filled segment and fresh reader objects satisfy the invariant.
LEMMA InitIInv == Init => IInv
<1> SUFFICES ASSUME Init
             PROVE  IInv
  OBVIOUS
<1>1. TypeOK
  <2>1. 0 \in Seqs /\ 0 \in Messages
    BY DEF Seqs, Messages
  <2>2. Whole(0) \in [Words -> Messages]
    BY <2>1 DEF Whole
  <2>3. /\ entry \in [Words -> Messages]
        /\ copied \in [Threads -> [Words -> Messages]]
        /\ delivered \in [Handles -> [Words -> Messages]]
    BY <2>2 DEF Init
  <2>4. /\ seq \in Seqs /\ wseq \in Seqs
        /\ writing \in BOOLEAN
        /\ wleft \in SUBSET Words
        /\ written \in Messages
    BY <2>1 DEF Init
  <2>5. /\ pc \in [Threads -> {"idle", "begin", "copy", "accepted"}]
        /\ seq1 \in [Threads -> Seqs]
        /\ todo \in [Threads -> SUBSET Words]
        /\ rc \in [Threads -> {"none", "ok", "ENOMSG", "EAGAIN"}]
        /\ began \in [Threads -> Int]
        /\ span \in [Threads -> Int]
    BY <2>1 DEF Init
  <2>6. /\ prev_seq \in [Handles -> Seqs]
        /\ has_read_once \in [Handles -> BOOLEAN]
    BY <2>1 DEF Init
  <2> QED
    BY <2>3, <2>4, <2>5, <2>6 DEF TypeOK
<1>2. WriterInv
  BY DEF Init, WriterInv, Whole, IsOdd
<1>3. \A t \in Threads : CopyInv(t)
  BY DEF Init, CopyInv
<1>4. AcceptedUntorn
  BY DEF Init, AcceptedUntorn
<1>5. CountInv
  BY DEF Init, CountInv, Stores, Whole
<1>6. OwnStateInv
  BY DEF Init, OwnStateInv
<1> QED
  BY <1>1, <1>2, <1>3, <1>4, <1>5, <1>6 DEF IInv

-----------------------------------------------------------------------------
\* Every step of writer and readers keeps each variable in its type.
LEMMA TypeStep == TypeOK /\ [Next]_vars => TypeOK'
<1> SUFFICES ASSUME TypeOK, [Next]_vars
             PROVE  TypeOK'
  OBVIOUS
<1> USE DEF TypeOK, shared, writer, reader, state
<1>1. CASE WriteBegin
  <2>1. Inc(seq) \in Seqs
    BY IncFlips
  <2>2. written' \in Messages
    BY <1>1 DEF WriteBegin, Messages
  <2> QED
    BY <1>1, <2>1, <2>2 DEF WriteBegin
<1>2. ASSUME NEW w \in Words, StoreWord(w)
      PROVE  TypeOK'
  BY <1>2 DEF StoreWord
<1>3. CASE WriteEnd
  BY <1>3, IncFlips DEF WriteEnd
<1>4. ASSUME NEW t \in Threads, Call(t)
      PROVE  TypeOK'
  BY <1>4 DEF Call
<1>5. ASSUME NEW t \in Threads, ReadBegin(t)
      PROVE  TypeOK'
  <2>1. Stores \in Int
    BY DEF Stores, Messages
  <2> QED
    BY <1>5, <2>1 DEF ReadBegin
<1>6. ASSUME NEW t \in Threads, NEW w \in Words, LoadWord(t, w)
      PROVE  TypeOK'
  BY <1>6 DEF LoadWord
<1>7. ASSUME NEW t \in Threads, ReadRetry(t)
      PROVE  TypeOK'
  <2>1. Stores - began[t] \in Int
    BY DEF Stores, Messages
  <2> QED
    BY <1>7, <2>1 DEF ReadRetry
<1>8. ASSUME NEW t \in Threads, Return(t)
      PROVE  TypeOK'
  <2>1. HandleOf[t] \in Handles /\ Verdict(t) \in {"ok", "ENOMSG", "EAGAIN"}
    BY DEF Verdict
  <2> QED
    BY <1>8, <2>1 DEF Return
<1>9. ASSUME NEW h \in Handles, Reopen(h)
      PROVE  TypeOK'
  <2>1. 0 \in Messages /\ 0 \in Seqs
    BY DEF Messages, Seqs
  <2>2. Whole(0) \in [Words -> Messages]
    BY <2>1 DEF Whole
  <2> QED
    BY <1>9, <2>1, <2>2 DEF Reopen
<1>10. CASE UNCHANGED vars
  BY <1>10 DEF vars
<1> QED
  BY <1>1, <1>2, <1>3, <1>4, <1>5, <1>6, <1>7, <1>8, <1>9, <1>10
  DEF Next, WriterStep, ReaderStep

-----------------------------------------------------------------------------
\* Every step leaves seq odd exactly while a write is under way, and the entry
\* whole up to the words that write has still to store.
LEMMA WriterStepInv == TypeOK /\ WriterInv /\ [Next]_vars => WriterInv'
<1> SUFFICES ASSUME TypeOK, WriterInv, [Next]_vars
             PROVE  WriterInv'
  OBVIOUS
<1> USE DEF WriterInv
<1>1. CASE WriteBegin
  <2>1. seq \in Seqs /\ seq' = Inc(seq) /\ wseq' = seq' /\ writing' /\ ~writing
    BY <1>1 DEF WriteBegin, TypeOK
  <2>2. IsOdd(seq') <=> writing'
    BY <2>1, IncFlips
  <2>3. written \in Nat /\ written' = written + 1
    BY <1>1 DEF WriteBegin, TypeOK, Messages
  <2>4. \A w \in Words : entry'[w] = IF w \in wleft' THEN written' - 1 ELSE written'
    BY <1>1, <2>3 DEF WriteBegin
  <2> QED
    BY <2>1, <2>2, <2>3, <2>4
<1>2. ASSUME NEW w \in Words, StoreWord(w)
      PROVE  WriterInv'
  <2>1. writing
    BY <1>2 DEF StoreWord
  <2>2. \A v \in Words : entry'[v] = IF v \in wleft' THEN written' - 1 ELSE written'
    BY <1>2 DEF StoreWord, TypeOK
  <2> QED
    BY <1>2, <2>1, <2>2 DEF StoreWord
<1>3. CASE WriteEnd
  <2>1. seq \in Seqs /\ seq' = Inc(seq) /\ ~writing' /\ writing
    BY <1>3 DEF WriteEnd, TypeOK
  <2>2. IsOdd(seq') <=> writing'
    BY <2>1, IncFlips
  <2> QED
    BY <1>3, <2>1, <2>2 DEF WriteEnd
<1>4. ASSUME UNCHANGED <<shared, writer>>
      PROVE  WriterInv'
  BY <1>4 DEF shared, writer
<1>5. ASSUME NEW t \in Threads, ReaderStep(t)
      PROVE  UNCHANGED <<shared, writer>>
  BY <1>5 DEF ReaderStep, Call, ReadBegin, LoadWord, ReadRetry, Return
<1>6. ASSUME NEW h \in Handles, Reopen(h)
      PROVE  UNCHANGED <<shared, writer>>
  BY <1>6 DEF Reopen
<1> QED
  BY <1>1, <1>2, <1>3, <1>4, <1>5, <1>6 DEF Next, WriterStep, vars

\* How many stores to seq there have been, against the value seq has.
LEMMA StoresParity ==
  ASSUME TypeOK, WriterInv
  PROVE  /\ Stores \in Int
         /\ Stores <= 2 * MaxWrites
         /\ ~IsOdd(seq) => Stores = 2 * written /\ Published = written /\ entry = Whole(written)
BY DEF TypeOK, WriterInv, Stores, Published, Whole, Messages

\* A store to seq is one more store, and seq is incremented by it.
LEMMA StoreCounts ==
  ASSUME TypeOK, WriterInv, WriteBegin \/ WriteEnd
  PROVE  /\ seq \in Seqs
         /\ seq' = Inc(seq)
         /\ Stores' = Stores + 1
<1>1. seq \in Seqs /\ written \in Nat
  BY DEF TypeOK, Messages
<1>2. CASE WriteBegin
  <2>1. ~writing /\ writing' /\ written' = written + 1 /\ seq' = Inc(seq)
    BY <1>2 DEF WriteBegin
  <2> QED
    BY <1>1, <2>1 DEF Stores
<1>3. CASE WriteEnd
  <2>1. writing /\ ~writing' /\ written' = written /\ seq' = Inc(seq)
    BY <1>3 DEF WriteEnd, WriterInv
  <2> QED
    BY <1>1, <2>1 DEF Stores
<1> QED
  BY <1>1, <1>2, <1>3

\* No other step is a store to seq.
LEMMA OthersKeepSeq ==
  ASSUME [Next]_vars
  PROVE  WriteBegin \/ WriteEnd \/ (seq' = seq /\ Stores' = Stores)
<1>1. ASSUME NEW w \in Words, StoreWord(w)
      PROVE  seq' = seq /\ Stores' = Stores
  BY <1>1 DEF StoreWord, Stores
<1>2. ASSUME NEW t \in Threads, ReaderStep(t)
      PROVE  seq' = seq /\ Stores' = Stores
  BY <1>2 DEF ReaderStep, Call, ReadBegin, LoadWord, ReadRetry, Return,
              Stores, shared, writer
<1>3. ASSUME NEW h \in Handles, Reopen(h)
      PROVE  seq' = seq /\ Stores' = Stores
  BY <1>3 DEF Reopen, Stores, shared, writer
<1>4. CASE UNCHANGED vars
  BY <1>4 DEF vars, shared, writer, Stores
<1> QED
  BY <1>1, <1>2, <1>3, <1>4 DEF Next, WriterStep

-----------------------------------------------------------------------------
\* What a thread knows of seq while it copies survives every step that leaves
\* its own variables alone, a store to seq included.
LEMMA CopyKept ==
  ASSUME TypeOK, WriterInv, [Next]_vars, NEW t \in Threads, CopyInv(t),
         pc'[t] = pc[t], seq1'[t] = seq1[t], todo'[t] = todo[t],
         began'[t] = began[t], copied'[t] = copied[t]
  PROVE  CopyInv(t)'
<1>1. /\ Stores \in Int /\ began[t] \in Int /\ Lag(t) \in Int
      /\ seq \in 0..(SeqModulus - 1) /\ seq1[t] \in 0..(SeqModulus - 1)
  BY StoresParity DEF TypeOK, Lag, Seqs
<1>2. CASE WriteBegin \/ WriteEnd
  <2>1. seq' = Inc(seq) /\ Lag(t)' = Lag(t) + 1
    BY <1>1, <1>2, StoreCounts DEF Lag
  <2>2. CASE pc[t] # "copy"
    BY <2>2 DEF CopyInv
  <2>3. CASE pc[t] = "copy"
    <3>1. Lag(t) >= 0 /\ began[t] <= Stores'
      BY <1>1, <1>2, <2>3, StoreCounts DEF CopyInv, Lag
    <3>2. ASSUME Lag(t)' < SeqModulus
          PROVE  seq' = IF seq1[t] + Lag(t)' < SeqModulus
                        THEN seq1[t] + Lag(t)' ELSE seq1[t] + Lag(t)' - SeqModulus
      <4>1. seq = IF seq1[t] + Lag(t) < SeqModulus
                  THEN seq1[t] + Lag(t) ELSE seq1[t] + Lag(t) - SeqModulus
        BY <1>1, <2>1, <2>3, <3>2 DEF CopyInv
      <4> QED
        BY <1>1, <2>1, <3>1, <3>2, <4>1 DEF Inc
    <3> QED
      BY <1>1, <2>1, <2>3, <3>1, <3>2 DEF CopyInv
  <2> QED
    BY <2>2, <2>3
<1>3. CASE ~(WriteBegin \/ WriteEnd)
  <2>1. seq' = seq /\ Stores' = Stores /\ Lag(t)' = Lag(t)
    BY <1>3, OthersKeepSeq DEF Lag
  <2> QED
    BY <2>1 DEF CopyInv
<1> QED
  BY <1>2, <1>3

\* A reader thread's step leaves the variables of the other threads alone.
LEMMA ReaderStepLocal ==
  ASSUME TypeOK, NEW t \in Threads, NEW u \in Threads, u # t, ReaderStep(t)
  PROVE  /\ pc'[u] = pc[u] /\ seq1'[u] = seq1[u] /\ todo'[u] = todo[u]
         /\ began'[u] = began[u] /\ copied'[u] = copied[u]
         /\ rc'[u] = rc[u] /\ span'[u] = span[u]
<1> USE DEF TypeOK
<1>1. CASE Call(t)
  BY <1>1 DEF Call
<1>2. CASE ReadBegin(t)
  BY <1>2 DEF ReadBegin
<1>3. ASSUME NEW w \in Words, LoadWord(t, w)
      PROVE  /\ todo'[u] = todo[u] /\ copied'[u] = copied[u]
             /\ UNCHANGED <<pc, seq1, began, rc, span>>
  BY <1>3 DEF LoadWord
<1>4. CASE ReadRetry(t)
  BY <1>4 DEF ReadRetry
<1>5. CASE Return(t)
  BY <1>5 DEF Return
<1> QED
  BY <1>1, <1>2, <1>3, <1>4, <1>5 DEF ReaderStep

\* No other step touches a reader thread's variables.
LEMMA OthersKeepReaders ==
  ASSUME [Next]_vars, \A t \in Threads : ~ReaderStep(t)
  PROVE  UNCHANGED reader
<1>1. ASSUME NEW h \in Handles, Reopen(h)
      PROVE  UNCHANGED reader
  BY <1>1 DEF Reopen
<1>2. CASE WriterStep
  BY <1>2 DEF WriterStep, WriteBegin, StoreWord, WriteEnd
<1> QED
  BY <1>1, <1>2 DEF Next, vars

-----------------------------------------------------------------------------
\* While seq is what a thread's first load of it gave and less than a wrap of
\* stores lies between, there was no store at all, and no write is under way.
LEMMA SameSeqNoStore ==
  ASSUME TypeOK, WriterInv, NEW t \in Threads, CopyInv(t),
         pc[t] = "copy", Lag(t) = 0 \/ (Lag(t) < SeqModulus /\ seq = seq1[t])
  PROVE  /\ Lag(t) = 0
         /\ seq = seq1[t]
         /\ ~IsOdd(seq)
         /\ began[t] = Stores
         /\ Stores = 2 * written
         /\ entry = Whole(written)
<1>1. /\ Stores \in Int /\ began[t] \in Int /\ Lag(t) \in Int
      /\ seq \in 0..(SeqModulus - 1) /\ seq1[t] \in 0..(SeqModulus - 1)
      /\ began[t] <= Stores
  BY StoresParity DEF TypeOK, Lag, Seqs, CopyInv
<1>2. Lag(t) >= 0
  BY <1>1 DEF Lag
<1>3. Lag(t) < SeqModulus
  BY SeqLockAssumption
<1>4. seq = IF seq1[t] + Lag(t) < SeqModulus
            THEN seq1[t] + Lag(t) ELSE seq1[t] + Lag(t) - SeqModulus
  BY <1>3 DEF CopyInv
<1>5. Lag(t) = 0 /\ seq = seq1[t]
  BY <1>1, <1>2, <1>3, <1>4
<1>6. ~IsOdd(seq)
  BY <1>5 DEF CopyInv
<1> QED
  BY <1>1, <1>5, <1>6, StoresParity DEF Lag

\* Every step keeps what each copying thread knows of seq and its words.
LEMMA CopyStep ==
  ASSUME TypeOK, WriterInv, [Next]_vars, \A t \in Threads : CopyInv(t)
  PROVE  \A t \in Threads : CopyInv(t)'
<1> TAKE u \in Threads
<1>1. CASE \A t \in Threads : ~ReaderStep(t)
  BY <1>1, OthersKeepReaders, CopyKept DEF reader
<1>2. ASSUME NEW t \in Threads, ReaderStep(t), t # u
      PROVE  CopyInv(u)'
  BY <1>2, ReaderStepLocal, CopyKept
<1>3. ASSUME ReaderStep(u)
      PROVE  CopyInv(u)'
  <2> USE DEF TypeOK
  <2>1. CASE Call(u)
    BY <2>1 DEF Call, CopyInv
  <2>2. CASE ReadBegin(u)
    <3>1. /\ pc'[u] = "copy" /\ seq1'[u] = seq /\ seq' = seq
          /\ began'[u] = Stores /\ Stores' = Stores /\ todo'[u] = Words
      BY <2>2 DEF ReadBegin, Stores, shared, writer
    <3>2. Stores \in Int /\ seq \in 0..(SeqModulus - 1) /\ Lag(u)' = 0
      BY <3>1, StoresParity DEF Lag, Seqs
    <3>3. ~IsOdd(seq)
      BY <2>2 DEF ReadBegin
    <3> QED
      BY <3>1, <3>2, <3>3 DEF CopyInv
  <2>3. ASSUME NEW w \in Words, LoadWord(u, w)
        PROVE  CopyInv(u)'
    <3>1. pc[u] = "copy"
      BY <2>3 DEF LoadWord, CopyInv
    <3>2. /\ UNCHANGED <<seq, pc, seq1, began>> /\ Stores' = Stores
          /\ Lag(u)' = Lag(u) /\ todo'[u] = todo[u] \ {w}
      BY <2>3 DEF LoadWord, Stores, Lag, shared, writer
    <3>3. \A v \in Words : copied'[u][v] = IF v = w THEN entry[w] ELSE copied[u][v]
      BY <2>3 DEF LoadWord
    <3>4. ASSUME Lag(u) = 0
          PROVE  \A v \in Words \ todo'[u] : 2 * copied'[u][v] = began[u]
      <4>1. 2 * entry[w] = began[u]
        BY <3>1, <3>4, SameSeqNoStore DEF Whole
      <4>2. \A v \in Words \ todo[u] : 2 * copied[u][v] = began[u]
        BY <3>1, <3>4 DEF CopyInv
      <4> QED
        BY <3>2, <3>3, <4>1, <4>2
    <3> QED
      BY <3>1, <3>2, <3>4 DEF CopyInv
  <2>4. CASE ReadRetry(u)
    BY <2>4 DEF ReadRetry, CopyInv
  <2>5. CASE Return(u)
    BY <2>5 DEF Return, CopyInv
  <2> QED
    BY <1>3, <2>1, <2>2, <2>3, <2>4, <2>5 DEF ReaderStep
<1> QED
  BY <1>1, <1>2, <1>3

\* What the read loop accepts at this step is the newest message, whole.
LEMMA AcceptsNewest ==
  ASSUME TypeOK, WriterInv, NEW t \in Threads, CopyInv(t),
         ReadRetry(t), ~MustRetry(t), Stores - began[t] < SeqModulus
  PROVE  /\ ~IsOdd(seq)
         /\ began[t] = Stores
         /\ seq1[t] = seq
         /\ Stores = 2 * written
         /\ \A w \in Words : 2 * copied[t][w] = began[t]
<1>1. pc[t] = "copy" /\ todo[t] = {} /\ seq = seq1[t] /\ Lag(t) < SeqModulus
  BY DEF ReadRetry, MustRetry, Lag
<1>2. /\ Lag(t) = 0 /\ ~IsOdd(seq) /\ began[t] = Stores /\ Stores = 2 * written
  BY <1>1, SameSeqNoStore
<1> QED
  BY <1>1, <1>2 DEF CopyInv

\* Every step keeps accepted entries untorn.
LEMMA UntornStep ==
  ASSUME TypeOK, WriterInv, [Next]_vars, \A t \in Threads : CopyInv(t),
         AcceptedUntorn
  PROVE  AcceptedUntorn'
<1> SUFFICES ASSUME NEW u \in Threads, pc'[u] = "accepted", span'[u] < SeqModulus
             PROVE  \A w \in Words : 2 * copied'[u][w] = began'[u]
  BY DEF AcceptedUntorn
<1>1. CASE \A t \in Threads : ~ReaderStep(t)
  BY <1>1, OthersKeepReaders DEF reader, AcceptedUntorn
<1>2. ASSUME NEW t \in Threads, ReaderStep(t), t # u
      PROVE  \A w \in Words : 2 * copied'[u][w] = began'[u]
  BY <1>2, ReaderStepLocal DEF AcceptedUntorn
<1>3. ASSUME ReaderStep(u)
      PROVE  \A w \in Words : 2 * copied'[u][w] = began'[u]
  <2>1. ~Call(u) /\ ~ReadBegin(u) /\ ~Return(u)
    BY DEF Call, ReadBegin, Return, TypeOK
  <2>2. \A w \in Words : ~LoadWord(u, w)
    BY DEF LoadWord, TypeOK, CopyInv
  <2>3. ReadRetry(u)
    BY <1>3, <2>1, <2>2 DEF ReaderStep
  <2>4. ~MustRetry(u) /\ Stores - began[u] < SeqModulus
    BY <2>3 DEF ReadRetry, TypeOK
  <2> QED
    BY <2>3, <2>4, AcceptsNewest DEF ReadRetry
<1> QED
  BY <1>1, <1>2, <1>3

-----------------------------------------------------------------------------
\* Without a wrap a store to seq simply adds one to it.
LEMMA NoWrapInc ==
  ASSUME TypeOK, WriterInv, NoWrap, seq = Stores, [Next]_vars
  PROVE  seq' = Stores' /\ Stores <= Stores'
<1>1. seq \in 0..(SeqModulus - 1) /\ Stores \in Int
  BY StoresParity DEF TypeOK, Seqs
<1>2. CASE WriteBegin \/ WriteEnd
  <2>1. seq' = Inc(seq) /\ Stores' = Stores + 1
    BY <1>2, StoreCounts
  <2>2. TypeOK' /\ WriterInv'
    BY TypeStep, WriterStepInv
  <2>3. Stores' <= 2 * MaxWrites
    <3>1. written' \in 0..MaxWrites
      BY <2>2 DEF TypeOK, Messages
    <3>2. Stores' = 2 * written' - 1 \/ Stores' = 2 * written'
      BY DEF Stores
    <3> QED
      BY <3>1, <3>2
  <2> QED
    BY <1>1, <2>1, <2>3 DEF Inc, NoWrap
<1>3. CASE ~(WriteBegin \/ WriteEnd)
  BY <1>1, <1>3, OthersKeepSeq
<1> QED
  BY <1>2, <1>3

\* Only Return and Reopen change what a reader object remembers.
LEMMA OthersKeepState ==
  ASSUME [Next]_vars, \A t \in Threads : ~Return(t), \A h \in Handles : ~Reopen(h)
  PROVE  UNCHANGED state
<1>1. CASE WriterStep
  BY <1>1 DEF WriterStep, WriteBegin, StoreWord, WriteEnd
<1>2. ASSUME NEW t \in Threads, ReaderStep(t)
      PROVE  UNCHANGED state
  BY <1>2 DEF ReaderStep, Call, ReadBegin, LoadWord, ReadRetry
<1> QED
  BY <1>1, <1>2 DEF Next, vars

\* Every step keeps seq, seq1 and prev_seq counting stores while seq has not
\* come round.
LEMMA CountStep ==
  ASSUME TypeOK, WriterInv, [Next]_vars, \A t \in Threads : CopyInv(t),
         AcceptedUntorn, CountInv
  PROVE  CountInv'
<1> SUFFICES ASSUME NoWrap
             PROVE  CountInv'
  BY DEF CountInv, NoWrap
<1> DEFINE Counted(t) ==
      /\ pc[t] \in {"copy", "accepted"} => seq1[t] = began[t] /\ began[t] <= Stores
      /\ pc[t] = "accepted" => span[t] < SeqModulus
    Remembered(h) ==
      /\ \A w \in Words : prev_seq[h] = 2 * delivered[h][w]
      /\ prev_seq[h] <= Stores
<1>1. seq = Stores /\ (\A t \in Threads : Counted(t)) /\ (\A h \in Handles : Remembered(h))
  BY DEF CountInv
<1>2. seq' = Stores' /\ Stores <= Stores' /\ Stores \in Int /\ Stores' \in Int
  <2>1. TypeOK' /\ WriterInv'
    BY TypeStep, WriterStepInv
  <2>2. Stores' \in Int
    BY <2>1 DEF TypeOK, Stores, Messages
  <2> QED
    BY <1>1, <2>2, NoWrapInc, StoresParity
<1>3. ASSUME NEW u \in Threads
      PROVE  Counted(u)'
  <2>1. began[u] \in Int /\ seq \in Int
    BY DEF TypeOK, Seqs
  <2>2. CASE \A t \in Threads : ~ReaderStep(t)
    BY <1>1, <1>2, <2>1, <2>2, OthersKeepReaders DEF reader
  <2>3. ASSUME NEW t \in Threads, ReaderStep(t), t # u
        PROVE  Counted(u)'
    BY <1>1, <1>2, <2>1, <2>3, ReaderStepLocal
  <2>4. ASSUME ReaderStep(u)
        PROVE  Counted(u)'
    <3> USE DEF TypeOK
    <3>1. Stores' = Stores
      BY <2>4 DEF ReaderStep, Call, ReadBegin, LoadWord, ReadRetry, Return,
                  Stores, shared, writer
    <3>2. CASE Call(u)
      BY <3>2 DEF Call
    <3>3. CASE ReadBegin(u)
      BY <1>1, <1>2, <3>1, <3>3 DEF ReadBegin
    <3>4. ASSUME NEW w \in Words, LoadWord(u, w)
          PROVE  Counted(u)'
      BY <1>1, <3>1, <3>4 DEF LoadWord
    <3>5. CASE ReadRetry(u)
      <4>1. pc[u] = "copy" /\ ~IsOdd(seq1[u]) /\ seq1[u] = began[u]
        BY <1>1, <3>5 DEF ReadRetry, CopyInv
      <4>2. began[u] >= 0 /\ Stores < SeqModulus
        BY <1>1, <4>1 DEF Seqs
      <4>3. span'[u] = Stores - began[u] /\ seq1' = seq1 /\ began' = began
        BY <3>5 DEF ReadRetry
      <4> QED
        BY <1>1, <1>2, <2>1, <3>1, <4>1, <4>2, <4>3
    <3>6. CASE Return(u)
      BY <3>6 DEF Return
    <3> QED
      BY <2>4, <3>2, <3>3, <3>4, <3>5, <3>6 DEF ReaderStep
  <2> QED
    BY <2>2, <2>3, <2>4
<1>4. ASSUME NEW g \in Handles
      PROVE  Remembered(g)'
  <2>1. prev_seq[g] \in Int
    BY DEF TypeOK, Seqs
  <2>2. CASE UNCHANGED state
    BY <1>1, <1>2, <2>1, <2>2 DEF state
  <2>3. ASSUME NEW t \in Threads, Return(t)
        PROVE  Remembered(g)'
    <3>1. CASE HandleOf[t] = g /\ Verdict(t) = "ok"
      <4>1. prev_seq'[g] = seq1[t] /\ delivered'[g] = copied[t]
        BY <2>3, <3>1 DEF Return, TypeOK
      <4>2. seq1[t] = began[t] /\ began[t] <= Stores
        BY <1>1, <2>3 DEF Return
      <4>3. \A w \in Words : 2 * copied[t][w] = began[t]
        BY <1>1, <2>3 DEF Return, AcceptedUntorn
      <4> QED
        BY <1>2, <4>1, <4>2, <4>3 DEF TypeOK
    <3>2. CASE ~(HandleOf[t] = g /\ Verdict(t) = "ok")
      <4>1. prev_seq'[g] = prev_seq[g] /\ delivered'[g] = delivered[g]
        BY <2>3, <3>2 DEF Return, TypeOK, state
      <4> QED
        BY <1>1, <1>2, <2>1, <4>1
    <3> QED
      BY <3>1, <3>2
  <2>4. ASSUME NEW h \in Handles, Reopen(h)
        PROVE  Remembered(g)'
    <3>1. Stores >= 0
      BY <1>1 DEF TypeOK, Seqs
    <3>2. CASE h = g
      BY <1>2, <2>4, <3>1, <3>2 DEF Reopen, TypeOK, Whole
    <3>3. CASE h # g
      BY <1>1, <1>2, <2>1, <2>4, <3>3 DEF Reopen, TypeOK
    <3> QED
      BY <3>2, <3>3
  <2> QED
    BY <2>2, <2>3, <2>4, OthersKeepState
<1> QED
  BY <1>2, <1>3, <1>4 DEF CountInv

-----------------------------------------------------------------------------
\* Every step keeps a reader object's memory no newer than what its only thread
\* is about to return, and prev_seq away from 0 once something was read.
LEMMA OwnStateStep ==
  ASSUME TypeOK, [Next]_vars, CountInv, OwnStateInv
  PROVE  OwnStateInv'
<1> SUFFICES ASSUME NoWrap, PrivateHandles
             PROVE  OwnStateInv'
  BY DEF OwnStateInv, NoWrap, PrivateHandles
<1> DEFINE NotAhead(t) ==
             pc[t] \in {"copy", "accepted"} => prev_seq[HandleOf[t]] <= seq1[t]
           Marked(h) == has_read_once[h] <=> prev_seq[h] # 0
<1>1. (\A t \in Threads : NotAhead(t)) /\ (\A h \in Handles : Marked(h))
  BY DEF OwnStateInv
<1>2. ASSUME NEW u \in Threads
      PROVE  NotAhead(u)'
  <2>1. HandleOf[u] \in Handles
    OBVIOUS
  <2>2. CASE \A t \in Threads : ~ReaderStep(t)
    <3>1. UNCHANGED <<pc, seq1>>
      BY <2>2, OthersKeepReaders DEF reader
    <3>2. prev_seq'[HandleOf[u]] = prev_seq[HandleOf[u]] \/ prev_seq'[HandleOf[u]] = 0
      <4>1. CASE UNCHANGED state
        BY <4>1 DEF state
      <4>2. ASSUME NEW h \in Handles, Reopen(h)
            PROVE  prev_seq'[HandleOf[u]] = prev_seq[HandleOf[u]] \/ prev_seq'[HandleOf[u]] = 0
        BY <2>1, <4>2 DEF Reopen, TypeOK
      <4> QED
        BY <2>2, <4>1, <4>2, OthersKeepState DEF ReaderStep
    <3> QED
      BY <1>1, <3>1, <3>2 DEF TypeOK, Seqs
  <2>3. ASSUME NEW t \in Threads, ReaderStep(t), t # u
        PROVE  NotAhead(u)'
    <3>1. pc'[u] = pc[u] /\ seq1'[u] = seq1[u]
      BY <2>3, ReaderStepLocal
    <3>2. HandleOf[t] # HandleOf[u]
      BY <2>3 DEF PrivateHandles
    <3>3. prev_seq'[HandleOf[u]] = prev_seq[HandleOf[u]]
      BY <2>1, <2>3, <3>2
      DEF ReaderStep, Call, ReadBegin, LoadWord, ReadRetry, Return, state, TypeOK
    <3> QED
      BY <1>1, <3>1, <3>3
  <2>4. ASSUME ReaderStep(u)
        PROVE  NotAhead(u)'
    <3> USE DEF TypeOK
    <3>1. CASE Call(u)
      BY <3>1 DEF Call
    <3>2. CASE ReadBegin(u)
      <4>1. seq1'[u] = Stores /\ prev_seq' = prev_seq
        BY <3>2 DEF ReadBegin, CountInv, state
      <4> QED
        BY <2>1, <4>1 DEF CountInv
    <3>3. ASSUME NEW w \in Words, LoadWord(u, w)
          PROVE  NotAhead(u)'
      BY <1>1, <3>3 DEF LoadWord, state
    <3>4. CASE ReadRetry(u)
      BY <1>1, <3>4 DEF ReadRetry, state
    <3>5. CASE Return(u)
      BY <3>5 DEF Return
    <3> QED
      BY <2>4, <3>1, <3>2, <3>3, <3>4, <3>5 DEF ReaderStep
  <2> QED
    BY <2>2, <2>3, <2>4
<1>3. ASSUME NEW g \in Handles
      PROVE  Marked(g)'
  <2>1. CASE UNCHANGED state
    BY <1>1, <2>1 DEF state
  <2>2. ASSUME NEW t \in Threads, Return(t)
        PROVE  Marked(g)'
    <3>1. CASE HandleOf[t] = g /\ Verdict(t) = "ok"
      <4>1. has_read_once'[g] /\ prev_seq'[g] = seq1[t]
        BY <2>2, <3>1 DEF Return, TypeOK
      <4>2. prev_seq[g] <= seq1[t] /\ prev_seq[g] # seq1[t]
        BY <1>1, <2>2, <3>1 DEF Return, Verdict
      <4>3. seq1[t] # 0
        BY <4>2 DEF TypeOK, Seqs
      <4> QED
        BY <4>1, <4>3
    <3>2. CASE ~(HandleOf[t] = g /\ Verdict(t) = "ok")
      <4>1. prev_seq'[g] = prev_seq[g] /\ has_read_once'[g] = has_read_once[g]
        BY <2>2, <3>2 DEF Return, TypeOK, state
      <4> QED
        BY <1>1, <4>1
    <3> QED
      BY <3>1, <3>2
  <2>3. ASSUME NEW h \in Handles, Reopen(h)
        PROVE  Marked(g)'
    BY <1>1, <2>3 DEF Reopen, TypeOK
  <2> QED
    BY <2>1, <2>2, <2>3, OthersKeepState
<1> QED
  BY <1>2, <1>3 DEF OwnStateInv

-----------------------------------------------------------------------------
\* The whole invariant is inductive.
LEMMA IInvStep == IInv /\ [Next]_vars => IInv'
<1> SUFFICES ASSUME IInv, [Next]_vars
             PROVE  IInv'
  OBVIOUS
<1> USE DEF IInv
<1>1. TypeOK'
  BY TypeStep
<1>2. WriterInv'
  BY WriterStepInv
<1>3. \A t \in Threads : CopyInv(t)'
  BY CopyStep
<1>4. AcceptedUntorn'
  BY UntornStep
<1>5. CountInv'
  BY CountStep
<1>6. OwnStateInv'
  BY OwnStateStep
<1> QED
  BY <1>1, <1>2, <1>3, <1>4, <1>5, <1>6

\* The bookkeeping of the lock holds in every reachable state.
THEOREM Invariance == Spec => []IInv
<1> QED
  BY InitIInv, IInvStep, PTL DEF Spec

\* Every variable keeps its type: an unsigned never leaves its range.
THEOREM TypeCorrect == Spec => []TypeOK
<1>1. IInv => TypeOK
  BY DEF IInv
<1> QED
  BY <1>1, Invariance, PTL

\* The read loop of seq_lock.h never lets a torn entry out, nor one that was
\* not the newest when the loop loaded seq1, unless 2^31 writes went by meanwhile.
THEOREM NeverTorn == Spec => []AcceptedUntorn
<1>1. IInv => AcceptedUntorn
  BY DEF IInv
<1> QED
  BY <1>1, Invariance, PTL

-----------------------------------------------------------------------------
\* What a thread about to return holds, against what its reader object remembers.
LEMMA AcceptedFacts ==
  ASSUME IInv, NoWrap, PrivateHandles, NEW t \in Threads, pc[t] = "accepted"
  PROVE  LET h == HandleOf[t]
         IN /\ h \in Handles
            /\ seq1[t] \in Nat /\ prev_seq[h] \in Nat /\ prev_seq[h] <= seq1[t]
            /\ copied[t] \in [Words -> Nat] /\ delivered[h] \in [Words -> Nat]
            /\ \A w \in Words : seq1[t] = 2 * copied[t][w]
            /\ \A w \in Words : prev_seq[h] = 2 * delivered[h][w]
            /\ has_read_once[h] <=> prev_seq[h] # 0
<1> DEFINE h == HandleOf[t]
<1>1. h \in Handles
  OBVIOUS
<1>2. /\ seq1[t] \in Nat /\ prev_seq[h] \in Nat
      /\ copied[t] \in [Words -> Nat] /\ delivered[h] \in [Words -> Nat]
  BY <1>1 DEF IInv, TypeOK, Seqs, Messages
<1>3. seq1[t] = began[t] /\ span[t] < SeqModulus
  BY DEF IInv, CountInv
<1>4. \A w \in Words : seq1[t] = 2 * copied[t][w]
  BY <1>3 DEF IInv, AcceptedUntorn
<1>5. \A w \in Words : prev_seq[h] = 2 * delivered[h][w]
  BY <1>1 DEF IInv, CountInv
<1>6. prev_seq[h] <= seq1[t] /\ (has_read_once[h] <=> prev_seq[h] # 0)
  BY <1>1 DEF IInv, OwnStateInv
<1> QED
  BY <1>1, <1>2, <1>4, <1>5, <1>6

\* read() fails exactly when it would hand out what the object gave before; the
\* answers 0, EAGAIN and ENOMSG then mean newer, same again, and nothing yet.
LEMMA VerdictFacts ==
  ASSUME IInv, NoWrap, PrivateHandles, NEW t \in Threads, pc[t] = "accepted"
  PROVE  LET last == delivered[HandleOf[t]]
         IN /\ Verdict(t) \in {"ok", "EAGAIN", "ENOMSG"}
            /\ Verdict(t) = "ok" => \A w \in Words : copied[t][w] > last[w]
            /\ Verdict(t) # "ok" => copied[t] = last
            /\ Verdict(t) = "EAGAIN" => last # Whole(0)
            /\ Verdict(t) = "ENOMSG" => copied[t] = Whole(0)
<1> DEFINE h == HandleOf[t]
<1>1. /\ seq1[t] \in Nat /\ prev_seq[h] \in Nat /\ prev_seq[h] <= seq1[t]
      /\ copied[t] \in [Words -> Nat] /\ delivered[h] \in [Words -> Nat]
      /\ \A w \in Words : seq1[t] = 2 * copied[t][w]
      /\ \A w \in Words : prev_seq[h] = 2 * delivered[h][w]
      /\ has_read_once[h] <=> prev_seq[h] # 0
  BY AcceptedFacts
<1>2. Verdict(t) = "ok" <=> seq1[t] # prev_seq[h]
  BY DEF Verdict
<1>3. ASSUME Verdict(t) = "ok"
      PROVE  \A w \in Words : copied[t][w] > delivered[h][w]
  <2> TAKE w \in Words
  <2>1. /\ copied[t][w] \in Nat /\ delivered[h][w] \in Nat
        /\ seq1[t] = 2 * copied[t][w] /\ prev_seq[h] = 2 * delivered[h][w]
        /\ prev_seq[h] < seq1[t]
    BY <1>1, <1>2, <1>3
  <2> QED
    BY <2>1
<1>4. ASSUME Verdict(t) # "ok"
      PROVE  copied[t] = delivered[h]
  <2>1. \A w \in Words : 2 * copied[t][w] = 2 * delivered[h][w]
    BY <1>1, <1>2, <1>4
  <2>2. \A w \in Words : copied[t][w] = delivered[h][w]
    <3> TAKE w \in Words
    <3>1. copied[t][w] \in Nat /\ delivered[h][w] \in Nat
      BY <1>1
    <3> QED
      BY <2>1, <3>1
  <2> QED
    BY <1>1, <2>2
<1>5. ASSUME Verdict(t) = "EAGAIN"
      PROVE  delivered[h] # Whole(0)
  <2>1. prev_seq[h] # 0
    BY <1>1, <1>5 DEF Verdict
  <2>2. PICK w \in Words : TRUE
    OBVIOUS
  <2>3. delivered[h][w] # 0
    BY <1>1, <2>1
  <2> QED
    BY <2>3 DEF Whole
<1>6. ASSUME Verdict(t) = "ENOMSG"
      PROVE  copied[t] = Whole(0)
  <2>1. seq1[t] = 0
    BY <1>6 DEF Verdict
  <2>2. \A w \in Words : copied[t][w] = 0
    <3> TAKE w \in Words
    <3>1. copied[t][w] \in Nat /\ 2 * copied[t][w] = 0
      BY <1>1, <2>1
    <3> QED
      BY <3>1
  <2> QED
    BY <1>1, <2>2 DEF Whole
<1> QED
  BY <1>3, <1>4, <1>5, <1>6 DEF Verdict

\* As long as seq does not wrap and no two threads share a reader object, what
\* read() answers is right: 0 with a newer message, EAGAIN with the last one
\* again, ENOMSG with nothing.
THEOREM InOrder ==
  ASSUME NoWrap, PrivateHandles
  PROVE  Spec => AnswersInOrder
<1>1. IInv /\ [Next]_vars => \A t \in Threads : AnswerInOrder(t)
  <2> SUFFICES ASSUME IInv, [Next]_vars,
                      NEW t \in Threads, pc[t] = "accepted", pc'[t] = "idle"
               PROVE  AnswerInOrder(t)
    BY DEF AnswerInOrder
  <2>1. ~ \A u \in Threads : ~ReaderStep(u)
    BY OthersKeepReaders DEF reader
  <2>2. PICK u \in Threads : ReaderStep(u)
    BY <2>1
  <2>3. u = t
    BY <2>2, ReaderStepLocal DEF IInv
  <2>4. Return(t)
    BY <2>2, <2>3 DEF ReaderStep, Call, ReadBegin, LoadWord, ReadRetry, IInv, TypeOK
  <2>5. rc'[t] = Verdict(t)
    BY <2>4 DEF Return, IInv, TypeOK
  <2> QED
    BY <2>5, VerdictFacts DEF AnswerInOrder
<1> QED
  BY <1>1, Invariance, PTL DEF Spec, AnswersInOrder

-----------------------------------------------------------------------------
\* Two equal entries of the same message are the same function.
LEMMA WholeEntry ==
  ASSUME NEW n, NEW e \in [Words -> Nat], \A w \in Words : e[w] = n
  PROVE  e = Whole(n)
BY DEF Whole

\* LatestEntry sees nothing of a step that changes neither where a thread
\* stands, nor what it would return, nor what its reader object remembers.
LEMMA ViewKept ==
  ASSUME NEW t \in Threads,
         pc'[t] = pc[t] \/ (pc[t] \in {"begin", "copy"} /\ pc'[t] \in {"begin", "copy"}),
         rc'[t] = rc[t],
         pc[t] \in {"begin", "copy"} \/ copied'[t] = copied[t],
         pc[t] = "accepted" => seq1'[t] = seq1[t],
         UNCHANGED state
  PROVE  /\ SeenBy(t)' = SeenBy(t) /\ PhaseOf(t)' = PhaseOf(t)
         /\ GotBy(t)' = GotBy(t) /\ OutcomeOf(t)' = OutcomeOf(t)
BY DEF SeenBy, PhaseOf, GotBy, OutcomeOf, Verdict, state

\* The same for a thread whose neighbour takes a step, when neither shares its
\* reader object.
LEMMA OthersViewKept ==
  ASSUME IInv, PrivateHandles, [Next]_vars,
         NEW t \in Threads, NEW u \in Threads, u # t, ReaderStep(t)
  PROVE  /\ SeenBy(u)' = SeenBy(u) /\ PhaseOf(u)' = PhaseOf(u)
         /\ GotBy(u)' = GotBy(u) /\ OutcomeOf(u)' = OutcomeOf(u)
<1>1. /\ pc'[u] = pc[u] /\ seq1'[u] = seq1[u] /\ rc'[u] = rc[u]
      /\ copied'[u] = copied[u]
  BY ReaderStepLocal DEF IInv
<1>2. HandleOf[u] \in Handles /\ HandleOf[t] # HandleOf[u]
  BY DEF PrivateHandles
<1>3. /\ prev_seq'[HandleOf[u]] = prev_seq[HandleOf[u]]
      /\ has_read_once'[HandleOf[u]] = has_read_once[HandleOf[u]]
      /\ delivered'[HandleOf[u]] = delivered[HandleOf[u]]
  BY <1>2 DEF ReaderStep, Call, ReadBegin, LoadWord, ReadRetry, Return, state,
              IInv, TypeOK
<1> QED
  BY <1>1, <1>3 DEF SeenBy, PhaseOf, GotBy, OutcomeOf, Verdict

\* A step none of whose effects LatestEntry sees is a stuttering step of it.
LEMMA Stutter ==
  ASSUME Published' = Published,
         \A u \in Threads : /\ SeenBy(u)' = SeenBy(u) /\ PhaseOf(u)' = PhaseOf(u)
                            /\ GotBy(u)' = GotBy(u) /\ OutcomeOf(u)' = OutcomeOf(u)
  PROVE  UNCHANGED Promise!vars
<1>1. /\ [u \in Threads |-> SeenBy(u)]' = [u \in Threads |-> SeenBy(u)]
      /\ [u \in Threads |-> PhaseOf(u)]' = [u \in Threads |-> PhaseOf(u)]
      /\ [u \in Threads |-> GotBy(u)]' = [u \in Threads |-> GotBy(u)]
      /\ [u \in Threads |-> OutcomeOf(u)]' = [u \in Threads |-> OutcomeOf(u)]
  OBVIOUS
<1> QED
  BY <1>1 DEF Promise!vars

\* The writer's steps: the store that ends a write publishes it, the others are
\* not seen.
LEMMA WriterRefines ==
  ASSUME IInv, WriterStep
  PROVE  Promise!Publish \/ UNCHANGED Promise!vars
<1>1. UNCHANGED <<reader, state>>
  BY DEF WriterStep, WriteBegin, StoreWord, WriteEnd
<1>2. \A u \in Threads : /\ SeenBy(u)' = SeenBy(u) /\ PhaseOf(u)' = PhaseOf(u)
                         /\ GotBy(u)' = GotBy(u) /\ OutcomeOf(u)' = OutcomeOf(u)
  BY <1>1, ViewKept DEF reader
<1>3. CASE WriteEnd
  <2>1. written \in Nat /\ Published' = Published + 1
    BY <1>3 DEF WriteEnd, Published, IInv, TypeOK, Messages
  <2>2. /\ [u \in Threads |-> SeenBy(u)]' = [u \in Threads |-> SeenBy(u)]
        /\ [u \in Threads |-> PhaseOf(u)]' = [u \in Threads |-> PhaseOf(u)]
        /\ [u \in Threads |-> GotBy(u)]' = [u \in Threads |-> GotBy(u)]
        /\ [u \in Threads |-> OutcomeOf(u)]' = [u \in Threads |-> OutcomeOf(u)]
    BY <1>2
  <2> QED
    BY <2>1, <2>2 DEF Promise!Publish
<1>4. CASE WriteBegin
  <2>1. written \in Nat /\ Published' = Published
    BY <1>4 DEF WriteBegin, Published, IInv, TypeOK, Messages
  <2> QED
    BY <1>2, <2>1, Stutter
<1>5. ASSUME NEW w \in Words, StoreWord(w)
      PROVE  Published' = Published
  BY <1>5 DEF StoreWord, Published
<1> QED
  BY <1>2, <1>3, <1>4, <1>5, Stutter DEF WriterStep

\* A step of one thread that LatestEntry sees as a step of that reader.
LEMMA ViewOfStep ==
  ASSUME IInv, PrivateHandles, [Next]_vars, NEW t \in Threads, ReaderStep(t)
  PROVE  /\ Published' = Published
         /\ [u \in Threads |-> SeenBy(u)]'
              = [[u \in Threads |-> SeenBy(u)] EXCEPT ![t] = SeenBy(t)']
         /\ [u \in Threads |-> PhaseOf(u)]'
              = [[u \in Threads |-> PhaseOf(u)] EXCEPT ![t] = PhaseOf(t)']
         /\ [u \in Threads |-> GotBy(u)]'
              = [[u \in Threads |-> GotBy(u)] EXCEPT ![t] = GotBy(t)']
         /\ [u \in Threads |-> OutcomeOf(u)]'
              = [[u \in Threads |-> OutcomeOf(u)] EXCEPT ![t] = OutcomeOf(t)']
<1>1. \A u \in Threads \ {t} :
        /\ SeenBy(u)' = SeenBy(u) /\ PhaseOf(u)' = PhaseOf(u)
        /\ GotBy(u)' = GotBy(u) /\ OutcomeOf(u)' = OutcomeOf(u)
  BY OthersViewKept
<1>2. Published' = Published
  BY DEF ReaderStep, Call, ReadBegin, LoadWord, ReadRetry, Return, writer, Published
<1> QED
  BY <1>1, <1>2

\* A call is a call.
LEMMA CallRefines ==
  ASSUME IInv, PrivateHandles, [Next]_vars, NEW t \in Threads, Call(t)
  PROVE  Promise!Call(t)
<1>1. /\ PhaseOf(t) = "idle" /\ PhaseOf(t)' = "called" /\ GotBy(t)' = Whole(0)
      /\ OutcomeOf(t)' = "none" /\ SeenBy(t)' = SeenBy(t)
  BY DEF Call, PhaseOf, GotBy, OutcomeOf, SeenBy, state, IInv, TypeOK
<1> QED
  BY <1>1, ViewOfStep DEF ReaderStep, Promise!Call, Promise!Whole, Whole

\* The load of seq that ends the read loop is the moment the read takes effect:
\* the entry copied is the newest, and the verdict is already decided.
LEMMA AcceptRefines ==
  ASSUME IInv, NoWrap, PrivateHandles, [Next]_vars, NEW t \in Threads,
         ReadRetry(t), ~MustRetry(t)
  PROVE  Promise!Read(t)
<1> DEFINE h == HandleOf[t]
<1>1. h \in Handles /\ TypeOK /\ WriterInv /\ CopyInv(t)
  BY DEF IInv
<1>2. /\ pc[t] = "copy" /\ pc'[t] = "accepted" /\ rc' = rc
      /\ UNCHANGED <<seq1, copied, state>>
  BY <1>1 DEF ReadRetry, TypeOK
<1>3. Stores - began[t] < SeqModulus
  <2>1. seq1[t] = began[t] /\ began[t] <= Stores /\ Stores = seq
    BY <1>2 DEF IInv, CountInv
  <2>2. seq \in 0..(SeqModulus - 1) /\ seq1[t] \in 0..(SeqModulus - 1)
    BY <1>1 DEF TypeOK, Seqs
  <2>3. seq - seq1[t] < SeqModulus
    BY <2>2
  <2> QED
    BY <2>1, <2>3
<1>4. /\ ~IsOdd(seq) /\ seq1[t] = Stores /\ Stores = 2 * written
      /\ \A w \in Words : 2 * copied[t][w] = Stores
  <2>1. seq = Stores
    BY DEF IInv, CountInv
  <2> QED
    BY <1>1, <1>3, <2>1, AcceptsNewest
<1>5. Published = written /\ written \in Nat
  BY <1>1, <1>4, StoresParity DEF TypeOK, Messages
<1>6. copied[t] \in [Words -> Nat] /\ delivered[h] \in [Words -> Nat]
  BY <1>1 DEF TypeOK, Messages
<1>7. copied[t] = Whole(Published)
  <2>1. \A w \in Words : copied[t][w] = Published
    <3> TAKE w \in Words
    <3>1. copied[t][w] \in Nat /\ 2 * copied[t][w] = 2 * written
      BY <1>4, <1>6
    <3> QED
      BY <1>5, <3>1
  <2> QED
    BY <1>6, <2>1, WholeEntry
<1>8. Whole(Published) = delivered[h] <=> seq1[t] = prev_seq[h]
  <2>1. \A w \in Words : prev_seq[h] = 2 * delivered[h][w]
    BY <1>1 DEF IInv, CountInv
  <2>2. PICK w \in Words : TRUE
    OBVIOUS
  <2>3. ASSUME Whole(Published) = delivered[h]
        PROVE  seq1[t] = prev_seq[h]
    <3>1. delivered[h][w] = Published
      BY <2>3 DEF Whole
    <3> QED
      BY <1>4, <1>5, <2>1, <3>1
  <2>4. ASSUME seq1[t] = prev_seq[h]
        PROVE  Whole(Published) = delivered[h]
    <3>1. \A v \in Words : delivered[h][v] = Published
      <4> TAKE v \in Words
      <4>1. delivered[h][v] \in Nat /\ 2 * delivered[h][v] = 2 * written
        BY <1>4, <1>6, <2>1, <2>4
      <4> QED
        BY <1>5, <4>1
    <3> QED
      BY <1>6, <3>1, WholeEntry
  <2> QED
    BY <2>3, <2>4
<1>9. /\ SeenBy(t) = delivered[h] /\ PhaseOf(t) = "called"
      /\ SeenBy(t)' = Whole(Published) /\ PhaseOf(t)' = "read"
      /\ GotBy(t)' = Whole(Published)
      /\ OutcomeOf(t)' = Verdict(t)
  BY <1>2, <1>7 DEF SeenBy, PhaseOf, GotBy, OutcomeOf, Verdict, state
<1>10. Verdict(t) = IF Whole(Published) # delivered[h] THEN "ok"
                    ELSE IF Published = 0 THEN "ENOMSG" ELSE "EAGAIN"
  <2>1. has_read_once[h] <=> prev_seq[h] # 0
    BY <1>1 DEF IInv, OwnStateInv
  <2>2. seq1[t] = 0 <=> Published = 0
    BY <1>4, <1>5
  <2> QED
    BY <1>8, <2>1, <2>2 DEF Verdict
<1> QED
  BY <1>9, <1>10, ViewOfStep
  DEF ReaderStep, Promise!Read, Promise!Verdict, Promise!Whole, Whole

\* Return hands over what the read found, and the reader object remembers it.
LEMMA ReturnRefines ==
  ASSUME IInv, NoWrap, PrivateHandles, [Next]_vars, NEW t \in Threads, Return(t)
  PROVE  Promise!Return(t)
<1>1. HandleOf[t] \in Handles /\ pc[t] = "accepted" /\ pc'[t] = "idle"
  BY DEF Return, IInv, TypeOK
<1>2. PhaseOf(t) = "read" /\ PhaseOf(t)' = "idle"
  BY <1>1 DEF PhaseOf
<1>3. GotBy(t)' = GotBy(t) /\ OutcomeOf(t)' = OutcomeOf(t)
  BY <1>1 DEF Return, GotBy, OutcomeOf, IInv, TypeOK
<1>4. SeenBy(t)' = SeenBy(t)
  <2>1. CASE Verdict(t) = "ok"
    BY <1>1, <2>1 DEF Return, SeenBy, IInv, TypeOK
  <2>2. CASE Verdict(t) # "ok"
    <3>1. copied[t] = delivered[HandleOf[t]]
      BY <1>1, <2>2, VerdictFacts
    <3> QED
      BY <1>1, <2>2, <3>1 DEF Return, SeenBy, state
  <2> QED
    BY <2>1, <2>2
<1> QED
  BY <1>2, <1>3, <1>4, ViewOfStep DEF ReaderStep, Promise!Return

\* Everything a thread does between is not seen.
LEMMA LoopRefines ==
  ASSUME IInv, PrivateHandles, [Next]_vars, NEW t \in Threads,
         \/ ReadBegin(t)
         \/ \E w \in Words : LoadWord(t, w)
         \/ ReadRetry(t) /\ MustRetry(t)
  PROVE  UNCHANGED Promise!vars
<1>1. /\ pc[t] \in {"begin", "copy"} /\ pc'[t] \in {"begin", "copy"}
      /\ UNCHANGED <<rc, state>>
  BY DEF ReadBegin, LoadWord, ReadRetry, IInv, TypeOK, CopyInv
<1>2. ReaderStep(t)
  BY DEF ReaderStep
<1>3. /\ SeenBy(t)' = SeenBy(t) /\ PhaseOf(t)' = PhaseOf(t)
      /\ GotBy(t)' = GotBy(t) /\ OutcomeOf(t)' = OutcomeOf(t)
  BY <1>1, ViewKept
<1> QED
  BY <1>2, <1>3, OthersViewKept, ViewOfStep, Stutter

\* Creating a reader object anew makes its thread forget what it has seen.
LEMMA ReopenRefines ==
  ASSUME IInv, PrivateHandles, NEW h \in Handles, Reopen(h)
  PROVE  (\E t \in Threads : Promise!Reopen(t)) \/ UNCHANGED Promise!vars
<1>1. Published' = Published /\ UNCHANGED reader
  BY DEF Reopen, writer, Published
<1>2. ASSUME NEW u \in Threads, HandleOf[u] # h
      PROVE  /\ SeenBy(u)' = SeenBy(u) /\ PhaseOf(u)' = PhaseOf(u)
             /\ GotBy(u)' = GotBy(u) /\ OutcomeOf(u)' = OutcomeOf(u)
  <2>1. HandleOf[u] \in Handles
    OBVIOUS
  <2>2. /\ prev_seq'[HandleOf[u]] = prev_seq[HandleOf[u]]
        /\ has_read_once'[HandleOf[u]] = has_read_once[HandleOf[u]]
        /\ delivered'[HandleOf[u]] = delivered[HandleOf[u]]
    BY <1>2, <2>1 DEF Reopen, IInv, TypeOK
  <2> QED
    BY <1>1, <2>2 DEF SeenBy, PhaseOf, GotBy, OutcomeOf, Verdict, reader
<1>3. CASE \A u \in Threads : HandleOf[u] # h
  BY <1>1, <1>2, <1>3, Stutter
<1>4. ASSUME NEW t \in Threads, HandleOf[t] = h
      PROVE  Promise!Reopen(t)
  <2>1. \A u \in Threads \ {t} : HandleOf[u] # h
    BY <1>4 DEF PrivateHandles
  <2>2. pc[t] = "idle" /\ pc'[t] = "idle"
    BY <1>1, <1>4 DEF Reopen, reader
  <2>3. delivered'[h] = Whole(0)
    BY DEF Reopen, IInv, TypeOK
  <2>4. /\ PhaseOf(t) = "idle" /\ SeenBy(t)' = Whole(0) /\ PhaseOf(t)' = PhaseOf(t)
        /\ GotBy(t)' = GotBy(t) /\ OutcomeOf(t)' = OutcomeOf(t)
    BY <1>1, <1>4, <2>2, <2>3 DEF SeenBy, PhaseOf, GotBy, OutcomeOf, reader
  <2>5. /\ [u \in Threads |-> SeenBy(u)]'
             = [[u \in Threads |-> SeenBy(u)] EXCEPT ![t] = Whole(0)]
        /\ [u \in Threads |-> PhaseOf(u)]' = [u \in Threads |-> PhaseOf(u)]
        /\ [u \in Threads |-> GotBy(u)]' = [u \in Threads |-> GotBy(u)]
        /\ [u \in Threads |-> OutcomeOf(u)]' = [u \in Threads |-> OutcomeOf(u)]
    BY <1>2, <2>1, <2>4
  <2> QED
    BY <1>1, <2>4, <2>5 DEF Promise!Reopen, Promise!Whole, Whole
<1> QED
  BY <1>3, <1>4

\* The sequence lock implements LatestEntry: seen from its callers, each read
\* takes effect at one instant between its call and its return, and gets the
\* newest whole message; as long as seq does not wrap and no two threads share a
\* reader object.
THEOREM Linearizable ==
  ASSUME NoWrap, PrivateHandles
  PROVE  Spec => ImplementsLatestEntry
<1>1. Init => Promise!Init
  <2> SUFFICES ASSUME Init
               PROVE  Promise!Init
    OBVIOUS
  <2>1. Published = 0
    BY DEF Init, Published
  <2>2. \A t \in Threads : /\ SeenBy(t) = Whole(0) /\ PhaseOf(t) = "idle"
                           /\ GotBy(t) = Whole(0) /\ OutcomeOf(t) = "none"
    BY DEF Init, SeenBy, PhaseOf, GotBy, OutcomeOf
  <2> QED
    BY <2>1, <2>2 DEF Promise!Init, Promise!Whole, Whole
<1>2. IInv /\ [Next]_vars => [Promise!Next]_(Promise!vars)
  <2> SUFFICES ASSUME IInv, [Next]_vars
               PROVE  Promise!Next \/ UNCHANGED Promise!vars
    OBVIOUS
  <2>1. CASE WriterStep
    BY <2>1, WriterRefines DEF Promise!Next
  <2>2. ASSUME NEW t \in Threads, ReaderStep(t)
        PROVE  Promise!Next \/ UNCHANGED Promise!vars
    <3>1. CASE Call(t)
      BY <3>1, CallRefines DEF Promise!Next
    <3>2. CASE ReadRetry(t) /\ ~MustRetry(t)
      BY <3>2, AcceptRefines DEF Promise!Next
    <3>3. CASE Return(t)
      BY <3>3, ReturnRefines DEF Promise!Next
    <3>4. CASE \/ ReadBegin(t)
               \/ \E w \in Words : LoadWord(t, w)
               \/ ReadRetry(t) /\ MustRetry(t)
      BY <3>4, LoopRefines
    <3> QED
      BY <2>2, <3>1, <3>2, <3>3, <3>4 DEF ReaderStep
  <2>3. ASSUME NEW h \in Handles, Reopen(h)
        PROVE  Promise!Next \/ UNCHANGED Promise!vars
    BY <2>3, ReopenRefines DEF Promise!Next
  <2>4. CASE UNCHANGED vars
    <3>1. UNCHANGED <<writer, reader, state>>
      BY <2>4 DEF vars
    <3>2. Published' = Published
      BY <3>1 DEF writer, Published
    <3>3. \A t \in Threads :
            /\ SeenBy(t)' = SeenBy(t) /\ PhaseOf(t)' = PhaseOf(t)
            /\ GotBy(t)' = GotBy(t) /\ OutcomeOf(t)' = OutcomeOf(t)
      BY <3>1, ViewKept DEF reader
    <3> QED
      BY <3>2, <3>3, Stutter
  <2> QED
    BY <2>1, <2>2, <2>3, <2>4 DEF Next
<1> QED
  BY <1>1, <1>2, Invariance, PTL DEF Spec, ImplementsLatestEntry, Promise!Spec
=============================================================================
