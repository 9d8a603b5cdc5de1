----------------------- MODULE SeqLockBarriersProofs -----------------------
(* That the sequence lock with its barriers does nothing in memory that      *)
(* SeqLock does not allow, for every number of words, threads and writes,    *)
(* every modulus and every size of the writer's buffer.                      *)
EXTENDS SeqLockBarriers, SequenceTheorems, TLAPS

USE SeqLockAssumption DEF SeqLockAssumption

-----------------------------------------------------------------------------
(* The invariant                                                            *)

Item == [loc : Words \cup {"seq", "wmb"}, val : Nat]

BTypeOK ==
  /\ TypeOK
  /\ sb \in Seq(Item)
  /\ trip \in [Threads -> SUBSET Loads]
  /\ seq2 \in [Threads -> Seqs]
  /\ arrived \in Nat

IsSeq(i) == sb[i].loc = "seq"
IsWord(i) == sb[i].loc \in Words
IsWmb(i) == sb[i].loc = "wmb"

\* The value of seq once everything issued has arrived.
LastIssued == IF Stores = 0 THEN 0 ELSE IF writing THEN wseq ELSE Inc(wseq)

\* at says how many stores to seq were issued before a store in the buffer.
\* They are all there, in order, each one more than the one before, and a word
\* lies between the two of its write.
Numbered(at) ==
  /\ at \in [DOMAIN sb -> Nat]
  /\ \A i \in DOMAIN sb :
       /\ IsSeq(i) => arrived <= at[i] /\ at[i] < Stores /\ sb[i].val \in Seqs
       /\ IsSeq(i) /\ at[i] = arrived => sb[i].val = Inc(seq)
       /\ IsSeq(i) /\ at[i] + 1 = Stores => sb[i].val = LastIssued
       /\ IsWord(i) => /\ arrived <= at[i] /\ at[i] = 2 * sb[i].val - 1
                       /\ sb[i].val <= written
       /\ IsWmb(i) => sb[i] = Wmb
  /\ \A i, j \in DOMAIN sb :
       i < j /\ ~IsWmb(i) /\ ~IsWmb(j) => at[i] <= at[j] /\ (IsSeq(i) => at[i] < at[j])
  /\ \A i, j \in DOMAIN sb :
       IsSeq(i) /\ IsSeq(j) /\ at[j] = at[i] + 1 => sb[j].val = Inc(sb[i].val)
  /\ \A n \in Nat : arrived <= n /\ n < Stores => \E i \in DOMAIN sb : IsSeq(i) /\ at[i] = n

\* Between a store to seq and one to the entry there is a barrier, and behind
\* what the next store must wait for.
Apart ==
  /\ \A i, j \in DOMAIN sb :
       i < j /\ ((IsSeq(i) /\ IsWord(j)) \/ (IsWord(i) /\ IsSeq(j))) =>
         \E k \in DOMAIN sb : i < k /\ k < j /\ IsWmb(k)
  /\ \A i \in DOMAIN sb :
       (IF writing THEN IsSeq(i) ELSE IsWord(i)) => \E k \in DOMAIN sb : i < k /\ IsWmb(k)

WritesInv ==
  /\ ~writing => wleft = {}
  /\ writing => written > 0
  /\ arrived <= Stores
  /\ arrived = Stores => seq = LastIssued
  /\ IsOdd(seq) <=> IsOdd(arrived)

\* A word has its value of the write under way in memory or the one before, and
\* the values still to come are in the buffer or not issued.
WordsInv ==
  \A w \in Words :
    /\ entry[w] \in {MemWritten - 1, MemWritten}
    /\ ~MemWriting => entry[w] = MemWritten
    /\ \A n \in MemWritten..written :
         \/ n = MemWritten /\ entry[w] = n
         \/ n = written /\ w \in wleft
         \/ \E i \in DOMAIN sb : sb[i] = WordStore(w, n)

\* The loads of a trip that are left.
TripInv(t) ==
  /\ pc[t] \in {"idle", "accepted"} => trip[t] = {}
  /\ pc[t] = "begin" => trip[t] = Loads
  /\ pc[t] = "copy" => (trip[t] = {} /\ todo[t] = {}) \/ trip[t] = {"seq2"} \cup todo[t]

BInv ==
  /\ BTypeOK
  /\ \E at : Numbered(at)
  /\ Apart
  /\ WritesInv
  /\ WordsInv
  /\ \A t \in Threads : TripInv(t)

-----------------------------------------------------------------------------
(* The buffer                                                               *)

\* The kinds of what is in the buffer.
LEMMA Kinds ==
  ASSUME BTypeOK
  PROVE  /\ Len(sb) \in Nat /\ DOMAIN sb = 1..Len(sb)
         /\ \A i \in DOMAIN sb :
              /\ sb[i] \in Item
              /\ IsSeq(i) \/ IsWord(i) \/ IsWmb(i)
              /\ ~(IsSeq(i) /\ IsWord(i)) /\ ~(IsWmb(i) /\ IsWord(i)) /\ ~(IsSeq(i) /\ IsWmb(i))
PROOF
<1>1. Len(sb) \in Nat /\ DOMAIN sb = 1..Len(sb) /\ \A i \in DOMAIN sb : sb[i] \in Item
  BY DEF BTypeOK
<1>2. \A x \in Item : x.loc \in Words \cup {"seq", "wmb"}
  BY DEF Item
<1>3. "seq" \notin Words /\ "wmb" \notin Words
  BY BarrierAssumption
<1> QED
  BY <1>1, <1>2, <1>3 DEF IsSeq, IsWord, IsWmb

\* Behind what was taken out, everything moves up by one.
LEMMA TakenOut ==
  ASSUME BTypeOK, NEW k \in DOMAIN sb
  PROVE  /\ RemoveAt(sb, k) \in Seq(Item)
         /\ Len(RemoveAt(sb, k)) = Len(sb) - 1
         /\ DOMAIN RemoveAt(sb, k) = 1..(Len(sb) - 1)
         /\ \A i \in 1..(Len(sb) - 1) :
              RemoveAt(sb, k)[i] = IF i < k THEN sb[i] ELSE sb[i + 1]
PROOF
<1>1. Len(sb) \in Nat /\ DOMAIN sb = 1..Len(sb) /\ k \in 1..Len(sb) /\ \A i \in 1..Len(sb) : sb[i] \in Item
  BY Kinds
<1> DEFINE front == SubSeq(sb, 1, k - 1)
           back == SubSeq(sb, k + 1, Len(sb))
<1>2. /\ front \in Seq(Item) /\ Len(front) = k - 1
      /\ \A i \in 1..(k - 1) : front[i] = sb[i]
  BY <1>1, SubSeqProperties
<1>3. /\ back \in Seq(Item) /\ Len(back) = Len(sb) - k
      /\ \A i \in 1..(Len(sb) - k) : back[i] = sb[k + i]
  BY <1>1, SubSeqProperties
<1>4. RemoveAt(sb, k) = front \o back
  BY DEF RemoveAt
<1> HIDE DEF front, back
<1>5. /\ front \o back \in Seq(Item)
      /\ Len(front \o back) = Len(front) + Len(back)
      /\ \A i \in 1..(Len(front) + Len(back)) :
           (front \o back)[i] = IF i <= Len(front) THEN front[i] ELSE back[i - Len(front)]
  BY <1>2, <1>3, ConcatProperties
<1>6. Len(front) + Len(back) = Len(sb) - 1
  BY <1>1, <1>2, <1>3
<1>7. ASSUME NEW i \in 1..(Len(sb) - 1)
      PROVE  (front \o back)[i] = IF i < k THEN sb[i] ELSE sb[i + 1]
  <2>1. CASE i < k
    BY <1>1, <1>2, <1>5, <1>6, <2>1
  <2>2. CASE ~(i < k)
    <3>1. (front \o back)[i] = back[i - (k - 1)]
      BY <1>1, <1>2, <1>5, <1>6, <2>2
    <3>2. i - (k - 1) \in 1..(Len(sb) - k)
      BY <1>1, <2>2
    <3>3. back[i - (k - 1)] = sb[k + (i - (k - 1))] /\ k + (i - (k - 1)) = i + 1
      BY <1>1, <1>3, <3>2
    <3> QED
      BY <2>2, <3>1, <3>3
  <2> QED
    BY <2>1, <2>2
<1>8. DOMAIN (front \o back) = 1..Len(front \o back)
  BY <1>5
<1> QED
  BY <1>4, <1>5, <1>6, <1>7, <1>8

\* Of a barrier at the head as well.
LEMMA HeadTakenOut ==
  ASSUME BTypeOK, sb # <<>>
  PROVE  /\ 1 \in DOMAIN sb /\ Head(sb) = sb[1]
         /\ Tail(sb) = RemoveAt(sb, 1)
PROOF
<1>1. Len(sb) \in Nat \ {0} /\ DOMAIN sb = 1..Len(sb)
  BY Kinds, EmptySeq DEF BTypeOK
<1>2. 1 \in DOMAIN sb /\ Head(sb) = sb[1]
  BY <1>1 DEF BTypeOK
<1>3. /\ Tail(sb) \in Seq(Item) /\ Len(Tail(sb)) = Len(sb) - 1
      /\ \A i \in 1..Len(Tail(sb)) : Tail(sb)[i] = sb[i + 1]
  BY HeadTailProperties DEF BTypeOK
<1>4. \A i \in 1..Len(Tail(sb)) : Tail(sb)[i] = RemoveAt(sb, 1)[i]
  <2> SUFFICES ASSUME NEW i \in 1..Len(Tail(sb)) PROVE Tail(sb)[i] = RemoveAt(sb, 1)[i]
    OBVIOUS
  <2>1. i \in 1..(Len(sb) - 1) /\ ~(i < 1)
    BY <1>1, <1>3
  <2>2. RemoveAt(sb, 1)[i] = sb[i + 1]
    BY <1>2, <2>1, TakenOut
  <2> QED
    BY <1>3, <2>2
<1>5. Tail(sb) = RemoveAt(sb, 1)
  BY <1>2, <1>3, <1>4, TakenOut, SeqEqual
<1> QED
  BY <1>2, <1>5

\* Where the item at place i was before the one at k was taken out.
Was(k, i) == IF i < k THEN i ELSE i + 1

\* All others are still there, in the same order.
LEMMA Others ==
  ASSUME BTypeOK, NEW k \in DOMAIN sb, sb' = RemoveAt(sb, k)
  PROVE  /\ sb' \in Seq(Item)
         /\ \A i \in DOMAIN sb' : Was(k, i) \in DOMAIN sb /\ Was(k, i) # k /\ sb'[i] = sb[Was(k, i)]
         /\ \A i, j \in DOMAIN sb' : i < j <=> Was(k, i) < Was(k, j)
         /\ \A m \in DOMAIN sb : m # k => \E i \in DOMAIN sb' : Was(k, i) = m
PROOF
<1>1. Len(sb) \in Nat /\ DOMAIN sb = 1..Len(sb) /\ k \in 1..Len(sb)
  BY Kinds
<1>2. /\ sb' \in Seq(Item) /\ DOMAIN sb' = 1..(Len(sb) - 1)
      /\ \A i \in 1..(Len(sb) - 1) : sb'[i] = IF i < k THEN sb[i] ELSE sb[i + 1]
  BY TakenOut
<1>3. \A i \in 1..(Len(sb) - 1) : sb'[i] = sb[Was(k, i)]
  BY <1>2 DEF Was
<1>4. \A i \in 1..(Len(sb) - 1) : Was(k, i) \in 1..Len(sb) /\ Was(k, i) # k
  BY <1>1 DEF Was
<1>5. \A i, j \in 1..(Len(sb) - 1) : i < j <=> Was(k, i) < Was(k, j)
  BY <1>1 DEF Was
<1>6. ASSUME NEW m \in 1..Len(sb), m # k PROVE \E i \in 1..(Len(sb) - 1) : Was(k, i) = m
  <2>1. CASE m < k
    BY <1>1, <2>1 DEF Was
  <2>2. CASE k < m
    <3>1. m - 1 \in 1..(Len(sb) - 1) /\ Was(k, m - 1) = m
      BY <1>1, <2>2 DEF Was
    <3> QED
      BY <3>1
  <2> QED
    BY <1>1, <1>6, <2>1, <2>2
<1> QED
  BY <1>1, <1>2, <1>3, <1>4, <1>5, <1>6

\* What stood between two items still does, unless it was at the head.
LEMMA ApartTakenOut ==
  ASSUME BTypeOK, Apart, NEW k \in DOMAIN sb, sb' = RemoveAt(sb, k), writing' = writing,
         IsWmb(k) => k = 1
  PROVE  Apart'
PROOF
<1>1. /\ \A i \in DOMAIN sb' : Was(k, i) \in DOMAIN sb /\ Was(k, i) # k /\ sb'[i] = sb[Was(k, i)]
      /\ \A i, j \in DOMAIN sb' : i < j <=> Was(k, i) < Was(k, j)
      /\ \A m \in DOMAIN sb : m # k => \E i \in DOMAIN sb' : Was(k, i) = m
  BY Others
<1>2. \A i \in DOMAIN sb' : /\ IsSeq(i)' <=> IsSeq(Was(k, i))
                            /\ IsWord(i)' <=> IsWord(Was(k, i))
                            /\ IsWmb(i)' <=> IsWmb(Was(k, i))
  BY <1>1 DEF IsSeq, IsWord, IsWmb
<1>3. \A i, m \in DOMAIN sb : i < m /\ IsWmb(m) => m # k
  <2>1. \A i \in DOMAIN sb : i \in Nat \ {0}
    BY Kinds
  <2> QED
    BY <2>1
<1>4. ASSUME NEW i \in DOMAIN sb', NEW j \in DOMAIN sb', i < j,
             (IsSeq(i)' /\ IsWord(j)') \/ (IsWord(i)' /\ IsSeq(j)')
      PROVE  \E l \in DOMAIN sb' : i < l /\ l < j /\ IsWmb(l)'
  <2>1. PICK m \in DOMAIN sb : Was(k, i) < m /\ m < Was(k, j) /\ IsWmb(m)
    BY <1>1, <1>2, <1>4 DEF Apart
  <2>2. PICK l \in DOMAIN sb' : Was(k, l) = m
    BY <1>1, <1>3, <2>1
  <2> QED
    BY <1>1, <1>2, <2>1, <2>2
<1>5. ASSUME NEW i \in DOMAIN sb', IF writing' THEN IsSeq(i)' ELSE IsWord(i)'
      PROVE  \E l \in DOMAIN sb' : i < l /\ IsWmb(l)'
  <2>1. PICK m \in DOMAIN sb : Was(k, i) < m /\ IsWmb(m)
    BY <1>1, <1>2, <1>5 DEF Apart
  <2>2. PICK l \in DOMAIN sb' : Was(k, l) = m
    BY <1>1, <1>3, <2>1
  <2> QED
    BY <1>1, <1>2, <2>1, <2>2
<1> QED
  BY <1>4, <1>5 DEF Apart

\* The numbers of the others stay what they were.
LEMMA NumberedTakenOut ==
  ASSUME BTypeOK, NEW at, Numbered(at), NEW k \in DOMAIN sb, sb' = RemoveAt(sb, k),
         UNCHANGED writer,
         \/ ~IsSeq(k) /\ UNCHANGED <<seq, arrived>>
         \/ /\ IsSeq(k) /\ at[k] = arrived /\ seq' = sb[k].val /\ arrived' = arrived + 1
            /\ \A i \in DOMAIN sb : IsWord(i) => at[i] # arrived
  PROVE  \E new : Numbered(new)'
PROOF
<1>1. /\ \A i \in DOMAIN sb' : Was(k, i) \in DOMAIN sb /\ Was(k, i) # k /\ sb'[i] = sb[Was(k, i)]
      /\ \A i, j \in DOMAIN sb' : i < j <=> Was(k, i) < Was(k, j)
      /\ \A m \in DOMAIN sb : m # k => \E i \in DOMAIN sb' : Was(k, i) = m
  BY Others
<1>2. \A i \in DOMAIN sb' : /\ IsSeq(i)' <=> IsSeq(Was(k, i))
                            /\ IsWord(i)' <=> IsWord(Was(k, i))
                            /\ IsWmb(i)' <=> IsWmb(Was(k, i))
  BY <1>1 DEF IsSeq, IsWord, IsWmb
<1>3. /\ at \in [DOMAIN sb -> Nat]
      /\ \A i \in DOMAIN sb :
           /\ IsSeq(i) => arrived <= at[i] /\ at[i] < Stores /\ sb[i].val \in Seqs
           /\ IsSeq(i) /\ at[i] = arrived => sb[i].val = Inc(seq)
           /\ IsSeq(i) /\ at[i] + 1 = Stores => sb[i].val = LastIssued
           /\ IsWord(i) => /\ arrived <= at[i] /\ at[i] = 2 * sb[i].val - 1
                           /\ sb[i].val <= written
           /\ IsWmb(i) => sb[i] = Wmb
      /\ \A i, j \in DOMAIN sb :
           i < j /\ ~IsWmb(i) /\ ~IsWmb(j) => at[i] <= at[j] /\ (IsSeq(i) => at[i] < at[j])
      /\ \A i, j \in DOMAIN sb :
           IsSeq(i) /\ IsSeq(j) /\ at[j] = at[i] + 1 => sb[j].val = Inc(sb[i].val)
      /\ \A n \in Nat :
           arrived <= n /\ n < Stores => \E i \in DOMAIN sb : IsSeq(i) /\ at[i] = n
  BY DEF Numbered
<1>4. PICK new : new \in [DOMAIN sb' -> Nat] /\ \A i \in DOMAIN sb' : new[i] = at[Was(k, i)]
  <2> DEFINE fn == [i \in DOMAIN sb' |-> at[Was(k, i)]]
  <2>1. fn \in [DOMAIN sb' -> Nat] /\ \A i \in DOMAIN sb' : fn[i] = at[Was(k, i)]
    BY <1>1, <1>3
  <2> QED
    BY <2>1
<1>5. Stores' = Stores /\ LastIssued' = LastIssued /\ written' = written
  BY DEF writer, Stores, LastIssued
<1>6. Stores \in Int /\ arrived \in Nat /\ \A i \in DOMAIN sb : at[i] \in Nat /\ i \in Nat
  BY <1>3, Kinds DEF BTypeOK, TypeOK, Stores, Messages
<1>7. ASSUME NEW i \in DOMAIN sb, i # k
      PROVE  /\ IsSeq(i) => arrived' <= at[i] /\ (at[i] = arrived' => sb[i].val = Inc(seq'))
             /\ IsWord(i) => arrived' <= at[i]
  <2>1. CASE UNCHANGED <<seq, arrived>>
    BY <1>3, <2>1
  <2>2. CASE /\ IsSeq(k) /\ at[k] = arrived /\ seq' = sb[k].val /\ arrived' = arrived + 1
             /\ \A j \in DOMAIN sb : IsWord(j) => at[j] # arrived
    <3>1. IsWord(i) => arrived' <= at[i]
      BY <1>3, <1>6, <2>2
    <3>2. ASSUME IsSeq(i) PROVE arrived < at[i]
      <4>1. ~IsWmb(i) /\ ~IsWmb(k)
        BY <2>2, <3>2 DEF IsSeq, IsWmb
      <4>2. k < i
        BY <1>3, <1>6, <1>7, <2>2, <3>2, <4>1
      <4> QED
        BY <1>3, <2>2, <4>1, <4>2
    <3>3. IsSeq(i) /\ at[i] = arrived + 1 => sb[i].val = Inc(sb[k].val)
      BY <1>3, <2>2
    <3> QED
      BY <1>6, <2>2, <3>1, <3>2, <3>3
  <2> QED
    BY <2>1, <2>2
<1>8. \A i \in DOMAIN sb' :
        /\ IsSeq(i)' => arrived' <= new[i] /\ new[i] < Stores' /\ sb'[i].val \in Seqs
        /\ IsSeq(i)' /\ new[i] = arrived' => sb'[i].val = Inc(seq')
        /\ IsSeq(i)' /\ new[i] + 1 = Stores' => sb'[i].val = LastIssued'
        /\ IsWord(i)' => /\ arrived' <= new[i] /\ new[i] = 2 * sb'[i].val - 1
                         /\ sb'[i].val <= written'
        /\ IsWmb(i)' => sb'[i] = Wmb
  BY <1>1, <1>2, <1>3, <1>4, <1>5, <1>7
<1>9. \A i, j \in DOMAIN sb' :
        i < j /\ ~IsWmb(i)' /\ ~IsWmb(j)' => new[i] <= new[j] /\ (IsSeq(i)' => new[i] < new[j])
  BY <1>1, <1>2, <1>3, <1>4
<1>10. \A i, j \in DOMAIN sb' :
         IsSeq(i)' /\ IsSeq(j)' /\ new[j] = new[i] + 1 => sb'[j].val = Inc(sb'[i].val)
  BY <1>1, <1>2, <1>3, <1>4
<1>11. ASSUME NEW n \in Nat, arrived' <= n, n < Stores'
       PROVE  \E i \in DOMAIN sb' : IsSeq(i)' /\ new[i] = n
  <2>1. arrived <= n /\ (IsSeq(k) => n # at[k])
    BY <1>6, <1>11
  <2>2. PICK m \in DOMAIN sb : IsSeq(m) /\ at[m] = n
    BY <1>3, <1>5, <1>11, <2>1
  <2> QED
    BY <1>1, <1>2, <1>4, <2>1, <2>2
<1>12. Numbered(new)'
  BY <1>4, <1>8, <1>9, <1>10, <1>11 DEF Numbered, Inc, Wmb, Seqs
<1> QED
  BY <1>12

-----------------------------------------------------------------------------
(* The writer issues                                                        *)

\* How far along numbers can be.
LEMMA Bounds ==
  ASSUME BTypeOK, WritesInv, NEW at, Numbered(at)
  PROVE  /\ Stores \in Nat /\ arrived \in Nat /\ arrived <= Stores /\ LastIssued \in Seqs
         /\ written \in Nat
         /\ \A i \in DOMAIN sb : at[i] \in Nat /\ (~IsWmb(i) => at[i] <= Stores)
PROOF
<1>1. written \in Nat /\ arrived \in Nat /\ arrived <= Stores /\ (writing => written > 0)
  BY DEF BTypeOK, TypeOK, Messages, WritesInv
<1>2. Stores \in Nat /\ 2 * written - 1 <= Stores
  BY <1>1 DEF Stores
<1>3. LastIssued \in Seqs
  <2>1. wseq \in Seqs /\ 0 \in Seqs
    BY DEF BTypeOK, TypeOK, Seqs
  <2>2. Inc(wseq) \in Seqs
    BY <2>1 DEF Inc, Seqs
  <2> QED
    BY <2>1, <2>2 DEF LastIssued
<1>4. ASSUME NEW i \in DOMAIN sb PROVE at[i] \in Nat /\ (~IsWmb(i) => at[i] <= Stores)
  <2>1. /\ at[i] \in Nat
        /\ IsSeq(i) => at[i] < Stores
        /\ IsWord(i) => at[i] = 2 * sb[i].val - 1 /\ sb[i].val <= written
    BY DEF Numbered
  <2>2. IsSeq(i) \/ IsWord(i) \/ IsWmb(i)
    BY Kinds
  <2>3. sb[i].val \in Nat
    BY Kinds DEF Item
  <2> QED
    BY <1>1, <1>2, <2>1, <2>2, <2>3
<1> QED
  BY <1>1, <1>2, <1>3, <1>4

\* The writer's own load sees its newest store.
LEMMA NewestIsLast ==
  ASSUME BTypeOK, WritesInv, NEW at, Numbered(at)
  PROVE  NewestSeq = LastIssued
PROOF
<1> DEFINE stores == {i \in DOMAIN sb : sb[i].loc = "seq"}
<1>1. NewestSeq = IF stores = {} THEN seq ELSE sb[Max(stores)].val
  BY DEF NewestSeq
<1>2. \A i : i \in stores <=> i \in DOMAIN sb /\ IsSeq(i)
  BY DEF IsSeq
<1> HIDE DEF stores
<1>3. /\ Stores \in Nat /\ arrived \in Nat /\ arrived <= Stores
      /\ \A i \in DOMAIN sb : at[i] \in Nat /\ i \in Nat
  BY Bounds, Kinds
<1>4. /\ \A i \in DOMAIN sb : IsSeq(i) => arrived <= at[i] /\ at[i] < Stores
      /\ \A i \in DOMAIN sb : IsSeq(i) /\ at[i] + 1 = Stores => sb[i].val = LastIssued
      /\ \A n \in Nat :
           arrived <= n /\ n < Stores => \E i \in DOMAIN sb : IsSeq(i) /\ at[i] = n
      /\ \A i, j \in DOMAIN sb : i < j /\ IsSeq(i) /\ IsSeq(j) => at[i] < at[j]
  BY DEF Numbered, IsSeq, IsWmb
<1>5. CASE arrived = Stores
  <2>1. stores = {}
    BY <1>2, <1>3, <1>4, <1>5
  <2> QED
    BY <1>1, <1>5, <2>1 DEF WritesInv
<1>6. CASE arrived < Stores
  <2>1. Stores - 1 \in Nat /\ arrived <= Stores - 1 /\ Stores - 1 < Stores
    BY <1>3, <1>6
  <2>2. PICK i \in DOMAIN sb : IsSeq(i) /\ at[i] = Stores - 1
    BY <1>4, <2>1
  <2>3. ASSUME NEW j \in stores PROVE i >= j
    <3>1. j \in DOMAIN sb /\ IsSeq(j) /\ at[j] < Stores /\ i \in Nat /\ j \in Nat
      BY <1>2, <1>3, <1>4
    <3>2. ~(i < j)
      BY <1>3, <1>4, <2>2, <3>1
    <3> QED
      BY <3>1, <3>2
  <2>4. i \in stores /\ stores \subseteq Nat
    BY <1>2, <1>3, <2>2
  <2>5. Max(stores) = i
    <3>1. Max(stores) \in stores /\ \A y \in stores : Max(stores) >= y
      BY <2>3, <2>4 DEF Max
    <3> QED
      BY <2>3, <2>4, <3>1
  <2>6. at[i] + 1 = Stores
    BY <1>3, <2>2
  <2> QED
    BY <1>1, <1>4, <2>2, <2>4, <2>5, <2>6
<1> QED
  BY <1>3, <1>5, <1>6

\* What is issued gets the next number.
LEMMA NumberedIssued ==
  ASSUME BTypeOK, WritesInv, NEW at, Numbered(at), UNCHANGED <<seq, arrived>>,
         sb' \in Seq(Item), Len(sb) <= Len(sb'), \A i \in DOMAIN sb : sb'[i] = sb[i],
         NEW p \in DOMAIN sb', p > Len(sb),
         \A i \in DOMAIN sb' : i > Len(sb) /\ i # p => sb'[i] = Wmb,
         written' \in Nat, written <= written',
         \/ /\ sb'[p].loc = "seq" /\ sb'[p].val = Inc(LastIssued)
            /\ Stores' = Stores + 1 /\ LastIssued' = Inc(LastIssued)
         \/ /\ sb'[p].loc \in Words /\ sb'[p].val <= written'
            /\ 2 * sb'[p].val - 1 = Stores
            /\ Stores' = Stores /\ LastIssued' = LastIssued
  PROVE  \E new : Numbered(new)'
PROOF
<1>1. /\ Len(sb) \in Nat /\ DOMAIN sb = 1..Len(sb)
      /\ Len(sb') \in Nat /\ DOMAIN sb' = 1..Len(sb')
      /\ \A i \in DOMAIN sb' : sb'[i] \in Item
  BY Kinds
<1>2. /\ Stores \in Nat /\ arrived \in Nat /\ arrived <= Stores /\ LastIssued \in Seqs
      /\ written \in Nat
      /\ \A i \in DOMAIN sb : at[i] \in Nat /\ (~IsWmb(i) => at[i] <= Stores)
  BY Bounds
<1>3. PICK new : /\ new \in [DOMAIN sb' -> Nat]
                 /\ \A i \in DOMAIN sb' : new[i] = IF i \in DOMAIN sb THEN at[i] ELSE Stores
  <2> DEFINE fn == [i \in DOMAIN sb' |-> IF i \in DOMAIN sb THEN at[i] ELSE Stores]
  <2>1. /\ fn \in [DOMAIN sb' -> Nat]
        /\ \A i \in DOMAIN sb' : fn[i] = IF i \in DOMAIN sb THEN at[i] ELSE Stores
    BY <1>2
  <2> QED
    BY <2>1
<1>4. /\ "seq" \notin Words /\ "wmb" \notin Words
      /\ Wmb.loc = "wmb"
  BY BarrierAssumption DEF Wmb
<1>5. \A i \in DOMAIN sb : /\ i \in DOMAIN sb' /\ new[i] = at[i] /\ sb'[i] = sb[i]
                           /\ IsSeq(i)' <=> IsSeq(i)
                           /\ IsWord(i)' <=> IsWord(i)
                           /\ IsWmb(i)' <=> IsWmb(i)
  BY <1>1, <1>3 DEF IsSeq, IsWord, IsWmb
<1>6. /\ p \notin DOMAIN sb /\ new[p] = Stores /\ ~IsWmb(p)'
      /\ IsSeq(p)' <=> sb'[p].loc = "seq"
      /\ IsWord(p)' <=> sb'[p].loc \in Words
  BY <1>1, <1>3, <1>4 DEF IsSeq, IsWord, IsWmb
<1>7. \A i \in DOMAIN sb' :
        \/ i \in DOMAIN sb
        \/ i = p
        \/ sb'[i] = Wmb /\ IsWmb(i)' /\ ~IsSeq(i)' /\ ~IsWord(i)'
  BY <1>1, <1>4 DEF IsSeq, IsWord, IsWmb
<1>8. /\ \A i \in DOMAIN sb :
           /\ IsSeq(i) => arrived <= at[i] /\ at[i] < Stores /\ sb[i].val \in Seqs
           /\ IsSeq(i) /\ at[i] = arrived => sb[i].val = Inc(seq)
           /\ IsSeq(i) /\ at[i] + 1 = Stores => sb[i].val = LastIssued
           /\ IsWord(i) => /\ arrived <= at[i] /\ at[i] = 2 * sb[i].val - 1
                           /\ sb[i].val <= written
           /\ IsWmb(i) => sb[i] = Wmb
      /\ \A i, j \in DOMAIN sb :
           i < j /\ ~IsWmb(i) /\ ~IsWmb(j) => at[i] <= at[j] /\ (IsSeq(i) => at[i] < at[j])
      /\ \A i, j \in DOMAIN sb :
           IsSeq(i) /\ IsSeq(j) /\ at[j] = at[i] + 1 => sb[j].val = Inc(sb[i].val)
      /\ \A n \in Nat :
           arrived <= n /\ n < Stores => \E i \in DOMAIN sb : IsSeq(i) /\ at[i] = n
  BY DEF Numbered
<1>9. Inc(LastIssued) \in Seqs /\ (arrived = Stores => seq = LastIssued)
  BY <1>2 DEF Inc, Seqs, WritesInv
<1>10. \/ /\ IsSeq(p)' /\ ~IsWord(p)' /\ sb'[p].val = Inc(LastIssued)
          /\ Stores' = Stores + 1 /\ LastIssued' = Inc(LastIssued)
       \/ /\ IsWord(p)' /\ ~IsSeq(p)' /\ sb'[p].val <= written'
          /\ 2 * sb'[p].val - 1 = Stores
          /\ Stores' = Stores /\ LastIssued' = LastIssued
  BY <1>4, <1>6
<1>11. ASSUME NEW i \in DOMAIN sb'
       PROVE  /\ IsSeq(i)' => arrived' <= new[i] /\ new[i] < Stores' /\ sb'[i].val \in Seqs
              /\ IsSeq(i)' /\ new[i] = arrived' => sb'[i].val = Inc(seq')
              /\ IsSeq(i)' /\ new[i] + 1 = Stores' => sb'[i].val = LastIssued'
              /\ IsWord(i)' => /\ arrived' <= new[i] /\ new[i] = 2 * sb'[i].val - 1
                               /\ sb'[i].val <= written'
              /\ IsWmb(i)' => sb'[i] = Wmb
  <2>1. CASE i \in DOMAIN sb
    <3>1. sb[i].val \in Nat
      BY <2>1, Kinds DEF Item
    <3> QED
      BY <1>2, <1>5, <1>8, <1>10, <2>1, <3>1
  <2>2. CASE i = p
    BY <1>2, <1>6, <1>9, <1>10, <2>2
  <2>3. CASE sb'[i] = Wmb /\ IsWmb(i)' /\ ~IsSeq(i)' /\ ~IsWord(i)'
    BY <2>3
  <2> QED
    BY <1>7, <2>1, <2>2, <2>3
<1>12. ASSUME NEW i \in DOMAIN sb', NEW j \in DOMAIN sb', i < j, ~IsWmb(i)', ~IsWmb(j)'
       PROVE  new[i] <= new[j] /\ (IsSeq(i)' => new[i] < new[j])
  <2>1. i \in DOMAIN sb
    BY <1>1, <1>7, <1>12
  <2>2. CASE j \in DOMAIN sb
    BY <1>5, <1>8, <1>12, <2>1, <2>2
  <2>3. CASE j = p
    BY <1>2, <1>5, <1>6, <1>8, <1>12, <2>1, <2>3
  <2> QED
    BY <1>7, <1>12, <2>2, <2>3
<1>13. ASSUME NEW i \in DOMAIN sb', NEW j \in DOMAIN sb', IsSeq(i)', IsSeq(j)', new[j] = new[i] + 1
       PROVE  sb'[j].val = Inc(sb'[i].val)
  <2>1. i \in DOMAIN sb
    <3>1. CASE i = p
      BY <1>2, <1>5, <1>6, <1>7, <1>8, <1>13, <3>1
    <3> QED
      BY <1>7, <1>13, <3>1
  <2>2. CASE j \in DOMAIN sb
    BY <1>5, <1>8, <1>13, <2>1, <2>2
  <2>3. CASE j = p
    <3>1. sb'[j].val = Inc(LastIssued) /\ at[i] + 1 = Stores
      BY <1>5, <1>6, <1>10, <1>13, <2>1, <2>3
    <3> QED
      BY <1>5, <1>8, <1>13, <2>1, <3>1
  <2> QED
    BY <1>7, <1>13, <2>2, <2>3
<1>14. ASSUME NEW n \in Nat, arrived' <= n, n < Stores'
       PROVE  \E i \in DOMAIN sb' : IsSeq(i)' /\ new[i] = n
  <2>1. CASE n < Stores
    BY <1>5, <1>8, <1>14, <2>1
  <2>2. CASE ~(n < Stores)
    <3>1. IsSeq(p)' /\ n = Stores
      BY <1>2, <1>10, <1>14, <2>2
    <3> QED
      BY <1>6, <3>1
  <2> QED
    BY <2>1, <2>2
<1>15. Numbered(new)'
  BY <1>3, <1>11, <1>12, <1>13, <1>14 DEF Numbered, Inc, Wmb, Seqs
<1> QED
  BY <1>15

\* What is issued stands behind the rest.
LEMMA Appended ==
  ASSUME BTypeOK, NEW items \in Seq(Item), sb' = sb \o items
  PROVE  /\ sb' \in Seq(Item) /\ Len(sb') = Len(sb) + Len(items)
         /\ DOMAIN sb = 1..Len(sb) /\ DOMAIN sb' = 1..Len(sb') /\ Len(sb) \in Nat
         /\ \A i \in DOMAIN sb : i \in DOMAIN sb' /\ sb'[i] = sb[i]
         /\ \A i \in 1..Len(items) : Len(sb) + i \in DOMAIN sb' /\ sb'[Len(sb) + i] = items[i]
PROOF
<1>1. Len(sb) \in Nat /\ DOMAIN sb = 1..Len(sb) /\ sb \in Seq(Item) /\ Len(items) \in Nat
  BY Kinds DEF BTypeOK
<1>2. /\ sb' \in Seq(Item) /\ Len(sb') = Len(sb) + Len(items)
      /\ \A i \in 1..Len(sb) + Len(items) :
           sb'[i] = IF i <= Len(sb) THEN sb[i] ELSE items[i - Len(sb)]
  BY <1>1, ConcatProperties
<1>3. DOMAIN sb' = 1..Len(sb')
  BY <1>2
<1>4. ASSUME NEW i \in 1..Len(items)
      PROVE  Len(sb) + i \in DOMAIN sb' /\ sb'[Len(sb) + i] = items[i]
  <2>1. Len(sb) + i \in 1..Len(sb) + Len(items) /\ ~(Len(sb) + i <= Len(sb))
    BY <1>1
  <2>2. sb'[Len(sb) + i] = items[(Len(sb) + i) - Len(sb)] /\ (Len(sb) + i) - Len(sb) = i
    BY <1>1, <1>2, <2>1
  <2> QED
    BY <1>2, <1>3, <2>1, <2>2
<1> QED
  BY <1>1, <1>2, <1>3, <1>4

\* A reader's trip does not depend on the writer.
LEMMA TripLeft ==
  ASSUME BInv, UNCHANGED <<reader, trip>>
  PROVE  \A t \in Threads : TripInv(t)'
BY DEF BInv, TripInv, reader, Loads

\* Stores to seq are more than twice the writes in memory, or as many.
LEMMA Halves ==
  ASSUME BTypeOK, WritesInv
  PROVE  /\ MemWritten \in Nat /\ MemWritten <= written /\ written \in Nat
         /\ arrived = IF MemWriting THEN 2 * MemWritten - 1 ELSE 2 * MemWritten
         /\ MemWriting \in BOOLEAN
PROOF
<1>1. arrived \in Nat /\ arrived <= Stores /\ written \in Nat
  BY DEF BTypeOK, TypeOK, Messages, WritesInv
<1> QED
  BY <1>1 DEF MemWritten, MemWriting, IsOdd, Stores

\* A write begins.
LEMMA BeginKeeps ==
  ASSUME BInv, IssueWriteBegin
  PROVE  BInv'
PROOF
<1>1. BTypeOK /\ Apart /\ WritesInv /\ WordsInv
  BY DEF BInv
<1>2. PICK at : Numbered(at)
  BY DEF BInv
<1> DEFINE s == Inc(LastIssued)
           items == <<SeqStore(s), Wmb>>
<1>0. PICK L : L = Len(sb)
  OBVIOUS
<1>3. /\ ~writing /\ written < MaxWrites
      /\ sb' = sb \o items /\ wseq' = s /\ writing' = TRUE /\ wleft' = Words
      /\ written' = written + 1
      /\ UNCHANGED <<shared, reader, state, trip, seq2, arrived>>
  BY <1>1, <1>2, NewestIsLast DEF IssueWriteBegin
<1>4. /\ Stores \in Nat /\ arrived \in Nat /\ arrived <= Stores /\ LastIssued \in Seqs
      /\ written \in Nat
  BY <1>1, <1>2, Bounds
<1>5. s \in Seqs /\ s \in Nat
  BY <1>4 DEF Inc, Seqs
<1>6. /\ SeqStore(s) \in Item /\ SeqStore(s).loc = "seq" /\ SeqStore(s).val = s
      /\ Wmb \in Item /\ Wmb.loc = "wmb"
  BY <1>5 DEF SeqStore, Wmb, Item
<1>7. /\ items \in Seq(Item) /\ Len(items) = 2
      /\ items[1] = SeqStore(s) /\ items[2] = Wmb /\ 1 \in 1..2 /\ 2 \in 1..2
  BY <1>6
<1> HIDE DEF s, items
<1>8. /\ sb' \in Seq(Item) /\ Len(sb') = L + 2
      /\ DOMAIN sb = 1..L /\ DOMAIN sb' = 1..(L + 2) /\ L \in Nat
      /\ \A i \in DOMAIN sb : i \in DOMAIN sb' /\ sb'[i] = sb[i]
      /\ L + 1 \in DOMAIN sb' /\ sb'[L + 1] = SeqStore(s)
      /\ L + 2 \in DOMAIN sb' /\ sb'[L + 2] = Wmb
  BY <1>0, <1>1, <1>3, <1>7, Appended
<1>9. /\ "seq" \notin Words /\ "wmb" \notin Words
  BY BarrierAssumption
<1>10. \A i \in DOMAIN sb' : i \in DOMAIN sb \/ i = L + 1 \/ i = L + 2
  BY <1>8
<1>11. /\ \A i \in DOMAIN sb : /\ IsSeq(i)' <=> IsSeq(i)
                               /\ IsWord(i)' <=> IsWord(i)
                               /\ IsWmb(i)' <=> IsWmb(i)
       /\ IsSeq(L + 1)' /\ ~IsWord(L + 1)' /\ IsWmb(L + 2)' /\ ~IsSeq(L + 2)' /\ ~IsWord(L + 2)'
  BY <1>6, <1>8, <1>9 DEF IsSeq, IsWord, IsWmb
<1>12. Stores' = Stores + 1 /\ LastIssued' = s /\ Stores' # 0
  BY <1>3, <1>4 DEF Stores, LastIssued
<1>13. BTypeOK'
  <2>1. written' \in Messages
    BY <1>3, <1>4 DEF Messages
  <2>2. TypeOK'
    BY <1>1, <1>3, <1>5, <2>1 DEF BTypeOK, TypeOK, shared, reader, state
  <2> QED
    BY <1>1, <1>3, <1>8, <2>2 DEF BTypeOK
<1>14. \E new : Numbered(new)'
  <2>1. \A i \in DOMAIN sb' : i > L /\ i # L + 1 => sb'[i] = Wmb
    BY <1>8
  <2>2. sb'[L + 1].loc = "seq" /\ sb'[L + 1].val = Inc(LastIssued)
    BY <1>6, <1>8 DEF s
  <2>3. LastIssued' = Inc(LastIssued) /\ UNCHANGED <<seq, arrived>>
    BY <1>3, <1>12 DEF s, shared
  <2>4. L + 1 > L /\ L <= Len(sb') /\ written' \in Nat /\ written <= written'
    BY <1>3, <1>4, <1>8
  <2> QED
    BY <1>0, <1>1, <1>2, <1>8, <1>12, <2>1, <2>2, <2>3, <2>4, NumberedIssued
<1>15. Apart'
  <2>1. ASSUME NEW i \in DOMAIN sb', NEW j \in DOMAIN sb', i < j,
               (IsSeq(i)' /\ IsWord(j)') \/ (IsWord(i)' /\ IsSeq(j)')
        PROVE  \E k \in DOMAIN sb' : i < k /\ k < j /\ IsWmb(k)'
    <3>1. i \in DOMAIN sb
      BY <1>8, <1>10, <1>11, <2>1
    <3>2. CASE j \in DOMAIN sb
      <4>1. PICK k \in DOMAIN sb : i < k /\ k < j /\ IsWmb(k)
        BY <1>1, <1>11, <2>1, <3>1, <3>2 DEF Apart
      <4> QED
        BY <1>8, <1>11, <4>1
    <3>3. CASE j = L + 1
      <4>1. PICK k \in DOMAIN sb : i < k /\ IsWmb(k)
        BY <1>1, <1>3, <1>11, <2>1, <3>1, <3>3 DEF Apart
      <4>2. k < L + 1
        BY <1>8
      <4> QED
        BY <1>8, <1>11, <3>3, <4>1, <4>2
    <3> QED
      BY <1>10, <1>11, <2>1, <3>2, <3>3
  <2>2. ASSUME NEW i \in DOMAIN sb', IsSeq(i)'
        PROVE  \E k \in DOMAIN sb' : i < k /\ IsWmb(k)'
    <3>1. i < L + 2
      BY <1>8, <1>10, <1>11, <2>2
    <3> QED
      BY <1>8, <1>11, <3>1
  <2> QED
    BY <1>3, <2>1, <2>2 DEF Apart
<1>16. WritesInv'
  <2>1. IsOdd(seq)' <=> IsOdd(arrived)'
    BY <1>1, <1>3 DEF WritesInv, shared, IsOdd
  <2>2. arrived' <= Stores' /\ arrived' # Stores'
    BY <1>3, <1>4, <1>12
  <2> QED
    BY <1>3, <1>4, <2>1, <2>2 DEF WritesInv
<1>17. WordsInv'
  <2> SUFFICES ASSUME NEW w \in Words
               PROVE  (/\ entry[w] \in {MemWritten - 1, MemWritten}
                       /\ ~MemWriting => entry[w] = MemWritten
                       /\ \A n \in MemWritten..written :
                            \/ n = MemWritten /\ entry[w] = n
                            \/ n = written /\ w \in wleft
                            \/ \E i \in DOMAIN sb : sb[i] = WordStore(w, n))'
    BY DEF WordsInv
  <2>1. MemWritten' = MemWritten /\ MemWriting' = MemWriting /\ entry' = entry
    BY <1>3 DEF shared, MemWritten, MemWriting, IsOdd
  <2>2. ASSUME NEW n \in MemWritten..(written + 1)
        PROVE  \/ n = MemWritten /\ entry[w] = n
               \/ n = written + 1
               \/ \E i \in DOMAIN sb' : sb'[i] = WordStore(w, n)
    <3>1. CASE n \in MemWritten..written
      <4>1. \/ n = MemWritten /\ entry[w] = n
            \/ \E i \in DOMAIN sb : sb[i] = WordStore(w, n)
        BY <1>1, <1>3, <3>1 DEF WordsInv, WritesInv
      <4> QED
        BY <1>8, <4>1
    <3>2. n \in MemWritten..written \/ n = written + 1
      BY <1>1, <1>4, <2>2, Halves
    <3> QED
      BY <3>1, <3>2
  <2>3. /\ entry[w] \in {MemWritten - 1, MemWritten}
        /\ ~MemWriting => entry[w] = MemWritten
    BY <1>1 DEF WordsInv
  <2> QED
    BY <1>3, <2>1, <2>2, <2>3 DEF WordStore
<1>18. \A t \in Threads : TripInv(t)'
  BY <1>3, TripLeft
<1> QED
  BY <1>13, <1>14, <1>15, <1>16, <1>17, <1>18 DEF BInv

\* A word is stored.
LEMMA StoreKeeps ==
  ASSUME BInv, NEW w \in Words, IssueStoreWord(w)
  PROVE  BInv'
PROOF
<1>1. BTypeOK /\ Apart /\ WritesInv /\ WordsInv
  BY DEF BInv
<1>2. PICK at : Numbered(at)
  BY DEF BInv
<1> DEFINE items == <<WordStore(w, written)>>
<1>0. PICK L : L = Len(sb)
  OBVIOUS
<1>3. /\ w \in wleft /\ sb' = sb \o items /\ wleft' = wleft \ {w}
      /\ UNCHANGED <<shared, writing, wseq, written, reader, state, trip, seq2, arrived>>
  BY DEF IssueStoreWord
<1>4. /\ writing /\ written > 0 /\ written \in Nat /\ arrived <= Stores /\ Stores = 2 * written - 1
  BY <1>1, <1>3 DEF WritesInv, Stores, BTypeOK, TypeOK, Messages
<1>6. WordStore(w, written) \in Item /\ WordStore(w, written).loc = w
      /\ WordStore(w, written).val = written
  BY <1>4 DEF WordStore, Item
<1>7. /\ items \in Seq(Item) /\ Len(items) = 1 /\ items[1] = WordStore(w, written) /\ 1 \in 1..1
  BY <1>6
<1> HIDE DEF items
<1>8. /\ sb' \in Seq(Item) /\ Len(sb') = L + 1
      /\ DOMAIN sb = 1..L /\ DOMAIN sb' = 1..(L + 1) /\ L \in Nat
      /\ \A i \in DOMAIN sb : i \in DOMAIN sb' /\ sb'[i] = sb[i]
      /\ L + 1 \in DOMAIN sb' /\ sb'[L + 1] = WordStore(w, written)
  BY <1>0, <1>1, <1>3, <1>7, Appended
<1>9. /\ "seq" \notin Words /\ "wmb" \notin Words
  BY BarrierAssumption
<1>10. \A i \in DOMAIN sb' : i \in DOMAIN sb \/ i = L + 1
  BY <1>8
<1>11. /\ \A i \in DOMAIN sb : /\ IsSeq(i)' <=> IsSeq(i)
                               /\ IsWord(i)' <=> IsWord(i)
                               /\ IsWmb(i)' <=> IsWmb(i)
       /\ ~IsSeq(L + 1)' /\ IsWord(L + 1)'
  BY <1>6, <1>8, <1>9 DEF IsSeq, IsWord, IsWmb
<1>12. Stores' = Stores /\ LastIssued' = LastIssued
  BY <1>3 DEF Stores, LastIssued
<1>13. BTypeOK'
  <2>1. TypeOK'
    BY <1>1, <1>3 DEF BTypeOK, TypeOK, shared, reader, state
  <2> QED
    BY <1>1, <1>3, <1>8, <2>1 DEF BTypeOK
<1>14. \E new : Numbered(new)'
  <2>1. \A i \in DOMAIN sb' : i > L /\ i # L + 1 => sb'[i] = Wmb
    BY <1>8
  <2>2. /\ sb'[L + 1].loc \in Words /\ sb'[L + 1].val <= written'
        /\ 2 * sb'[L + 1].val - 1 = Stores
    BY <1>3, <1>4, <1>6, <1>8
  <2>3. UNCHANGED <<seq, arrived>>
    BY <1>3 DEF shared
  <2>4. L + 1 > L /\ L <= Len(sb') /\ written' \in Nat /\ written <= written'
    BY <1>3, <1>4, <1>8
  <2> QED
    BY <1>0, <1>1, <1>2, <1>8, <1>12, <2>1, <2>2, <2>3, <2>4, NumberedIssued
<1>15. Apart'
  <2>1. ASSUME NEW i \in DOMAIN sb', NEW j \in DOMAIN sb', i < j,
               (IsSeq(i)' /\ IsWord(j)') \/ (IsWord(i)' /\ IsSeq(j)')
        PROVE  \E k \in DOMAIN sb' : i < k /\ k < j /\ IsWmb(k)'
    <3>1. i \in DOMAIN sb
      BY <1>8, <1>10, <2>1
    <3>2. CASE j \in DOMAIN sb
      <4>1. PICK k \in DOMAIN sb : i < k /\ k < j /\ IsWmb(k)
        BY <1>1, <1>11, <2>1, <3>1, <3>2 DEF Apart
      <4> QED
        BY <1>8, <1>11, <4>1
    <3>3. CASE j = L + 1
      <4>1. PICK k \in DOMAIN sb : i < k /\ IsWmb(k)
        BY <1>1, <1>4, <1>11, <2>1, <3>1, <3>3 DEF Apart
      <4>2. k < L + 1
        BY <1>8
      <4> QED
        BY <1>8, <1>11, <3>3, <4>1, <4>2
    <3> QED
      BY <1>10, <3>2, <3>3
  <2>2. ASSUME NEW i \in DOMAIN sb', IsSeq(i)'
        PROVE  \E k \in DOMAIN sb' : i < k /\ IsWmb(k)'
    <3>1. PICK k \in DOMAIN sb : i < k /\ IsWmb(k)
      BY <1>1, <1>4, <1>10, <1>11, <2>2 DEF Apart
    <3> QED
      BY <1>8, <1>11, <3>1
  <2> QED
    BY <1>3, <1>4, <2>1, <2>2 DEF Apart
<1>16. WritesInv'
  BY <1>1, <1>3, <1>4, <1>12 DEF WritesInv, shared, IsOdd
<1>17. WordsInv'
  <2> SUFFICES ASSUME NEW v \in Words
               PROVE  (/\ entry[v] \in {MemWritten - 1, MemWritten}
                       /\ ~MemWriting => entry[v] = MemWritten
                       /\ \A n \in MemWritten..written :
                            \/ n = MemWritten /\ entry[v] = n
                            \/ n = written /\ v \in wleft
                            \/ \E i \in DOMAIN sb : sb[i] = WordStore(v, n))'
    BY DEF WordsInv
  <2>1. MemWritten' = MemWritten /\ MemWriting' = MemWriting /\ entry' = entry
    BY <1>3 DEF shared, MemWritten, MemWriting, IsOdd
  <2>2. ASSUME NEW n \in MemWritten..written
        PROVE  \/ n = MemWritten /\ entry[v] = n
               \/ n = written /\ v \in wleft'
               \/ \E i \in DOMAIN sb' : sb'[i] = WordStore(v, n)
    <3>1. \/ n = MemWritten /\ entry[v] = n
          \/ n = written /\ v \in wleft
          \/ \E i \in DOMAIN sb : sb[i] = WordStore(v, n)
      BY <1>1 DEF WordsInv
    <3> QED
      BY <1>3, <1>8, <3>1
  <2>3. /\ entry[v] \in {MemWritten - 1, MemWritten}
        /\ ~MemWriting => entry[v] = MemWritten
    BY <1>1 DEF WordsInv
  <2> QED
    BY <1>3, <2>1, <2>2, <2>3 DEF WordStore
<1>18. \A t \in Threads : TripInv(t)'
  BY <1>3, TripLeft
<1> QED
  BY <1>13, <1>14, <1>15, <1>16, <1>17, <1>18 DEF BInv

\* A write ends.
LEMMA EndKeeps ==
  ASSUME BInv, IssueWriteEnd
  PROVE  BInv'
PROOF
<1>1. BTypeOK /\ Apart /\ WritesInv /\ WordsInv
  BY DEF BInv
<1>2. PICK at : Numbered(at)
  BY DEF BInv
<1> DEFINE s == Inc(wseq)
           items == <<Wmb, SeqStore(s)>>
<1>0. PICK L : L = Len(sb)
  OBVIOUS
<1>3. /\ writing /\ wleft = {} /\ sb' = sb \o items /\ writing' = FALSE
      /\ UNCHANGED <<shared, wseq, wleft, written, reader, state, trip, seq2, arrived>>
  BY DEF IssueWriteEnd
<1>4. /\ written > 0 /\ written \in Nat /\ arrived <= Stores /\ Stores = 2 * written - 1
      /\ wseq \in Seqs /\ arrived \in Nat /\ LastIssued = wseq
  BY <1>1, <1>3 DEF WritesInv, Stores, BTypeOK, TypeOK, Messages, LastIssued
<1>5. s \in Seqs /\ s \in Nat
  BY <1>4 DEF Inc, Seqs
<1>6. /\ SeqStore(s) \in Item /\ SeqStore(s).loc = "seq" /\ SeqStore(s).val = s
      /\ Wmb \in Item /\ Wmb.loc = "wmb"
  BY <1>5 DEF SeqStore, Wmb, Item
<1>7. /\ items \in Seq(Item) /\ Len(items) = 2
      /\ items[1] = Wmb /\ items[2] = SeqStore(s) /\ 1 \in 1..2 /\ 2 \in 1..2
  BY <1>6
<1>12. Stores' = Stores + 1 /\ LastIssued' = s
  BY <1>3, <1>4 DEF Stores, LastIssued, Inc
<1> HIDE DEF s, items
<1>8. /\ sb' \in Seq(Item) /\ Len(sb') = L + 2
      /\ DOMAIN sb = 1..L /\ DOMAIN sb' = 1..(L + 2) /\ L \in Nat
      /\ \A i \in DOMAIN sb : i \in DOMAIN sb' /\ sb'[i] = sb[i]
      /\ L + 1 \in DOMAIN sb' /\ sb'[L + 1] = Wmb
      /\ L + 2 \in DOMAIN sb' /\ sb'[L + 2] = SeqStore(s)
  BY <1>0, <1>1, <1>3, <1>7, Appended
<1>9. /\ "seq" \notin Words /\ "wmb" \notin Words
  BY BarrierAssumption
<1>10. \A i \in DOMAIN sb' : i \in DOMAIN sb \/ i = L + 1 \/ i = L + 2
  BY <1>8
<1>11. /\ \A i \in DOMAIN sb : /\ IsSeq(i)' <=> IsSeq(i)
                               /\ IsWord(i)' <=> IsWord(i)
                               /\ IsWmb(i)' <=> IsWmb(i)
       /\ IsWmb(L + 1)' /\ ~IsSeq(L + 1)' /\ ~IsWord(L + 1)' /\ IsSeq(L + 2)' /\ ~IsWord(L + 2)'
  BY <1>6, <1>8, <1>9 DEF IsSeq, IsWord, IsWmb
<1>13. BTypeOK'
  <2>1. TypeOK'
    BY <1>1, <1>3 DEF BTypeOK, TypeOK, shared, reader, state
  <2> QED
    BY <1>1, <1>3, <1>8, <2>1 DEF BTypeOK
<1>14. \E new : Numbered(new)'
  <2>1. \A i \in DOMAIN sb' : i > L /\ i # L + 2 => sb'[i] = Wmb
    BY <1>8
  <2>2. sb'[L + 2].loc = "seq" /\ sb'[L + 2].val = Inc(LastIssued)
    BY <1>4, <1>6, <1>8 DEF s
  <2>3. LastIssued' = Inc(LastIssued) /\ UNCHANGED <<seq, arrived>>
    BY <1>3, <1>4, <1>12 DEF s, shared
  <2>4. L + 2 > L /\ L <= Len(sb') /\ written' \in Nat /\ written <= written'
    BY <1>3, <1>4, <1>8
  <2> QED
    BY <1>0, <1>1, <1>2, <1>8, <1>12, <2>1, <2>2, <2>3, <2>4, NumberedIssued
<1>15. Apart'
  <2>1. ASSUME NEW i \in DOMAIN sb', NEW j \in DOMAIN sb', i < j,
               (IsSeq(i)' /\ IsWord(j)') \/ (IsWord(i)' /\ IsSeq(j)')
        PROVE  \E k \in DOMAIN sb' : i < k /\ k < j /\ IsWmb(k)'
    <3>1. i \in DOMAIN sb
      BY <1>8, <1>10, <1>11, <2>1
    <3>2. CASE j \in DOMAIN sb
      <4>1. PICK k \in DOMAIN sb : i < k /\ k < j /\ IsWmb(k)
        BY <1>1, <1>11, <2>1, <3>1, <3>2 DEF Apart
      <4> QED
        BY <1>8, <1>11, <4>1
    <3>3. CASE j = L + 2
      <4>1. i < L + 1 /\ L + 1 < L + 2
        BY <1>8, <3>1
      <4> QED
        BY <1>8, <1>11, <3>3, <4>1
    <3> QED
      BY <1>10, <1>11, <2>1, <3>2, <3>3
  <2>2. ASSUME NEW i \in DOMAIN sb', IsWord(i)'
        PROVE  \E k \in DOMAIN sb' : i < k /\ IsWmb(k)'
    <3>1. i < L + 1
      BY <1>8, <1>10, <1>11, <2>2
    <3> QED
      BY <1>8, <1>11, <3>1
  <2> QED
    BY <1>3, <2>1, <2>2 DEF Apart
<1>16. WritesInv'
  <2>1. IsOdd(seq)' <=> IsOdd(arrived)'
    BY <1>1, <1>3 DEF WritesInv, shared, IsOdd
  <2>2. arrived' <= Stores' /\ arrived' # Stores'
    BY <1>3, <1>4, <1>12
  <2> QED
    BY <1>3, <1>4, <2>1, <2>2 DEF WritesInv
<1>17. WordsInv'
  <2> SUFFICES ASSUME NEW v \in Words
               PROVE  (/\ entry[v] \in {MemWritten - 1, MemWritten}
                       /\ ~MemWriting => entry[v] = MemWritten
                       /\ \A n \in MemWritten..written :
                            \/ n = MemWritten /\ entry[v] = n
                            \/ n = written /\ v \in wleft
                            \/ \E i \in DOMAIN sb : sb[i] = WordStore(v, n))'
    BY DEF WordsInv
  <2>1. MemWritten' = MemWritten /\ MemWriting' = MemWriting /\ entry' = entry
    BY <1>3 DEF shared, MemWritten, MemWriting, IsOdd
  <2>2. ASSUME NEW n \in MemWritten..written
        PROVE  \/ n = MemWritten /\ entry[v] = n
               \/ \E i \in DOMAIN sb' : sb'[i] = WordStore(v, n)
    <3>1. \/ n = MemWritten /\ entry[v] = n
          \/ \E i \in DOMAIN sb : sb[i] = WordStore(v, n)
      BY <1>1, <1>3 DEF WordsInv
    <3> QED
      BY <1>8, <3>1
  <2>3. /\ entry[v] \in {MemWritten - 1, MemWritten}
        /\ ~MemWriting => entry[v] = MemWritten
    BY <1>1 DEF WordsInv
  <2> QED
    BY <1>3, <2>1, <2>2, <2>3 DEF WordStore
<1>18. \A t \in Threads : TripInv(t)'
  BY <1>3, TripLeft
<1> QED
  BY <1>13, <1>14, <1>15, <1>16, <1>17, <1>18 DEF BInv

-----------------------------------------------------------------------------
(* The stores arrive                                                        *)

\* Only the next store to seq can arrive, and only when the words before it have.
LEMMA NextSeq ==
  ASSUME BInv, NEW at, Numbered(at), NEW i \in DOMAIN sb, IsSeq(i), MayDrain(i)
  PROVE  /\ at[i] = arrived /\ sb[i].val = Inc(seq) /\ sb[i].val \in Seqs
         /\ arrived < Stores
         /\ \A j \in DOMAIN sb : IsWord(j) => at[j] # arrived
PROOF
<1>1. /\ BTypeOK /\ Apart /\ WritesInv
      /\ \A j \in DOMAIN sb : j \in Nat \ {0} /\ at[j] \in Nat
      /\ arrived \in Nat
  BY Kinds, Bounds DEF BInv
<1>2. \A j \in DOMAIN sb : j < i => ~IsWmb(j) /\ ~IsSeq(j)
  <2>1. \A j \in DOMAIN sb : j < i => j \in 1..(i - 1)
    BY <1>1
  <2> QED
    BY <2>1 DEF MayDrain, IsWmb, IsSeq
<1>3. arrived <= at[i] /\ at[i] < Stores /\ sb[i].val \in Seqs /\ ~IsWmb(i)
  BY DEF Numbered, IsSeq, IsWmb
<1>4. at[i] = arrived
  <2>1. PICK j \in DOMAIN sb : IsSeq(j) /\ at[j] = arrived
    BY <1>1, <1>3, Bounds DEF Numbered
  <2>2. i < j => at[i] < at[j]
    BY <1>3, <2>1 DEF Numbered, IsSeq, IsWmb
  <2> QED
    BY <1>1, <1>2, <1>3, <2>1, <2>2
<1>5. ASSUME NEW j \in DOMAIN sb, IsWord(j), at[j] = arrived PROVE FALSE
  <2>1. ~IsWmb(j) /\ i # j
    BY <1>1, <1>5, Kinds
  <2>2. ~(i < j)
    BY <1>1, <1>3, <1>4, <1>5, <2>1 DEF Numbered
  <2>3. j < i
    BY <1>1, <2>1, <2>2
  <2> QED
    BY <1>1, <1>2, <1>5, <2>3 DEF Apart
<1> QED
  BY <1>1, <1>3, <1>4, <1>5 DEF Numbered

\* A word arrives only in the write it belongs to.
LEMMA WordInTime ==
  ASSUME BInv, NEW i \in DOMAIN sb, IsWord(i), MayDrain(i)
  PROVE  MemWriting /\ sb[i].val = MemWritten
PROOF
<1>1. PICK at : Numbered(at)
  BY DEF BInv
<1>2. /\ BTypeOK /\ Apart /\ WritesInv
      /\ \A j \in DOMAIN sb : j \in Nat \ {0} /\ at[j] \in Nat
      /\ arrived \in Nat
  BY <1>1, Kinds, Bounds DEF BInv
<1>3. \A j \in DOMAIN sb : j < i => ~IsWmb(j)
  <2>1. \A j \in DOMAIN sb : j < i => j \in 1..(i - 1)
    BY <1>2
  <2> QED
    BY <2>1 DEF MayDrain, IsWmb
<1>4. /\ arrived <= at[i] /\ at[i] = 2 * sb[i].val - 1 /\ sb[i].val <= written /\ ~IsWmb(i)
      /\ sb[i].val \in Nat /\ written \in Nat
  BY <1>1, <1>2, Kinds, Bounds DEF Numbered, Item
<1>5. at[i] = arrived
  <2> SUFFICES ASSUME arrived < at[i] PROVE FALSE
    BY <1>2, <1>4
  <2>1. at[i] <= Stores /\ Stores \in Nat
    BY <1>1, <1>2, <1>4, Bounds
  <2>2. at[i] - 1 \in Nat /\ arrived <= at[i] - 1 /\ at[i] - 1 < Stores
    BY <1>2, <2>1
  <2>3. PICK j \in DOMAIN sb : IsSeq(j) /\ at[j] = at[i] - 1
    BY <1>1, <2>2 DEF Numbered
  <2>4. ~IsWmb(j) /\ i # j
    BY <1>2, <2>3, Kinds
  <2>5. ~(i < j)
    <3>1. i < j => at[i] <= at[j]
      BY <1>1, <1>4, <2>4 DEF Numbered
    <3> QED
      BY <1>2, <2>3, <3>1
  <2>6. j < i
    BY <1>2, <2>4, <2>5
  <2> QED
    BY <1>2, <1>3, <2>3, <2>6 DEF Apart
<1> QED
  BY <1>2, <1>4, <1>5 DEF MemWriting, MemWritten, IsOdd

\* ++ stays in range and flips the parity, at the wrap of an unsigned as well.
LEMMA IncTurns ==
  ASSUME NEW s \in Seqs
  PROVE  Inc(s) \in Seqs /\ (IsOdd(Inc(s)) <=> ~IsOdd(s)) /\ s = IF Inc(s) = 0 THEN SeqModulus - 1 ELSE Inc(s) - 1
PROOF
<1>1. CASE s + 1 = SeqModulus
  BY <1>1 DEF Inc, IsOdd, Seqs
<1>2. CASE s + 1 # SeqModulus
  BY <1>2 DEF Inc, IsOdd, Seqs
<1> QED
  BY <1>1, <1>2

\* A barrier that has nothing before it is done with.
LEMMA BarrierKeeps ==
  ASSUME BInv, PassBarrier
  PROVE  BInv'
PROOF
<1>1. BTypeOK /\ Apart /\ WritesInv /\ WordsInv
  BY DEF BInv
<1>2. PICK at : Numbered(at)
  BY DEF BInv
<1>3. 1 \in DOMAIN sb /\ sb[1] = Wmb /\ sb' = RemoveAt(sb, 1) /\ UNCHANGED <<vars, trip, seq2, arrived>>
  BY <1>1, HeadTakenOut DEF PassBarrier
<1>4. IsWmb(1) /\ ~IsSeq(1) /\ \A w, n : w \in Words => sb[1] # WordStore(w, n)
  BY <1>3, BarrierAssumption DEF IsWmb, IsSeq, Wmb, WordStore
<1>5. UNCHANGED <<seq, entry, writing, wseq, wleft, written, arrived, reader, trip>>
  BY <1>3 DEF vars, shared, writer, reader, state
<1>6. BTypeOK'
  <2>1. TypeOK'
    BY <1>1, <1>3 DEF BTypeOK, TypeOK, vars, shared, writer, reader, state
  <2>2. sb' \in Seq(Item)
    BY <1>1, <1>3, TakenOut
  <2> QED
    BY <1>1, <1>3, <2>1, <2>2 DEF BTypeOK
<1>7. \E new : Numbered(new)'
  BY <1>1, <1>2, <1>3, <1>4, <1>5, NumberedTakenOut DEF writer
<1>8. Apart'
  BY <1>1, <1>3, <1>4, <1>5, ApartTakenOut
<1>9. WritesInv'
  BY <1>1, <1>5 DEF WritesInv, Stores, LastIssued, Inc, IsOdd
<1>10. WordsInv'
  <2>1. MemWritten' = MemWritten /\ MemWriting' = MemWriting
    BY <1>5 DEF MemWritten, MemWriting, IsOdd
  <2>2. ASSUME NEW w \in Words, NEW n, \E i \in DOMAIN sb : sb[i] = WordStore(w, n)
        PROVE  \E i \in DOMAIN sb' : sb'[i] = WordStore(w, n)
    BY <1>1, <1>3, <1>4, <2>2, Others
  <2> QED
    BY <1>1, <1>5, <2>1, <2>2 DEF WordsInv, WordStore
<1>11. \A t \in Threads : TripInv(t)'
  BY <1>5, TripLeft
<1> QED
  BY <1>6, <1>7, <1>8, <1>9, <1>10, <1>11 DEF BInv

\* What is left of Drain when it is a word that arrives.
DrainWord(i) ==
  /\ IsWord(i)
  /\ MayDrain(i)
  /\ entry' = [entry EXCEPT ![sb[i].loc] = sb[i].val]
  /\ sb' = RemoveAt(sb, i)
  /\ UNCHANGED <<seq, arrived, writer, reader, state, trip, seq2>>

\* And when it is a store to seq.
DrainSeq(i) ==
  /\ IsSeq(i)
  /\ MayDrain(i)
  /\ seq' = sb[i].val
  /\ arrived' = arrived + 1
  /\ sb' = RemoveAt(sb, i)
  /\ UNCHANGED <<entry, writer, reader, state, trip, seq2>>

\* Whatever drains is one of the two.
LEMMA DrainIs ==
  ASSUME NEW i \in DOMAIN sb, Drain(i)
  PROVE  DrainWord(i) \/ DrainSeq(i)
BY DEF Drain, DrainWord, DrainSeq, IsWord, IsSeq

\* A word arrives.
LEMMA WordArrives ==
  ASSUME BInv, NEW k \in DOMAIN sb, DrainWord(k)
  PROVE  BInv'
PROOF
<1>1. BTypeOK /\ Apart /\ WritesInv /\ WordsInv
  BY DEF BInv
<1>2. PICK at : Numbered(at)
  BY DEF BInv
<1>3. /\ entry' = [entry EXCEPT ![sb[k].loc] = sb[k].val] /\ sb' = RemoveAt(sb, k)
      /\ UNCHANGED <<seq, arrived, writing, wseq, wleft, written, reader, state, trip, seq2>>
  BY DEF DrainWord, writer
<1>4. /\ IsWord(k) /\ sb[k].loc \in Words /\ MemWriting /\ sb[k].val = MemWritten /\ ~IsWmb(k) /\ ~IsSeq(k)
  BY <1>1, WordInTime, Kinds DEF DrainWord, IsWord
<1>5. /\ MemWritten \in Nat /\ MemWritten <= written /\ written \in Nat /\ MemWritten \in Messages
      /\ entry \in [Words -> Messages]
  BY <1>1, Halves DEF BTypeOK, TypeOK, Messages
<1>6. BTypeOK'
  <2>1. entry' \in [Words -> Messages]
    BY <1>3, <1>4, <1>5
  <2>2. TypeOK'
    BY <1>1, <1>3, <2>1 DEF BTypeOK, TypeOK, reader, state
  <2>3. sb' \in Seq(Item)
    BY <1>1, <1>3, TakenOut
  <2> QED
    BY <1>1, <1>3, <2>2, <2>3 DEF BTypeOK
<1>7. \E new : Numbered(new)'
  BY <1>1, <1>2, <1>3, <1>4, NumberedTakenOut DEF writer
<1>8. Apart'
  BY <1>1, <1>3, <1>4, ApartTakenOut
<1>9. WritesInv'
  BY <1>1, <1>3 DEF WritesInv, Stores, LastIssued, Inc, IsOdd
<1>10. WordsInv'
  <2> SUFFICES ASSUME NEW v \in Words
               PROVE  (/\ entry[v] \in {MemWritten - 1, MemWritten}
                       /\ ~MemWriting => entry[v] = MemWritten
                       /\ \A n \in MemWritten..written :
                            \/ n = MemWritten /\ entry[v] = n
                            \/ n = written /\ v \in wleft
                            \/ \E i \in DOMAIN sb : sb[i] = WordStore(v, n))'
    BY DEF WordsInv
  <2>1. MemWritten' = MemWritten /\ MemWriting' = MemWriting
    BY <1>3 DEF MemWritten, MemWriting, IsOdd
  <2>2. entry'[v] = IF v = sb[k].loc THEN MemWritten ELSE entry[v]
    BY <1>3, <1>4, <1>5
  <2>3. /\ entry[v] \in {MemWritten - 1, MemWritten}
        /\ ~MemWriting => entry[v] = MemWritten
    BY <1>1 DEF WordsInv
  <2>4. ASSUME NEW n \in MemWritten..written
        PROVE  \/ n = MemWritten /\ entry'[v] = n
               \/ n = written /\ v \in wleft
               \/ \E i \in DOMAIN sb' : sb'[i] = WordStore(v, n)
    <3>1. CASE n = MemWritten /\ entry[v] = n
      BY <2>2, <3>1
    <3>2. CASE \E i \in DOMAIN sb : sb[i] = WordStore(v, n)
      <4>1. PICK i \in DOMAIN sb : sb[i] = WordStore(v, n)
        BY <3>2
      <4>2. CASE i = k
        BY <1>4, <2>2, <4>1, <4>2 DEF WordStore
      <4>3. CASE i # k
        BY <1>1, <1>3, <4>1, <4>3, Others
      <4> QED
        BY <4>2, <4>3
    <3> QED
      BY <1>1, <3>1, <3>2 DEF WordsInv
  <2> QED
    BY <1>3, <2>1, <2>2, <2>3, <2>4 DEF WordStore
<1>11. \A t \in Threads : TripInv(t)'
  BY <1>3, TripLeft
<1> QED
  BY <1>6, <1>7, <1>8, <1>9, <1>10, <1>11 DEF BInv

\* A store to seq ends a write in memory only when all its words are there.
LEMMA WordsThere ==
  ASSUME BInv, NEW k \in DOMAIN sb, IsSeq(k), MayDrain(k), MemWriting
  PROVE  \A w \in Words : entry[w] = MemWritten
PROOF
<1>1. BTypeOK /\ Apart /\ WritesInv /\ WordsInv
  BY DEF BInv
<1>2. PICK at : Numbered(at)
  BY DEF BInv
<1>3. arrived < Stores /\ \A j \in DOMAIN sb : IsWord(j) => at[j] # arrived
  BY <1>2, NextSeq
<1>4. /\ MemWritten \in Nat /\ MemWritten <= written /\ written \in Nat
      /\ arrived = 2 * MemWritten - 1
  BY <1>1, Halves
<1> SUFFICES ASSUME NEW w \in Words PROVE entry[w] = MemWritten
  OBVIOUS
<1>5. \/ entry[w] = MemWritten
      \/ MemWritten = written /\ w \in wleft
      \/ \E i \in DOMAIN sb : sb[i] = WordStore(w, MemWritten)
  BY <1>1, <1>4 DEF WordsInv
<1>6. CASE MemWritten = written /\ w \in wleft
  BY <1>1, <1>3, <1>4, <1>6 DEF WritesInv, Stores
<1>7. CASE \E i \in DOMAIN sb : sb[i] = WordStore(w, MemWritten)
  <2>1. PICK i \in DOMAIN sb : sb[i] = WordStore(w, MemWritten)
    BY <1>7
  <2>2. IsWord(i) /\ sb[i].val = MemWritten
    BY <2>1 DEF IsWord, WordStore
  <2>3. at[i] = 2 * MemWritten - 1
    BY <1>2, <2>2 DEF Numbered
  <2> QED
    BY <1>3, <1>4, <2>2, <2>3
<1> QED
  BY <1>5, <1>6, <1>7

\* A store to seq arrives.
LEMMA SeqArrives ==
  ASSUME BInv, NEW k \in DOMAIN sb, DrainSeq(k)
  PROVE  BInv'
PROOF
<1>1. BTypeOK /\ Apart /\ WritesInv /\ WordsInv
  BY DEF BInv
<1>2. PICK at : Numbered(at)
  BY DEF BInv
<1>3. /\ IsSeq(k) /\ seq' = sb[k].val /\ arrived' = arrived + 1 /\ sb' = RemoveAt(sb, k)
      /\ UNCHANGED <<entry, writing, wseq, wleft, written, reader, state, trip, seq2>>
  BY DEF DrainSeq, writer
<1>4. /\ at[k] = arrived /\ sb[k].val = Inc(seq) /\ sb[k].val \in Seqs
      /\ arrived < Stores /\ arrived \in Nat /\ Stores \in Nat
      /\ \A j \in DOMAIN sb : IsWord(j) => at[j] # arrived
      /\ ~IsWmb(k) /\ \A w, n : w \in Words => sb[k] # WordStore(w, n)
  BY <1>1, <1>2, <1>3, NextSeq, Bounds, BarrierAssumption DEF DrainSeq, IsSeq, IsWmb, WordStore
<1>5. BTypeOK'
  <2>1. TypeOK'
    BY <1>1, <1>3, <1>4 DEF BTypeOK, TypeOK, reader, state
  <2>2. sb' \in Seq(Item)
    BY <1>1, <1>3, TakenOut
  <2> QED
    BY <1>1, <1>3, <1>4, <2>1, <2>2 DEF BTypeOK
<1>6. \E new : Numbered(new)'
  BY <1>1, <1>2, <1>3, <1>4, NumberedTakenOut DEF writer
<1>7. Apart'
  BY <1>1, <1>3, <1>4, ApartTakenOut
<1>8. WritesInv'
  <2>1. Stores' = Stores /\ LastIssued' = LastIssued
    BY <1>3 DEF Stores, LastIssued, Inc
  <2>2. at[k] + 1 = Stores => sb[k].val = LastIssued
    BY <1>2, <1>3 DEF Numbered
  <2>3. IsOdd(seq)' <=> ~IsOdd(seq)
    BY <1>1, <1>3, <1>4, IncTurns DEF BTypeOK, TypeOK, IsOdd
  <2>4. IsOdd(arrived)' <=> ~IsOdd(arrived)
    BY <1>3, <1>4 DEF IsOdd
  <2> QED
    BY <1>1, <1>3, <1>4, <2>1, <2>2, <2>3, <2>4 DEF WritesInv
<1>9. WordsInv'
  <2> SUFFICES ASSUME NEW v \in Words
               PROVE  (/\ entry[v] \in {MemWritten - 1, MemWritten}
                       /\ ~MemWriting => entry[v] = MemWritten
                       /\ \A n \in MemWritten..written :
                            \/ n = MemWritten /\ entry[v] = n
                            \/ n = written /\ v \in wleft
                            \/ \E i \in DOMAIN sb : sb[i] = WordStore(v, n))'
    BY DEF WordsInv
  <2>1. /\ MemWritten \in Nat /\ MemWritten <= written /\ written \in Nat
        /\ arrived = IF MemWriting THEN 2 * MemWritten - 1 ELSE 2 * MemWritten
        /\ MemWriting \in BOOLEAN
    BY <1>1, Halves
  <2>2. \A n \in MemWritten..written :
          \/ n = MemWritten /\ entry[v] = n
          \/ n = written /\ v \in wleft
          \/ \E i \in DOMAIN sb' : sb'[i] = WordStore(v, n)
    <3>1. ASSUME NEW n, \E i \in DOMAIN sb : sb[i] = WordStore(v, n)
          PROVE  \E i \in DOMAIN sb' : sb'[i] = WordStore(v, n)
      BY <1>1, <1>3, <1>4, <3>1, Others
    <3> QED
      BY <1>1, <3>1 DEF WordsInv
  <2>3. CASE MemWriting
    <3>1. MemWritten' = MemWritten /\ ~MemWriting'
      <4>1. PICK m \in Nat : m = MemWritten
        BY <2>1
      <4>2. arrived' = 2 * m
        BY <1>3, <2>1, <2>3, <4>1
      <4>3. (arrived' + 1) \div 2 = m /\ arrived' % 2 = 0
        BY <4>2
      <4> QED
        BY <4>1, <4>3 DEF MemWritten, MemWriting, IsOdd
    <3>2. entry[v] = MemWritten
      BY <1>3, <2>3, WordsThere DEF DrainSeq
    <3> QED
      BY <1>3, <2>1, <2>2, <3>1, <3>2 DEF WordStore
  <2>4. CASE ~MemWriting
    <3>1. MemWritten' = MemWritten + 1 /\ MemWriting'
      BY <1>3, <1>4, <2>1, <2>4 DEF MemWritten, MemWriting, IsOdd
    <3>2. entry[v] = MemWritten
      BY <1>1, <2>4 DEF WordsInv
    <3>3. \A n \in (MemWritten + 1)..written :
            \/ n = written /\ v \in wleft
            \/ \E i \in DOMAIN sb' : sb'[i] = WordStore(v, n)
      BY <2>1, <2>2
    <3> QED
      BY <1>3, <2>1, <3>1, <3>2, <3>3 DEF WordStore
  <2> QED
    BY <2>1, <2>3, <2>4
<1>10. \A t \in Threads : TripInv(t)'
  BY <1>3, TripLeft
<1> QED
  BY <1>5, <1>6, <1>7, <1>8, <1>9, <1>10 DEF BInv

-----------------------------------------------------------------------------
(* Readers                                                                  *)

\* What the writer has under way does not depend on readers.
LEMMA BufferLeft ==
  ASSUME BInv, UNCHANGED <<shared, writer, sb, arrived>>
  PROVE  (\E at : Numbered(at))' /\ Apart' /\ WritesInv' /\ WordsInv'
PROOF
<1>1. Apart /\ WritesInv /\ WordsInv
  BY DEF BInv
<1>2. UNCHANGED <<seq, entry, writing, wseq, wleft, written, sb, arrived>>
  BY DEF shared, writer
<1>3. PICK at : Numbered(at)
  BY DEF BInv
<1>4. Stores' = Stores /\ LastIssued' = LastIssued
  BY <1>2 DEF Stores, LastIssued, Inc
<1>5. /\ \A i : (IsSeq(i)' <=> IsSeq(i)) /\ (IsWord(i)' <=> IsWord(i)) /\ (IsWmb(i)' <=> IsWmb(i))
  BY <1>2 DEF IsSeq, IsWord, IsWmb
<1>6. Numbered(at)'
  BY <1>2, <1>3, <1>4, <1>5 DEF Numbered, Inc, Wmb, Seqs
<1>7. Apart' /\ WritesInv'
  BY <1>1, <1>2, <1>4, <1>5 DEF Apart, WritesInv, IsOdd
<1>8. MemWritten' = MemWritten /\ MemWriting' = MemWriting
  BY <1>2 DEF MemWritten, MemWriting, IsOdd
<1>9. WordsInv'
  BY <1>1, <1>2, <1>8 DEF WordsInv, WordStore
<1> QED
  BY <1>6, <1>7, <1>9

\* A word is not one of the loads of seq.
LEMMA LoadsApart ==
  /\ \A w \in Words : w # "seq1" /\ w # "seq2"
  /\ Loads = {"seq1", "seq2"} \cup Words
  /\ OrderedBefore("seq1") = {}
  /\ OrderedBefore("seq2") = {"seq1"} \cup Words
  /\ \A w \in Words : OrderedBefore(w) = {"seq1"}
BY BarrierAssumption DEF Loads, OrderedBefore

\* A load of seq1 begins a trip.
LEMMA Seq1Is ==
  ASSUME BInv, NEW t \in Threads, LoadSeq1(t)
  PROVE  pc[t] = "begin" /\ trip[t] = Loads /\ trip[t] \cap Words = Words
PROOF
<1>1. "seq1" \in trip[t] /\ TripInv(t) /\ pc[t] \in {"idle", "begin", "copy", "accepted"}
      /\ todo[t] \subseteq Words
  BY DEF BInv, BTypeOK, TypeOK, LoadSeq1, MayLoad
<1>2. pc[t] = "begin" /\ trip[t] = Loads
  BY <1>1, LoadsApart DEF TripInv
<1> QED
  BY <1>2, LoadsApart

\* A load of a word comes in the middle.
LEMMA WordIs ==
  ASSUME BInv, NEW t \in Threads, NEW w \in Words, LoadEntryWord(t, w)
  PROVE  pc[t] = "copy" /\ w \in todo[t] /\ trip[t] = {"seq2"} \cup todo[t]
PROOF
<1>1. w \in trip[t] /\ "seq1" \notin trip[t] /\ TripInv(t)
      /\ pc[t] \in {"idle", "begin", "copy", "accepted"}
  BY LoadsApart DEF BInv, BTypeOK, TypeOK, LoadEntryWord, MayLoad
<1> QED
  BY <1>1, LoadsApart DEF TripInv

\* A load of seq2 comes last.
LEMMA Seq2Is ==
  ASSUME BInv, NEW t \in Threads, LoadSeq2(t)
  PROVE  pc[t] = "copy" /\ todo[t] = {} /\ trip[t] = {"seq2"}
PROOF
<1>1. /\ "seq2" \in trip[t] /\ ({"seq1"} \cup Words) \cap trip[t] = {} /\ TripInv(t)
      /\ pc[t] \in {"idle", "begin", "copy", "accepted"} /\ todo[t] \subseteq Words
  BY LoadsApart DEF BInv, BTypeOK, TypeOK, LoadSeq2, MayLoad
<1> QED
  BY <1>1, LoadsApart DEF TripInv

\* The steps of a read keep the invariant.
LEMMA ReaderKeeps ==
  ASSUME BInv, NEW t \in Threads,
         \/ StartRead(t) \/ LoadSeq1(t) \/ LoadSeq2(t) \/ EndTrip(t) \/ EndRead(t)
         \/ \E w \in Words : LoadEntryWord(t, w)
  PROVE  BInv'
PROOF
<1>1. BTypeOK /\ (\A u \in Threads : TripInv(u))
  BY DEF BInv
<1>2. /\ pc \in [Threads -> {"idle", "begin", "copy", "accepted"}]
      /\ todo \in [Threads -> SUBSET Words] /\ trip \in [Threads -> SUBSET Loads]
      /\ seq1 \in [Threads -> Seqs] /\ seq2 \in [Threads -> Seqs] /\ seq \in Seqs
      /\ copied \in [Threads -> [Words -> Messages]] /\ entry \in [Words -> Messages]
      /\ rc \in [Threads -> {"none", "ok", "ENOMSG", "EAGAIN"}]
      /\ began \in [Threads -> Int] /\ span \in [Threads -> Int] /\ arrived \in Nat
      /\ prev_seq \in [Handles -> Seqs] /\ has_read_once \in [Handles -> BOOLEAN]
      /\ delivered \in [Handles -> [Words -> Messages]]
  BY <1>1 DEF BTypeOK, TypeOK
<1>3. Loads' = Loads
  BY DEF Loads
<1>4. CASE StartRead(t)
  <2>1. /\ pc[t] = "idle" /\ pc' = [pc EXCEPT ![t] = "begin"] /\ rc' = [rc EXCEPT ![t] = "none"]
        /\ trip' = [trip EXCEPT ![t] = Loads]
        /\ UNCHANGED <<shared, writer, seq1, todo, copied, began, span, state, sb, seq2, arrived>>
    BY <1>4 DEF StartRead, Call
  <2>2. BTypeOK'
    BY <1>1, <1>2, <2>1 DEF BTypeOK, TypeOK, shared, writer, state
  <2>3. \A u \in Threads : TripInv(u)'
    BY <1>1, <1>2, <1>3, <2>1 DEF TripInv
  <2> QED
    BY <2>1, <2>2, <2>3, BufferLeft DEF BInv
<1>5. CASE LoadSeq1(t)
  <2>1. /\ seq1' = [seq1 EXCEPT ![t] = seq] /\ todo' = [todo EXCEPT ![t] = Words]
        /\ began' = [began EXCEPT ![t] = arrived] /\ pc' = [pc EXCEPT ![t] = "copy"]
        /\ trip' = [trip EXCEPT ![t] = Loads \ {"seq1"}]
        /\ UNCHANGED <<shared, writer, copied, rc, span, state, sb, seq2, arrived>>
    BY <1>5, Seq1Is DEF LoadSeq1
  <2>2. BTypeOK'
    BY <1>1, <1>2, <2>1 DEF BTypeOK, TypeOK, shared, writer, state
  <2>3. \A u \in Threads : TripInv(u)'
    <3>1. Loads \ {"seq1"} = {"seq2"} \cup Words
      BY LoadsApart
    <3> QED
      BY <1>1, <1>2, <1>3, <2>1, <3>1 DEF TripInv
  <2> QED
    BY <2>1, <2>2, <2>3, BufferLeft DEF BInv
<1>6. CASE LoadSeq2(t)
  <2>1. /\ seq2' = [seq2 EXCEPT ![t] = seq] /\ span' = [span EXCEPT ![t] = arrived - began[t]]
        /\ trip' = [trip EXCEPT ![t] = {}] /\ todo[t] = {} /\ pc[t] = "copy"
        /\ UNCHANGED <<shared, writer, pc, seq1, todo, copied, rc, began, state, sb, arrived>>
    BY <1>2, <1>6, Seq2Is DEF LoadSeq2
  <2>2. arrived - began[t] \in Int
    BY <1>2
  <2>3. BTypeOK'
    BY <1>1, <1>2, <2>1, <2>2 DEF BTypeOK, TypeOK, shared, writer, state
  <2>4. \A u \in Threads : TripInv(u)'
    BY <1>1, <1>2, <1>3, <2>1 DEF TripInv
  <2> QED
    BY <2>1, <2>3, <2>4, BufferLeft DEF BInv
<1>7. CASE EndTrip(t)
  <2>1. /\ pc[t] = "copy" /\ trip[t] = {}
        /\ \/ pc' = [pc EXCEPT ![t] = "begin"] /\ trip' = [trip EXCEPT ![t] = Loads]
           \/ pc' = [pc EXCEPT ![t] = "accepted"] /\ UNCHANGED trip
        /\ UNCHANGED <<shared, writer, seq1, todo, copied, rc, began, span, state, sb, seq2, arrived>>
    BY <1>7 DEF EndTrip
  <2>2. BTypeOK'
    <3>1. /\ pc' \in [Threads -> {"idle", "begin", "copy", "accepted"}]
          /\ trip' \in [Threads -> SUBSET Loads]
      <4>1. /\ pc \in [Threads -> {"idle", "begin", "copy", "accepted"}]
            /\ trip \in [Threads -> SUBSET Loads]
        BY <1>2
      <4>2. CASE pc' = [pc EXCEPT ![t] = "begin"] /\ trip' = [trip EXCEPT ![t] = Loads]
        BY <4>1, <4>2
      <4>3. CASE pc' = [pc EXCEPT ![t] = "accepted"] /\ UNCHANGED trip
        BY <4>1, <4>3
      <4> QED
        BY <2>1, <4>2, <4>3
    <3>2. UNCHANGED <<seq, entry, writing, wseq, wleft, written, seq1, todo, copied, rc, began,
                      span, prev_seq, has_read_once, delivered, sb, seq2, arrived>>
      BY <2>1 DEF shared, writer, state
    <3> QED
      BY <1>1, <1>3, <3>1, <3>2 DEF BTypeOK, TypeOK
  <2>3. \A u \in Threads : TripInv(u)'
    BY <1>1, <1>2, <1>3, <2>1 DEF TripInv
  <2> QED
    BY <2>1, <2>2, <2>3, BufferLeft DEF BInv
<1>8. CASE EndRead(t)
  <2> DEFINE h == HandleOf[t]
  <2>1. /\ pc[t] = "accepted" /\ pc' = [pc EXCEPT ![t] = "idle"]
        /\ rc' = [rc EXCEPT ![t] = Verdict(t)]
        /\ \/ /\ prev_seq' = [prev_seq EXCEPT ![h] = seq1[t]]
              /\ has_read_once' = [has_read_once EXCEPT ![h] = TRUE]
              /\ delivered' = [delivered EXCEPT ![h] = copied[t]]
           \/ UNCHANGED state
        /\ UNCHANGED <<shared, writer, seq1, todo, copied, began, span, sb, trip, seq2, arrived>>
    BY <1>8 DEF EndRead, Return
  <2>2. Verdict(t) \in {"none", "ok", "ENOMSG", "EAGAIN"}
    BY DEF Verdict
  <2>3. /\ prev_seq' \in [Handles -> Seqs] /\ has_read_once' \in [Handles -> BOOLEAN]
        /\ delivered' \in [Handles -> [Words -> Messages]]
    BY <1>2, <2>1 DEF state
  <2>4. BTypeOK'
    BY <1>1, <1>2, <2>1, <2>2, <2>3 DEF BTypeOK, TypeOK, shared, writer
  <2>5. \A u \in Threads : TripInv(u)'
    BY <1>1, <1>2, <1>3, <2>1 DEF TripInv
  <2> QED
    BY <2>1, <2>4, <2>5, BufferLeft DEF BInv
<1>9. ASSUME NEW w \in Words, LoadEntryWord(t, w) PROVE BInv'
  <2>1. /\ copied' = [copied EXCEPT ![t][w] = entry[w]]
        /\ todo' = [todo EXCEPT ![t] = @ \ {w}] /\ trip' = [trip EXCEPT ![t] = @ \ {w}]
        /\ trip[t] = {"seq2"} \cup todo[t] /\ pc[t] = "copy"
        /\ UNCHANGED <<shared, writer, pc, seq1, rc, began, span, state, sb, seq2, arrived>>
    BY <1>9, WordIs DEF LoadEntryWord
  <2>2. BTypeOK'
    <3>1. entry[w] \in Messages
      BY <1>2
    <3>2. copied' \in [Threads -> [Words -> Messages]]
      BY <1>2, <2>1, <3>1
    <3>3. todo' \in [Threads -> SUBSET Words] /\ trip' \in [Threads -> SUBSET Loads]
      BY <1>2, <2>1
    <3>4. Loads' = Loads /\ UNCHANGED <<seq, entry, writing, wseq, wleft, written, pc, seq1, rc,
            began, span, prev_seq, has_read_once, delivered, sb, seq2, arrived>>
      BY <1>3, <2>1 DEF shared, writer, state
    <3> QED
      BY <1>1, <3>2, <3>3, <3>4 DEF BTypeOK, TypeOK
  <2>3. \A u \in Threads : TripInv(u)'
    <3>1. (trip[t] \ {w}) = {"seq2"} \cup (todo[t] \ {w})
      BY <2>1, LoadsApart
    <3> QED
      BY <1>1, <1>2, <1>3, <2>1, <3>1 DEF TripInv
  <2> QED
    BY <2>1, <2>2, <2>3, BufferLeft DEF BInv
<1> QED
  BY <1>4, <1>5, <1>6, <1>7, <1>8, <1>9

\* A reader object that is made again has nothing to do with it.
LEMMA ReopenKeeps ==
  ASSUME BInv, NEW h \in Handles, ReopenObject(h)
  PROVE  BInv'
PROOF
<1>1. BTypeOK
  BY DEF BInv
<1>2. /\ prev_seq' = [prev_seq EXCEPT ![h] = 0]
      /\ has_read_once' = [has_read_once EXCEPT ![h] = FALSE]
      /\ delivered' = [delivered EXCEPT ![h] = Whole(0)]
      /\ UNCHANGED <<shared, writer, reader, sb, trip, seq2, arrived>>
  BY DEF ReopenObject, Reopen
<1>3. Whole(0) \in [Words -> Messages] /\ 0 \in Seqs
  BY DEF Whole, Messages, Seqs
<1>4. BTypeOK'
  BY <1>1, <1>2, <1>3 DEF BTypeOK, TypeOK, shared, writer, reader
<1> QED
  BY <1>2, <1>4, TripLeft, BufferLeft DEF BInv

-----------------------------------------------------------------------------
(* The invariant                                                            *)

\* An empty buffer before the first write.
LEMMA BInitInv == BInit => BInv
PROOF
<1> SUFFICES ASSUME BInit PROVE BInv
  OBVIOUS
<1>1. Init /\ sb = <<>> /\ arrived = 0
  BY DEF BInit
<1>2. 0 \in Seqs /\ 0 \in Messages /\ Whole(0) \in [Words -> Messages]
  BY DEF Seqs, Messages, Whole
<1>3. TypeOK
  <2>1. /\ seq = 0 /\ entry = Whole(0) /\ writing = FALSE /\ wseq = 0 /\ wleft = {} /\ written = 0
        /\ pc = [t \in Threads |-> "idle"] /\ seq1 = [t \in Threads |-> 0]
        /\ todo = [t \in Threads |-> {}] /\ copied = [t \in Threads |-> Whole(0)]
        /\ rc = [t \in Threads |-> "none"] /\ prev_seq = [h \in Handles |-> 0]
        /\ has_read_once = [h \in Handles |-> FALSE] /\ began = [t \in Threads |-> 0]
        /\ span = [t \in Threads |-> 0] /\ delivered = [h \in Handles |-> Whole(0)]
    BY <1>1 DEF Init
  <2>2. /\ copied \in [Threads -> [Words -> Messages]]
        /\ delivered \in [Handles -> [Words -> Messages]] /\ entry \in [Words -> Messages]
    BY <1>2, <2>1
  <2>3. /\ pc \in [Threads -> {"idle", "begin", "copy", "accepted"}] /\ seq1 \in [Threads -> Seqs]
        /\ todo \in [Threads -> SUBSET Words]
        /\ rc \in [Threads -> {"none", "ok", "ENOMSG", "EAGAIN"}]
    BY <1>2, <2>1
  <2>4. /\ prev_seq \in [Handles -> Seqs] /\ has_read_once \in [Handles -> BOOLEAN]
        /\ began \in [Threads -> Int] /\ span \in [Threads -> Int]
    BY <1>2, <2>1
  <2> QED
    BY <1>2, <2>1, <2>2, <2>3, <2>4 DEF TypeOK
<1>4. BTypeOK
  BY <1>2, <1>3 DEF BInit, BTypeOK
<1>5. DOMAIN sb = {} /\ Stores = 0
  BY <1>1 DEF Init, Stores
<1>6. Numbered([i \in {} |-> 0])
  BY <1>1, <1>5 DEF Numbered
<1>7. Apart
  BY <1>5 DEF Apart
<1>8. WritesInv
  BY <1>1, <1>5 DEF WritesInv, Init, LastIssued, IsOdd
<1>9. MemWritten = 0 /\ MemWriting = FALSE
  BY <1>1 DEF MemWritten, MemWriting, IsOdd
<1>10. WordsInv
  <2>1. written = 0 /\ \A w \in Words : entry[w] = 0
    BY <1>1 DEF Init, Whole
  <2>2. \A n \in MemWritten..written : n = 0
    BY <1>9, <2>1
  <2>3. \A w \in Words : /\ entry[w] \in {MemWritten - 1, MemWritten}
                         /\ (~MemWriting => entry[w] = MemWritten)
    BY <1>9, <2>1
  <2>4. \A w \in Words : \A n \in MemWritten..written : n = MemWritten /\ entry[w] = n
    BY <1>9, <2>1, <2>2
  <2> QED
    BY <2>3, <2>4 DEF WordsInv
<1>11. \A t \in Threads : TripInv(t)
  BY DEF BInit, Init, TripInv
<1> QED
  BY <1>4, <1>6, <1>7, <1>8, <1>10, <1>11 DEF BInv

\* Every step keeps it.
LEMMA BNextInv == BInv /\ [BNext]_bvars => BInv'
PROOF
<1> SUFFICES ASSUME BInv, [BNext]_bvars PROVE BInv'
  OBVIOUS
<1>1. ASSUME NEW i \in DOMAIN sb, Drain(i) PROVE BInv'
  BY <1>1, DrainIs, WordArrives, SeqArrives
<1>2. ASSUME UNCHANGED bvars PROVE BInv'
  <2>1. UNCHANGED <<vars, sb, trip, seq2, arrived>>
    BY <1>2 DEF bvars
  <2>2. UNCHANGED <<shared, writer, reader, state>>
    BY <2>1 DEF vars
  <2>3. BTypeOK'
    BY <2>1, <2>2 DEF BInv, BTypeOK, TypeOK, shared, writer, reader, state
  <2> QED
    BY <2>1, <2>2, <2>3, TripLeft, BufferLeft DEF BInv
<1> QED
  BY <1>1, <1>2, BeginKeeps, StoreKeeps, EndKeeps, BarrierKeeps, ReaderKeeps, ReopenKeeps DEF BNext

(* What is in the buffer of the writer, how far its writes have come in      *)
(* memory, and what a reader has still to load, in every reachable state.   *)
THEOREM Buffered == BSpec => []BInv
BY BInitInv, BNextInv, PTL DEF BSpec

(* Behind barriers as well, every variable keeps its type.                  *)
THEOREM BarriersTypeCorrect == BSpec => []TypeOK
PROOF
<1>1. BInv => TypeOK
  BY DEF BInv, BTypeOK
<1> QED
  BY <1>1, Buffered, PTL

-----------------------------------------------------------------------------
(* What happens in memory is the plain sequence lock's doing                 *)

\* Where the lock in memory sees a reader, and the writer's sequence number.
MemPc(t) == IF pc[t] = "copy" /\ trip[t] = {}
            THEN IF seq2[t] = seq1[t] THEN "accepted" ELSE "begin"
            ELSE pc[t]

MemSeq == IF MemWriting \/ arrived = 0 THEN seq
          ELSE IF seq = 0 THEN SeqModulus - 1 ELSE seq - 1

\* What a step leaves of the writes in memory.
LEMMA WritesUnseen ==
  ASSUME UNCHANGED <<shared, arrived>>
  PROVE  UNCHANGED <<seq, entry, MemWriting, MemWritten, MemLeft, MemSeq>>
PROOF
<1>1. UNCHANGED <<seq, entry, arrived>>
  BY DEF shared
<1>2. MemWriting' = MemWriting /\ MemWritten' = MemWritten
  BY <1>1 DEF MemWriting, MemWritten, IsOdd
<1>3. MemLeft' = MemLeft /\ MemSeq' = MemSeq
  BY <1>1, <1>2 DEF MemLeft, MemSeq
<1> QED
  BY <1>1, <1>2, <1>3

\* What the writer does with its buffer is not seen in memory.
LEMMA Unseen ==
  ASSUME UNCHANGED <<shared, reader, state, trip, seq2, arrived>>
  PROVE  UNCHANGED Memory!vars
PROOF
<1>1. UNCHANGED <<seq, entry, MemWriting, MemWritten, MemLeft, MemSeq>>
  BY WritesUnseen
<1>2. UNCHANGED <<pc, seq1, todo, copied, rc, began, span, prev_seq, has_read_once, delivered,
                  trip, seq2>>
  BY DEF reader, state
<1>3. UNCHANGED <<Memory!shared, Memory!writer>>
  BY <1>1 DEF Memory!shared, Memory!writer, MemSeq
<1>4. UNCHANGED <<Memory!reader, Memory!state>>
  BY <1>2 DEF Memory!reader, Memory!state
<1> QED
  BY <1>3, <1>4 DEF Memory!vars

\* A word that arrives is stored by the write under way in memory.
LEMMA WordRefines ==
  ASSUME BInv, NEW k \in DOMAIN sb, DrainWord(k)
  PROVE  (\E w \in Words : Memory!StoreWord(w)) \/ UNCHANGED Memory!vars
PROOF
<1>1. /\ IsWord(k) /\ MayDrain(k)
      /\ entry' = [entry EXCEPT ![sb[k].loc] = sb[k].val]
      /\ UNCHANGED <<seq, arrived, reader, state, trip, seq2>>
  BY DEF DrainWord
<1>2. PICK w \in Words : w = sb[k].loc
  BY <1>1 DEF IsWord
<1>3. MemWriting /\ sb[k].val = MemWritten
  BY <1>1, WordInTime
<1>4. entry \in [Words -> Messages]
  BY DEF BInv, BTypeOK, TypeOK
<1>5. entry' = [entry EXCEPT ![w] = MemWritten]
  BY <1>1, <1>2, <1>3
<1>6. MemWriting' = MemWriting /\ MemWritten' = MemWritten /\ MemSeq' = MemSeq
  BY <1>1 DEF MemWriting, MemWritten, MemSeq, IsOdd
<1>7. CASE entry[w] = MemWritten
  <2>1. entry' = entry
    BY <1>4, <1>5, <1>7
  <2> QED
    BY <1>1, <2>1, Unseen DEF shared
<1>8. CASE entry[w] # MemWritten
  <2>1. w \in MemLeft
    BY <1>3, <1>8 DEF MemLeft
  <2>2. MemLeft' = MemLeft \ {w}
    <3>1. \A v \in Words : entry'[v] = IF v = w THEN MemWritten ELSE entry[v]
      BY <1>4, <1>5
    <3> QED
      BY <1>3, <1>6, <3>1 DEF MemLeft
  <2>3. UNCHANGED <<Memory!reader, Memory!state>>
    BY <1>1 DEF Memory!reader, Memory!state, reader, state
  <2> QED
    BY <1>1, <1>5, <1>6, <2>1, <2>2, <2>3 DEF Memory!StoreWord, MemSeq
<1> QED
  BY <1>7, <1>8

\* A store to seq that arrives begins a write in memory or ends it.
LEMMA SeqRefines ==
  ASSUME BInv, NEW k \in DOMAIN sb, DrainSeq(k)
  PROVE  Memory!WriteBegin \/ Memory!WriteEnd
PROOF
<1>1. BTypeOK /\ WritesInv /\ WordsInv
  BY DEF BInv
<1>2. PICK at : Numbered(at)
  BY DEF BInv
<1>3. /\ IsSeq(k) /\ MayDrain(k) /\ seq' = sb[k].val /\ arrived' = arrived + 1
      /\ UNCHANGED <<entry, reader, state, trip, seq2>>
  BY DEF DrainSeq
<1>4. /\ sb[k].val = Inc(seq) /\ arrived < Stores /\ arrived \in Nat /\ Stores \in Nat
      /\ seq \in Seqs /\ written \in Nat /\ written <= MaxWrites
  BY <1>1, <1>2, <1>3, NextSeq, Bounds DEF BTypeOK, TypeOK, Messages
<1>5. PICK m \in Nat : m = MemWritten
  BY <1>1, Halves
<1>6. arrived = (IF MemWriting THEN 2 * m - 1 ELSE 2 * m) /\ MemWriting \in BOOLEAN
  BY <1>1, <1>5, Halves
<1>7. Memory!Inc(seq) = Inc(seq)
  BY DEF Memory!Inc, Inc
<1>8. UNCHANGED <<Memory!reader, Memory!state>>
  BY <1>3 DEF Memory!reader, Memory!state, reader, state
<1>9. CASE ~MemWriting
  <2>1. MemWriting' = TRUE
    BY <1>3, <1>6, <1>9 DEF MemWriting, IsOdd
  <2>2. MemWritten' = m + 1
    BY <1>3, <1>6, <1>9 DEF MemWritten
  <2>3. m < MaxWrites
    BY <1>4, <1>6, <1>9 DEF Stores
  <2>4. MemLeft' = Words
    <3>1. \A w \in Words : entry[w] = m
      BY <1>1, <1>5, <1>9 DEF WordsInv
    <3>2. \A w \in Words : entry'[w] # MemWritten'
      BY <1>3, <2>2, <3>1
    <3> QED
      BY <2>1, <3>2 DEF MemLeft
  <2>5. MemSeq' = seq'
    BY <2>1 DEF MemSeq
  <2>6. Memory!WriteBegin
    BY <1>3, <1>4, <1>5, <1>7, <1>8, <1>9, <2>1, <2>2, <2>3, <2>4, <2>5
    DEF Memory!WriteBegin, MemSeq
  <2> QED
    BY <2>6
<1>10. CASE MemWriting
  <2>1. MemWriting' = FALSE
    BY <1>3, <1>6, <1>10 DEF MemWriting, IsOdd
  <2>2. MemWritten' = MemWritten
    <3>1. arrived' = 2 * m
      BY <1>3, <1>6, <1>10
    <3> QED
      BY <1>5, <3>1 DEF MemWritten
  <2>3. MemLeft = {} /\ MemLeft' = {}
    BY <1>3, <1>10, <2>1, WordsThere DEF MemLeft
  <2>4. MemSeq = seq /\ MemSeq' = seq
    <3>1. seq = IF seq' = 0 THEN SeqModulus - 1 ELSE seq' - 1
      BY <1>3, <1>4, IncTurns
    <3>2. arrived' # 0
      BY <1>3, <1>4
    <3> QED
      BY <1>10, <2>1, <3>1, <3>2 DEF MemSeq
  <2>5. Memory!WriteEnd
    BY <1>3, <1>4, <1>7, <1>8, <1>10, <2>1, <2>2, <2>3, <2>4 DEF Memory!WriteEnd, MemSeq
  <2> QED
    BY <2>5
<1> QED
  BY <1>9, <1>10

\* A read moves only its own thread in the lock that memory shows.
LEMMA OthersStay ==
  ASSUME BInv, NEW t \in Threads, NEW x,
         \A u \in Threads : u # t =>
           pc'[u] = pc[u] /\ trip'[u] = trip[u] /\ seq1'[u] = seq1[u] /\ seq2'[u] = seq2[u],
         MemPc(t)' = x
  PROVE  [u \in Threads |-> MemPc(u)]' = [[u \in Threads |-> MemPc(u)] EXCEPT ![t] = x]
PROOF
<1>1. \A u \in Threads : u # t => MemPc(u)' = MemPc(u)
  BY DEF MemPc
<1> QED
  BY <1>1

\* A step of a read that is none of the lock's own.
LEMMA TripRefines ==
  ASSUME BInv, NEW t \in Threads, EndTrip(t)
  PROVE  UNCHANGED Memory!vars
PROOF
<1>1. /\ pc \in [Threads -> {"idle", "begin", "copy", "accepted"}]
      /\ trip \in [Threads -> SUBSET Loads]
  BY DEF BInv, BTypeOK, TypeOK
<1>2. /\ pc[t] = "copy" /\ trip[t] = {}
      /\ \/ /\ seq2[t] # seq1[t] /\ pc' = [pc EXCEPT ![t] = "begin"]
            /\ trip' = [trip EXCEPT ![t] = Loads]
         \/ seq2[t] = seq1[t] /\ pc' = [pc EXCEPT ![t] = "accepted"] /\ trip' = trip
      /\ UNCHANGED <<shared, arrived, seq1, seq2, todo, copied, rc, began, span, state>>
  BY DEF EndTrip
<1>3. ASSUME NEW u \in Threads PROVE MemPc(u)' = MemPc(u)
  <2>1. CASE u = t
    BY <1>1, <1>2, <2>1 DEF MemPc
  <2>2. CASE u # t
    BY <1>1, <1>2, <2>2 DEF MemPc
  <2> QED
    BY <2>1, <2>2
<1>4. [u \in Threads |-> MemPc(u)]' = [u \in Threads |-> MemPc(u)]
  BY <1>3
<1>5. UNCHANGED <<seq, entry, MemWriting, MemWritten, MemLeft, MemSeq>>
  BY <1>2, WritesUnseen
<1>6. UNCHANGED <<Memory!shared, Memory!writer>>
  BY <1>5 DEF Memory!shared, Memory!writer, MemSeq
<1>7. UNCHANGED <<Memory!reader, Memory!state>>
  BY <1>2, <1>4 DEF Memory!reader, Memory!state, state, MemPc
<1> QED
  BY <1>6, <1>7 DEF Memory!vars

\* A read is called.
LEMMA CallRefines ==
  ASSUME BInv, NEW t \in Threads, StartRead(t)
  PROVE  Memory!Call(t)
PROOF
<1>1. /\ pc \in [Threads -> {"idle", "begin", "copy", "accepted"}]
      /\ trip \in [Threads -> SUBSET Loads]
  BY DEF BInv, BTypeOK, TypeOK
<1>2. /\ pc[t] = "idle" /\ pc' = [pc EXCEPT ![t] = "begin"] /\ rc' = [rc EXCEPT ![t] = "none"]
      /\ trip' = [trip EXCEPT ![t] = Loads]
      /\ UNCHANGED <<shared, seq1, todo, copied, began, span, state, seq2, arrived>>
  BY DEF StartRead, Call
<1>3. MemPc(t) = "idle" /\ MemPc(t)' = "begin"
  BY <1>1, <1>2 DEF MemPc
<1>4. [u \in Threads |-> MemPc(u)]' = [[u \in Threads |-> MemPc(u)] EXCEPT ![t] = "begin"]
  BY <1>1, <1>2, <1>3, OthersStay
<1>5. UNCHANGED <<seq, entry, MemWriting, MemWritten, MemLeft, MemSeq>>
  BY <1>2, WritesUnseen
<1>6. UNCHANGED <<Memory!shared, Memory!writer>>
  BY <1>5 DEF Memory!shared, Memory!writer, MemSeq
<1>7. UNCHANGED Memory!state
  BY <1>2 DEF Memory!state, state
<1> QED
  BY <1>2, <1>3, <1>4, <1>6, <1>7 DEF Memory!Call, MemPc

\* The load of seq1 begins a trip.
LEMMA Seq1Refines ==
  ASSUME BInv, NEW t \in Threads, LoadSeq1(t)
  PROVE  Memory!ReadBegin(t)
PROOF
<1>1. /\ pc \in [Threads -> {"idle", "begin", "copy", "accepted"}]
      /\ trip \in [Threads -> SUBSET Loads] /\ seq1 \in [Threads -> Seqs]
  BY DEF BInv, BTypeOK, TypeOK
<1>2. /\ pc[t] = "begin" /\ trip[t] = Loads /\ ~IsOdd(seq)
      /\ seq1' = [seq1 EXCEPT ![t] = seq] /\ todo' = [todo EXCEPT ![t] = Words]
      /\ began' = [began EXCEPT ![t] = arrived] /\ pc' = [pc EXCEPT ![t] = "copy"]
      /\ trip' = [trip EXCEPT ![t] = Loads \ {"seq1"}]
      /\ UNCHANGED <<shared, copied, rc, span, state, seq2, arrived>>
  BY Seq1Is DEF LoadSeq1
<1>3. MemPc(t) = "begin"
  BY <1>2 DEF MemPc
<1>4. MemPc(t)' = "copy"
  <2>1. pc'[t] = "copy" /\ trip'[t] = Loads \ {"seq1"}
    BY <1>1, <1>2
  <2>2. Loads \ {"seq1"} # {}
    BY LoadsApart
  <2> QED
    BY <2>1, <2>2 DEF MemPc
<1>5. [u \in Threads |-> MemPc(u)]' = [[u \in Threads |-> MemPc(u)] EXCEPT ![t] = "copy"]
  <2>1. \A u \in Threads : u # t =>
          pc'[u] = pc[u] /\ trip'[u] = trip[u] /\ seq1'[u] = seq1[u] /\ seq2'[u] = seq2[u]
    BY <1>1, <1>2
  <2> QED
    BY <1>4, <2>1, OthersStay
<1>6. UNCHANGED <<seq, entry, MemWriting, MemWritten, MemLeft, MemSeq>>
  BY <1>2, WritesUnseen
<1>7. UNCHANGED <<Memory!shared, Memory!writer>>
  BY <1>6 DEF Memory!shared, Memory!writer, MemSeq
<1>8. UNCHANGED Memory!state
  BY <1>2 DEF Memory!state, state
<1>9. ~Memory!IsOdd(seq) /\ Memory!Stores = arrived
  BY <1>2, Halves DEF BInv, Memory!IsOdd, IsOdd, Memory!Stores
<1> QED
  BY <1>2, <1>3, <1>5, <1>7, <1>8, <1>9 DEF Memory!ReadBegin, MemPc

\* A word is loaded.
LEMMA LoadRefines ==
  ASSUME BInv, NEW t \in Threads, NEW w \in Words, LoadEntryWord(t, w)
  PROVE  Memory!LoadWord(t, w)
PROOF
<1>1. trip \in [Threads -> SUBSET Loads]
  BY DEF BInv, BTypeOK, TypeOK
<1>2. /\ w \in todo[t] /\ trip[t] = {"seq2"} \cup todo[t] /\ pc[t] = "copy"
      /\ copied' = [copied EXCEPT ![t][w] = entry[w]]
      /\ todo' = [todo EXCEPT ![t] = @ \ {w}] /\ trip' = [trip EXCEPT ![t] = @ \ {w}]
      /\ UNCHANGED <<shared, pc, seq1, rc, began, span, state, seq2, arrived>>
  BY WordIs DEF LoadEntryWord
<1>3. ASSUME NEW u \in Threads PROVE MemPc(u)' = MemPc(u)
  <2>1. CASE u = t
    <3>1. "seq2" \in trip[t] /\ "seq2" \in trip'[t]
      BY <1>1, <1>2, LoadsApart
    <3> QED
      BY <1>2, <2>1, <3>1 DEF MemPc
  <2>2. CASE u # t
    BY <1>1, <1>2, <2>2 DEF MemPc
  <2> QED
    BY <2>1, <2>2
<1>4. [u \in Threads |-> MemPc(u)]' = [u \in Threads |-> MemPc(u)]
  BY <1>3
<1>5. UNCHANGED <<seq, entry, MemWriting, MemWritten, MemLeft, MemSeq>>
  BY <1>2, WritesUnseen
<1>6. UNCHANGED <<Memory!shared, Memory!writer>>
  BY <1>5 DEF Memory!shared, Memory!writer, MemSeq
<1>7. UNCHANGED Memory!state
  BY <1>2 DEF Memory!state, state
<1> QED
  BY <1>2, <1>4, <1>6, <1>7 DEF Memory!LoadWord, MemPc

\* The load of seq2 ends the trip, whenever its thread gets to compare it.
LEMMA Seq2Refines ==
  ASSUME BInv, NEW t \in Threads, LoadSeq2(t)
  PROVE  Memory!ReadRetry(t)
PROOF
<1>1. /\ trip \in [Threads -> SUBSET Loads] /\ seq2 \in [Threads -> Seqs]
      /\ span \in [Threads -> Int]
  BY DEF BInv, BTypeOK, TypeOK
<1>2. /\ pc[t] = "copy" /\ todo[t] = {} /\ trip[t] = {"seq2"}
      /\ seq2' = [seq2 EXCEPT ![t] = seq] /\ span' = [span EXCEPT ![t] = arrived - began[t]]
      /\ trip' = [trip EXCEPT ![t] = @ \ {"seq2"}]
      /\ UNCHANGED <<shared, pc, seq1, todo, copied, rc, began, state, arrived>>
  BY Seq2Is DEF LoadSeq2
<1>3. MemPc(t) = "copy"
  BY <1>2 DEF MemPc
<1>4. MemPc(t)' = IF Memory!MustRetry(t) THEN "begin" ELSE "accepted"
  <2>1. trip'[t] = {} /\ seq2'[t] = seq /\ pc'[t] = "copy" /\ seq1'[t] = seq1[t]
    BY <1>1, <1>2
  <2> QED
    BY <2>1 DEF MemPc, Memory!MustRetry
<1>5. [u \in Threads |-> MemPc(u)]' =
        [[u \in Threads |-> MemPc(u)] EXCEPT ![t] = IF Memory!MustRetry(t) THEN "begin" ELSE "accepted"]
  <2>1. \A u \in Threads : u # t =>
          pc'[u] = pc[u] /\ trip'[u] = trip[u] /\ seq1'[u] = seq1[u] /\ seq2'[u] = seq2[u]
    BY <1>1, <1>2
  <2>2. PICK x : x = IF Memory!MustRetry(t) THEN "begin" ELSE "accepted"
    OBVIOUS
  <2>3. MemPc(t)' = x
    BY <1>4, <2>2
  <2>4. [u \in Threads |-> MemPc(u)]' = [[u \in Threads |-> MemPc(u)] EXCEPT ![t] = x]
    BY <2>1, <2>3, OthersStay
  <2> QED
    BY <2>2, <2>4
<1>6. UNCHANGED <<seq, entry, MemWriting, MemWritten, MemLeft, MemSeq>>
  BY <1>2, WritesUnseen
<1>7. UNCHANGED <<Memory!shared, Memory!writer>>
  BY <1>6 DEF Memory!shared, Memory!writer, MemSeq
<1>8. UNCHANGED Memory!state
  BY <1>2 DEF Memory!state, state
<1>9. Memory!Stores = arrived
  BY Halves DEF BInv, Memory!Stores
<1> QED
  BY <1>2, <1>3, <1>5, <1>7, <1>8, <1>9 DEF Memory!ReadRetry, MemPc

\* A read returns.
LEMMA ReturnRefines ==
  ASSUME BInv, NEW t \in Threads, EndRead(t)
  PROVE  Memory!Return(t)
PROOF
<1>1. /\ pc \in [Threads -> {"idle", "begin", "copy", "accepted"}]
      /\ trip \in [Threads -> SUBSET Loads]
  BY DEF BInv, BTypeOK, TypeOK
<1>2. /\ pc[t] = "accepted" /\ pc' = [pc EXCEPT ![t] = "idle"]
      /\ UNCHANGED <<shared, seq1, todo, copied, began, span, trip, seq2, arrived>>
  BY DEF EndRead, Return
<1>3. Memory!Verdict(t) = Verdict(t)
  BY DEF Memory!Verdict, Verdict
<1>4. MemPc(t) = "accepted" /\ MemPc(t)' = "idle"
  BY <1>1, <1>2 DEF MemPc
<1>5. [u \in Threads |-> MemPc(u)]' = [[u \in Threads |-> MemPc(u)] EXCEPT ![t] = "idle"]
  BY <1>1, <1>2, <1>4, OthersStay
<1>6. UNCHANGED <<seq, entry, MemWriting, MemWritten, MemLeft, MemSeq>>
  BY <1>2, WritesUnseen
<1>7. UNCHANGED <<Memory!shared, Memory!writer>>
  BY <1>6 DEF Memory!shared, Memory!writer, MemSeq
<1>8. /\ rc' = [rc EXCEPT ![t] = Memory!Verdict(t)]
      /\ \/ /\ Memory!Verdict(t) = "ok"
            /\ prev_seq' = [prev_seq EXCEPT ![HandleOf[t]] = seq1[t]]
            /\ has_read_once' = [has_read_once EXCEPT ![HandleOf[t]] = TRUE]
            /\ delivered' = [delivered EXCEPT ![HandleOf[t]] = copied[t]]
         \/ /\ Memory!Verdict(t) # "ok"
            /\ UNCHANGED Memory!state
  BY <1>3 DEF EndRead, Return, state, Memory!state
<1> QED
  BY <1>2, <1>4, <1>5, <1>7, <1>8 DEF Memory!Return, MemPc

\* A reader object is made again.
LEMMA ReopenRefines ==
  ASSUME BInv, NEW h \in Handles, ReopenObject(h)
  PROVE  Memory!Reopen(h)
PROOF
<1>1. /\ \A t \in Threads : HandleOf[t] = h => pc[t] = "idle"
      /\ prev_seq' = [prev_seq EXCEPT ![h] = 0]
      /\ has_read_once' = [has_read_once EXCEPT ![h] = FALSE]
      /\ delivered' = [delivered EXCEPT ![h] = Whole(0)]
      /\ UNCHANGED <<shared, reader, trip, seq2, arrived>>
  BY DEF ReopenObject, Reopen
<1>2. UNCHANGED <<seq, entry, MemWriting, MemWritten, MemLeft, MemSeq>>
  BY <1>1, WritesUnseen
<1>3. UNCHANGED <<Memory!shared, Memory!writer>>
  BY <1>2 DEF Memory!shared, Memory!writer, MemSeq
<1>4. UNCHANGED Memory!reader
  BY <1>1 DEF Memory!reader, reader
<1>5. \A t \in Threads : HandleOf[t] = h => MemPc(t) = "idle"
  BY <1>1 DEF MemPc
<1>6. Memory!Whole(0) = Whole(0)
  BY DEF Memory!Whole, Whole
<1> QED
  BY <1>1, <1>3, <1>4, <1>5, <1>6 DEF Memory!Reopen, MemPc

\* The lock begins in memory as SeqLock begins.
LEMMA InitRefines == BInit => Memory!Init
PROOF
<1> SUFFICES ASSUME BInit PROVE Memory!Init
  OBVIOUS
<1>1. Init /\ arrived = 0
  BY DEF BInit
<1>2. MemWriting = FALSE /\ MemWritten = 0
  BY <1>1 DEF MemWriting, MemWritten, IsOdd
<1>3. MemLeft = {} /\ MemSeq = 0
  BY <1>1, <1>2 DEF MemLeft, MemSeq, Init
<1>4. [t \in Threads |-> MemPc(t)] = [t \in Threads |-> "idle"]
  BY <1>1 DEF MemPc, Init
<1> QED
  BY <1>1, <1>2, <1>3, <1>4 DEF Memory!Init, Init, Memory!Whole, Whole, MemSeq, MemPc

\* Every step of the writer, the readers and the memory system is one of SeqLock's or none.
LEMMA NextRefines == BInv /\ [BNext]_bvars => [Memory!Next]_(Memory!vars)
PROOF
<1> SUFFICES ASSUME BInv, [BNext]_bvars
             PROVE  Memory!Next \/ UNCHANGED Memory!vars
  OBVIOUS
<1>1. ASSUME IssueWriteBegin \/ (\E w \in Words : IssueStoreWord(w)) \/ IssueWriteEnd \/ PassBarrier
      PROVE  UNCHANGED Memory!vars
  BY <1>1, Unseen DEF IssueWriteBegin, IssueStoreWord, IssueWriteEnd, PassBarrier, vars
<1>2. ASSUME NEW i \in DOMAIN sb, Drain(i) PROVE Memory!Next \/ UNCHANGED Memory!vars
  BY <1>2, DrainIs, WordRefines, SeqRefines DEF Memory!Next, Memory!WriterStep
<1>3. ASSUME NEW t \in Threads,
             \/ StartRead(t) \/ LoadSeq1(t) \/ LoadSeq2(t) \/ EndTrip(t) \/ EndRead(t)
             \/ \E w \in Words : LoadEntryWord(t, w)
      PROVE  Memory!Next \/ UNCHANGED Memory!vars
  <2>1. CASE EndTrip(t)
    BY <2>1, TripRefines
  <2>2. CASE \/ StartRead(t) \/ LoadSeq1(t) \/ LoadSeq2(t) \/ EndRead(t)
             \/ \E w \in Words : LoadEntryWord(t, w)
    <3>1. Memory!ReaderStep(t)
      BY <2>2, CallRefines, Seq1Refines, LoadRefines, Seq2Refines, ReturnRefines
      DEF Memory!ReaderStep
    <3> QED
      BY <3>1 DEF Memory!Next
  <2> QED
    BY <1>3, <2>1, <2>2
<1>4. ASSUME NEW h \in Handles, ReopenObject(h) PROVE Memory!Next
  BY <1>4, ReopenRefines DEF Memory!Next
<1>5. ASSUME UNCHANGED bvars PROVE UNCHANGED Memory!vars
  BY <1>5, Unseen DEF bvars, vars
<1> QED
  BY <1>1, <1>2, <1>3, <1>4, <1>5 DEF BNext

(* With the barriers of smp.h, whatever order the machine carries the        *)
(* accesses out in, memory shows a behaviour of SeqLock.                     *)
THEOREM Implements == BSpec => ImplementsSeqLock
BY InitRefines, NextRefines, Buffered, PTL DEF BSpec, ImplementsSeqLock, Memory!Spec

-----------------------------------------------------------------------------
(* What the loop lets through                                               *)

\* How many stores to seq have arrived since the thread loaded seq1.
MemLag(t) == arrived - began[t]

\* While a trip is under way, seq is as far from seq1 as stores have arrived
\* since, modulo one wrap, and as long as none has, the words loaded are those of
\* the message seq1 stands for.  A trip that ended with the seq it began with,
\* and no wrap between, has loaded that message.
HeardInv(t) ==
  /\ MemPc(t) = "copy" =>
       /\ ~IsOdd(seq1[t])
       /\ began[t] <= arrived
       /\ MemLag(t) < SeqModulus =>
            seq = IF seq1[t] + MemLag(t) < SeqModulus
                  THEN seq1[t] + MemLag(t) ELSE seq1[t] + MemLag(t) - SeqModulus
       /\ MemLag(t) = 0 => \A w \in Words \ todo[t] : 2 * copied[t][w] = began[t]
  /\ MemPc(t) = "accepted" /\ span[t] < SeqModulus =>
       \A w \in Words : 2 * copied[t][w] = began[t]

\* A step that neither stores to seq nor moves the thread tells it nothing.
LEMMA HeardLeft ==
  ASSUME NEW t \in Threads, HeardInv(t), MemPc(t)' = MemPc(t), UNCHANGED <<seq, arrived>>,
         seq1'[t] = seq1[t], began'[t] = began[t], span'[t] = span[t],
         copied'[t] = copied[t], todo'[t] = todo[t]
  PROVE  HeardInv(t)'
PROOF
<1>1. MemLag(t)' = MemLag(t)
  BY DEF MemLag
<1> QED
  BY <1>1 DEF HeardInv, IsOdd

\* The range of what a thread has loaded of seq.
LEMMA LoadedSeqs ==
  ASSUME BInv, NEW t \in Threads
  PROVE  /\ seq \in Nat /\ seq < SeqModulus /\ seq1[t] \in Nat /\ seq1[t] < SeqModulus
         /\ began[t] \in Int /\ arrived \in Nat /\ SeqModulus \in Nat
PROOF
<1>1. /\ seq \in Seqs /\ seq1 \in [Threads -> Seqs] /\ began \in [Threads -> Int]
      /\ arrived \in Nat
  BY DEF BInv, BTypeOK, TypeOK
<1>2. seq1[t] \in Seqs /\ began[t] \in Int
  BY <1>1
<1>3. \A s \in Seqs : s \in Nat /\ s < SeqModulus
  BY DEF Seqs
<1> QED
  BY <1>1, <1>2, <1>3

\* A store to seq that arrives shows in seq, if not too many have.
LEMMA HeardStore ==
  ASSUME BInv, NEW t \in Threads, HeardInv(t), NEW k \in DOMAIN sb, DrainSeq(k)
  PROVE  HeardInv(t)'
PROOF
<1>1. PICK at : Numbered(at)
  BY DEF BInv
<1>2. /\ seq' = sb[k].val /\ arrived' = arrived + 1
      /\ UNCHANGED <<pc, seq1, todo, copied, began, span, trip, seq2>>
  BY DEF DrainSeq, reader
<1>3. seq' = Inc(seq)
  BY <1>1, <1>2, NextSeq DEF DrainSeq
<1>4. MemPc(t)' = MemPc(t)
  BY <1>2 DEF MemPc
<1>5. /\ seq \in Nat /\ seq < SeqModulus /\ seq1[t] \in Nat /\ seq1[t] < SeqModulus
      /\ began[t] \in Int /\ arrived \in Nat /\ SeqModulus \in Nat
  BY LoadedSeqs
<1>6. PICK lag \in Int : lag = MemLag(t)
  BY <1>5 DEF MemLag
<1>7. MemLag(t)' = lag + 1
  BY <1>2, <1>5, <1>6 DEF MemLag
<1>8. ASSUME MemPc(t) = "copy"
      PROVE  /\ ~IsOdd(seq1[t])' /\ began'[t] <= arrived'
             /\ lag + 1 < SeqModulus =>
                  seq' = IF seq1[t] + (lag + 1) < SeqModulus
                         THEN seq1[t] + (lag + 1) ELSE seq1[t] + (lag + 1) - SeqModulus
             /\ lag + 1 # 0
  <2>1. /\ ~IsOdd(seq1[t]) /\ began[t] <= arrived
        /\ lag < SeqModulus =>
             seq = IF seq1[t] + lag < SeqModulus
                   THEN seq1[t] + lag ELSE seq1[t] + lag - SeqModulus
    BY <1>6, <1>8 DEF HeardInv
  <2>2. lag >= 0
    BY <1>5, <1>6, <2>1 DEF MemLag
  <2>3. ~IsOdd(seq1[t])' /\ began'[t] <= arrived'
    BY <1>2, <1>5, <2>1 DEF IsOdd
  <2>4. ASSUME lag + 1 < SeqModulus
        PROVE  seq' = IF seq1[t] + (lag + 1) < SeqModulus
                      THEN seq1[t] + (lag + 1) ELSE seq1[t] + (lag + 1) - SeqModulus
    <3>1. seq = IF seq1[t] + lag < SeqModulus
                THEN seq1[t] + lag ELSE seq1[t] + lag - SeqModulus
      BY <1>5, <2>1, <2>4
    <3>2. CASE seq + 1 = SeqModulus
      BY <1>3, <1>5, <2>2, <2>4, <3>1, <3>2 DEF Inc
    <3>3. CASE seq + 1 # SeqModulus
      BY <1>3, <1>5, <2>2, <2>4, <3>1, <3>3 DEF Inc
    <3> QED
      BY <3>2, <3>3
  <2> QED
    BY <2>2, <2>3, <2>4
<1>9. ASSUME MemPc(t) = "accepted", span[t] < SeqModulus
      PROVE  \A w \in Words : 2 * copied'[t][w] = began'[t]
  BY <1>2, <1>9 DEF HeardInv
<1> QED
  BY <1>2, <1>4, <1>7, <1>8, <1>9 DEF HeardInv

\* A trip begins with none of the words loaded.
LEMMA HeardSeq1 ==
  ASSUME BInv, NEW t \in Threads, LoadSeq1(t)
  PROVE  HeardInv(t)'
PROOF
<1>1. /\ pc \in [Threads -> {"idle", "begin", "copy", "accepted"}]
      /\ trip \in [Threads -> SUBSET Loads] /\ seq1 \in [Threads -> Seqs]
      /\ todo \in [Threads -> SUBSET Words] /\ began \in [Threads -> Int]
      /\ seq \in Nat /\ seq < SeqModulus /\ arrived \in Nat
  BY DEF BInv, BTypeOK, TypeOK, Seqs
<1>2. /\ ~IsOdd(seq)
      /\ seq1' = [seq1 EXCEPT ![t] = seq] /\ todo' = [todo EXCEPT ![t] = Words]
      /\ began' = [began EXCEPT ![t] = arrived] /\ pc' = [pc EXCEPT ![t] = "copy"]
      /\ trip' = [trip EXCEPT ![t] = Loads \ {"seq1"}]
      /\ UNCHANGED <<seq, arrived>>
  BY Seq1Is DEF LoadSeq1, shared
<1>3. /\ seq1'[t] = seq /\ todo'[t] = Words /\ began'[t] = arrived /\ pc'[t] = "copy"
      /\ trip'[t] = Loads \ {"seq1"}
  BY <1>1, <1>2
<1>4. MemPc(t)' = "copy"
  <2>1. Loads \ {"seq1"} # {}
    BY LoadsApart
  <2> QED
    BY <1>3, <2>1 DEF MemPc
<1>5. MemLag(t)' = 0
  BY <1>1, <1>2, <1>3 DEF MemLag
<1>6. ~IsOdd(seq1[t])'
  BY <1>2, <1>3 DEF IsOdd
<1>7. seq' = IF seq1'[t] + 0 < SeqModulus THEN seq1'[t] + 0 ELSE seq1'[t] + 0 - SeqModulus
  BY <1>1, <1>2, <1>3
<1> QED
  BY <1>1, <1>2, <1>3, <1>4, <1>5, <1>6, <1>7 DEF HeardInv

\* A word loaded before any store to seq has arrived belongs to the message of seq1.
LEMMA HeardWord ==
  ASSUME BInv, NEW t \in Threads, HeardInv(t), NEW w \in Words, LoadEntryWord(t, w)
  PROVE  HeardInv(t)'
PROOF
<1>1. /\ trip \in [Threads -> SUBSET Loads] /\ todo \in [Threads -> SUBSET Words]
      /\ copied \in [Threads -> [Words -> Messages]] /\ BTypeOK /\ WritesInv /\ WordsInv
  BY DEF BInv, BTypeOK, TypeOK
<1>2. /\ w \in todo[t] /\ trip[t] = {"seq2"} \cup todo[t] /\ pc[t] = "copy"
      /\ copied' = [copied EXCEPT ![t][w] = entry[w]]
      /\ todo' = [todo EXCEPT ![t] = @ \ {w}] /\ trip' = [trip EXCEPT ![t] = @ \ {w}]
      /\ UNCHANGED <<seq, pc, seq1, began, span, arrived>>
  BY WordIs DEF LoadEntryWord, shared
<1>3. MemPc(t) = "copy" /\ MemPc(t)' = "copy"
  <2>1. "seq2" \in trip[t] /\ "seq2" \in trip'[t]
    BY <1>1, <1>2, LoadsApart
  <2> QED
    BY <1>2, <2>1 DEF MemPc
<1>4. MemLag(t)' = MemLag(t)
  BY <1>2 DEF MemLag
<1>5. ASSUME MemLag(t) = 0, NEW v \in Words \ todo'[t]
      PROVE  2 * copied'[t][v] = began[t]
  <2>1. copied'[t][v] = (IF v = w THEN entry[w] ELSE copied[t][v]) /\ todo'[t] = todo[t] \ {w}
    BY <1>1, <1>2
  <2>2. CASE v = w
    <3>1. seq = seq1[t] /\ ~IsOdd(seq1[t]) /\ began[t] = arrived
      <4>1. /\ seq1[t] \in Nat /\ seq1[t] < SeqModulus /\ SeqModulus \in Nat
            /\ began[t] \in Int /\ arrived \in Nat
        BY LoadedSeqs
      <4>2. /\ ~IsOdd(seq1[t])
            /\ MemLag(t) < SeqModulus =>
                 seq = IF seq1[t] + MemLag(t) < SeqModulus
                       THEN seq1[t] + MemLag(t) ELSE seq1[t] + MemLag(t) - SeqModulus
        BY <1>3 DEF HeardInv
      <4>3. seq1[t] + 0 = seq1[t] /\ 0 < SeqModulus
        BY <4>1
      <4>4. seq = seq1[t]
        BY <1>5, <4>1, <4>2, <4>3
      <4>5. began[t] = arrived
        BY <1>5, <4>1 DEF MemLag
      <4> QED
        BY <4>2, <4>4, <4>5
    <3>2. ~MemWriting
      BY <1>1, <3>1 DEF WritesInv, MemWriting
    <3>3. arrived = 2 * MemWritten /\ entry[w] = MemWritten
      BY <1>1, <3>2, Halves DEF WordsInv
    <3> QED
      BY <2>1, <2>2, <3>1, <3>3
  <2>3. CASE v # w
    BY <1>3, <1>5, <2>1, <2>3 DEF HeardInv
  <2> QED
    BY <2>2, <2>3
<1> QED
  BY <1>2, <1>3, <1>4, <1>5 DEF HeardInv, IsOdd

\* A seq2 that is seq1, with no wrap between, means that no store came between.
LEMMA HeardSeq2 ==
  ASSUME BInv, NEW t \in Threads, HeardInv(t), LoadSeq2(t)
  PROVE  HeardInv(t)'
PROOF
<1>1. /\ trip \in [Threads -> SUBSET Loads] /\ seq2 \in [Threads -> Seqs]
      /\ span \in [Threads -> Int] /\ SeqModulus \in Nat
      /\ seq1[t] \in Nat /\ seq1[t] < SeqModulus /\ began[t] \in Int /\ arrived \in Nat
  BY DEF BInv, BTypeOK, TypeOK, Seqs
<1>2. /\ pc[t] = "copy" /\ todo[t] = {} /\ trip[t] = {"seq2"}
      /\ seq2' = [seq2 EXCEPT ![t] = seq] /\ span' = [span EXCEPT ![t] = arrived - began[t]]
      /\ trip' = [trip EXCEPT ![t] = @ \ {"seq2"}]
      /\ UNCHANGED <<pc, seq1, copied, began>>
  BY Seq2Is DEF LoadSeq2
<1>3. trip'[t] = {} /\ seq2'[t] = seq /\ span'[t] = MemLag(t) /\ pc'[t] = "copy"
  BY <1>1, <1>2 DEF MemLag
<1>4. MemPc(t) = "copy" /\ MemPc(t)' = IF seq = seq1[t] THEN "accepted" ELSE "begin"
  BY <1>2, <1>3 DEF MemPc
<1>5. ASSUME seq = seq1[t], MemLag(t) < SeqModulus
      PROVE  \A w \in Words : 2 * copied[t][w] = began[t]
  <2>1. PICK lag \in Int : lag = MemLag(t)
    BY <1>1 DEF MemLag
  <2>2. lag >= 0
    BY <1>1, <1>4, <2>1 DEF HeardInv, MemLag
  <2>3. seq = IF seq1[t] + lag < SeqModulus THEN seq1[t] + lag ELSE seq1[t] + lag - SeqModulus
    BY <1>4, <1>5, <2>1 DEF HeardInv
  <2>4. lag = 0
    BY <1>1, <1>5, <2>1, <2>2, <2>3
  <2> QED
    BY <1>2, <1>4, <2>1, <2>4 DEF HeardInv
<1> QED
  BY <1>2, <1>3, <1>4, <1>5 DEF HeardInv

\* A step of another thread tells it nothing.
LEMMA HeardByOther ==
  ASSUME BInv, NEW t \in Threads, NEW u \in Threads, u # t, HeardInv(u),
         \/ StartRead(t) \/ LoadSeq1(t) \/ LoadSeq2(t) \/ EndTrip(t) \/ EndRead(t)
         \/ \E w \in Words : LoadEntryWord(t, w)
  PROVE  HeardInv(u)'
PROOF
<1>1. /\ UNCHANGED <<seq, arrived>> /\ pc'[u] = pc[u] /\ trip'[u] = trip[u]
      /\ seq1'[u] = seq1[u] /\ seq2'[u] = seq2[u] /\ began'[u] = began[u] /\ span'[u] = span[u]
      /\ copied'[u] = copied[u] /\ todo'[u] = todo[u]
  <2>1. /\ pc \in [Threads -> {"idle", "begin", "copy", "accepted"}]
        /\ trip \in [Threads -> SUBSET Loads] /\ seq1 \in [Threads -> Seqs]
        /\ seq2 \in [Threads -> Seqs] /\ todo \in [Threads -> SUBSET Words]
        /\ began \in [Threads -> Int] /\ span \in [Threads -> Int]
        /\ copied \in [Threads -> [Words -> Messages]]
    BY DEF BInv, BTypeOK, TypeOK
  <2>2. CASE StartRead(t)
    BY <2>1, <2>2 DEF StartRead, Call, shared
  <2>3. CASE LoadSeq1(t)
    BY <2>1, <2>3 DEF LoadSeq1, shared
  <2>4. CASE LoadSeq2(t)
    BY <2>1, <2>4 DEF LoadSeq2, shared
  <2>5. CASE EndTrip(t)
    BY <2>1, <2>5 DEF EndTrip, shared
  <2>6. CASE EndRead(t)
    BY <2>1, <2>6 DEF EndRead, Return, shared
  <2>7. CASE \E w \in Words : LoadEntryWord(t, w)
    BY <2>1, <2>7 DEF LoadEntryWord, shared
  <2> QED
    BY <2>2, <2>3, <2>4, <2>5, <2>6, <2>7
<1>2. MemPc(u)' = MemPc(u)
  BY <1>1 DEF MemPc
<1> QED
  BY <1>1, <1>2, HeardLeft

\* What each thread has loaded, in every reachable state.
LEMMA HeardKept ==
  ASSUME BInv, [BNext]_bvars, \A t \in Threads : HeardInv(t), NEW u \in Threads
  PROVE  HeardInv(u)'
PROOF
<1>1. HeardInv(u)
  OBVIOUS
<1>2. ASSUME UNCHANGED <<seq, arrived, reader, trip, seq2>> PROVE HeardInv(u)'
  BY <1>1, <1>2, HeardLeft DEF reader, MemPc
<1>3. CASE IssueWriteBegin \/ (\E w \in Words : IssueStoreWord(w)) \/ IssueWriteEnd \/ PassBarrier
  BY <1>2, <1>3
  DEF IssueWriteBegin, IssueStoreWord, IssueWriteEnd, PassBarrier, vars, shared
<1>4. ASSUME NEW i \in DOMAIN sb, Drain(i) PROVE HeardInv(u)'
  <2>1. CASE DrainSeq(i)
    BY <1>1, <2>1, HeardStore
  <2>2. CASE DrainWord(i)
    BY <1>2, <2>2 DEF DrainWord
  <2> QED
    BY <1>4, <2>1, <2>2, DrainIs
<1>5. ASSUME NEW t \in Threads,
             \/ StartRead(t) \/ LoadSeq1(t) \/ LoadSeq2(t) \/ EndTrip(t) \/ EndRead(t)
             \/ \E w \in Words : LoadEntryWord(t, w)
      PROVE  HeardInv(u)'
  <2>1. CASE u # t
    BY <1>1, <1>5, <2>1, HeardByOther
  <2>2. CASE u = t /\ (StartRead(t) \/ EndRead(t))
    <3>1. pc'[u] \in {"idle", "begin"}
      BY <2>2 DEF BInv, BTypeOK, TypeOK, StartRead, Call, EndRead, Return
    <3>2. MemPc(u)' # "copy" /\ MemPc(u)' # "accepted"
      BY <3>1 DEF MemPc
    <3> QED
      BY <3>2 DEF HeardInv
  <2>3. CASE u = t /\ EndTrip(t)
    <3>1. UNCHANGED <<seq, arrived, seq1, todo, copied, began, span, seq2>>
      BY <2>3 DEF EndTrip, shared
    <3>2. MemPc(u)' = MemPc(u)
      <4>1. /\ pc[u] = "copy" /\ trip[u] = {}
            /\ \/ /\ seq2[u] # seq1[u] /\ pc'[u] = "begin"
               \/ seq2[u] = seq1[u] /\ pc'[u] = "accepted"
        BY <2>3 DEF BInv, BTypeOK, TypeOK, EndTrip
      <4> QED
        BY <4>1 DEF MemPc
    <3> QED
      BY <1>1, <3>1, <3>2, HeardLeft
  <2>4. CASE u = t /\ LoadSeq1(t)
    BY <2>4, HeardSeq1
  <2>5. CASE u = t /\ LoadSeq2(t)
    BY <1>1, <2>5, HeardSeq2
  <2>6. CASE u = t /\ (\E w \in Words : LoadEntryWord(t, w))
    BY <1>1, <2>6, HeardWord
  <2> QED
    BY <1>5, <2>1, <2>2, <2>3, <2>4, <2>5, <2>6
<1>6. ASSUME NEW h \in Handles, ReopenObject(h) PROVE HeardInv(u)'
  BY <1>2, <1>6 DEF ReopenObject, Reopen, shared
<1>7. CASE UNCHANGED bvars
  BY <1>2, <1>7 DEF bvars, vars, shared
<1> QED
  BY <1>3, <1>4, <1>5, <1>6, <1>7 DEF BNext

(* On a machine that reorders stores and loads as far as the barriers of      *)
(* smp.h let it, what the read loop lets through is one whole message, the    *)
(* newest when it loaded seq1, unless seq came round to where it was.         *)
THEOREM BarriersNeverTorn == BSpec => []AcceptedUntorn
PROOF
<1> DEFINE Heard == \A t \in Threads : HeardInv(t)
<1>1. BInit => Heard
  BY DEF BInit, Init, HeardInv, MemPc
<1>2. BInv /\ Heard /\ [BNext]_bvars => Heard'
  BY HeardKept
<1>3. Heard => AcceptedUntorn
  BY DEF HeardInv, MemPc, AcceptedUntorn
<1> HIDE DEF Heard
<1> QED
  BY <1>1, <1>2, <1>3, Buffered, PTL DEF BSpec
=============================================================================
