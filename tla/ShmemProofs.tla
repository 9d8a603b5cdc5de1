----------------------------- MODULE ShmemProofs -----------------------------
(* Proofs about Shmem, for every number of names, processes, objects, types *)
(* and segments.                                                            *)
EXTENDS Shmem, TLAPS

\* The types that come to one name are of one size, a cache line or two for
\* most structs, since seq_lock is aligned to cache lines.
OneSize == \A T, U \in Types : DataCells[T] = DataCells[U]

\* typeinfo_hash tells the types apart.
DistinctHashes == \A T, U \in Types : HashOf[T] = HashOf[U] => T = U

-----------------------------------------------------------------------------
(* Cells and what is in them.                                               *)

\* The places of a type are ordered: data, hash, format.
LEMMA Layout ==
  ASSUME NEW T \in Types
  PROVE  /\ 0 \in Cells
         /\ HashCell(T) \in Cells
         /\ HashCell(T) \in Nat \ {0}
         /\ 0 < SizeOf(T) /\ HashCell(T) < SizeOf(T)
         /\ SizeOf(T) \in Nat
         /\ \A k \in FormatRange(T) : k \in Nat /\ HashCell(T) < k
  <1>1. DataCells[T] \in Nat /\ DataCells[T] > 0 /\ FormatCells[T] \in Nat
    BY ShmemAssumption DEF ShmemAssumption
  <1>2. \A k \in 0..(DataCells[T] + FormatCells[T]) : k \in Cells
    BY DEF Cells
  <1> QED
    BY <1>1, <1>2 DEF HashCell, SizeOf, FormatRange

\* There is a first cell.
LEMMA SomeCell == 0 \in Cells
  BY Layout, ShmemAssumption DEF ShmemAssumption

\* Cells are numbers.
LEMMA CellsAreNumbers ==
  \A k \in Cells : k \in Nat
  BY ShmemAssumption DEF Cells, ShmemAssumption

\* A hash is never taken for the zero of an empty tailer, nor for data.
LEMMA HashIsNotZero ==
  ASSUME NEW T \in Types
  PROVE  Hash(T) # Zero
  BY DEF Hash, Zero

\* What is stored is a value.
LEMMA ValuesStored ==
  /\ Zero \in Values
  /\ \A T \in Types : Hash(T) \in Values /\ Format(T) \in Values
  /\ \A n \in Messages : Data(n) \in Values
  BY DEF Values

\* The messages in a segment are counted in its first cell.
LEMMA CountIsNat ==
  ASSUME TypeOK, NEW i \in Segments
  PROVE  Count(i) \in Messages
  <1>1. cell[i][0] = Zero \/ \E n \in Messages : cell[i][0] = Data(n)
    BY DEF TypeOK
  <1>2. CASE cell[i][0] = Zero
    BY <1>2, ShmemAssumption DEF Count, Zero, Messages, ShmemAssumption
  <1>3. CASE \E n \in Messages : cell[i][0] = Data(n)
    BY <1>3 DEF Count, Data
  <1> QED
    BY <1>1, <1>2, <1>3

-----------------------------------------------------------------------------
(* Type correctness.                                                        *)

\* The initial state has its types.
LEMMA InitTypeOK == Init => TypeOK
  <1> SUFFICES ASSUME Init
               PROVE  TypeOK
    OBVIOUS
  <1>1. 0 \in Messages
    BY ShmemAssumption DEF Messages, ShmemAssumption
  <1>2. cell \in [Segments -> [Cells -> Values]]
    BY ValuesStored DEF Init
  <1>3. \A i \in Segments : cell[i][0] = Zero
    BY SomeCell DEF Init
  <1>4. last \in [Objects -> (Segments \cup {NoSegment}) \X Messages]
    BY <1>1 DEF Init, NoMessage
  <1> QED
    BY <1>1, <1>2, <1>3, <1>4 DEF Init, TypeOK, Stages

\* Construction keeps the types, step by step of init().
LEMMA ConstructionTypeOK ==
  ASSUME TypeOK, NEW o \in Objects
  PROVE  /\ \A n \in Names : ShmOpen(o, n) => TypeOK'
         /\ Truncate(o) => TypeOK'
         /\ Map(o) => TypeOK'
         /\ SetFormat(o) => TypeOK'
         /\ CmpXch(o) => TypeOK'
  <1>t. TypeOf[o] \in Types
    BY ShmemAssumption DEF ShmemAssumption
  <1>1. ASSUME NEW n \in Names, ShmOpen(o, n)
        PROVE  TypeOK'
    <2>p. pc' \in [Objects -> Stages]
      BY <1>1 DEF TypeOK, ShmOpen, Goto, Stages
    <2>d. dir' \in [Names -> Segments \cup {NoSegment}]
      BY <1>1 DEF TypeOK, ShmOpen, system
    <2>f. fd' \in [Objects -> Segments \cup {NoSegment}]
      BY <1>1 DEF TypeOK, ShmOpen
    <2>1. size' \in [Segments -> Nat]
      BY <1>1 DEF TypeOK, ShmOpen, system
    <2>2. cell' \in [Segments -> [Cells -> Values]]
      BY <1>1, ValuesStored DEF TypeOK, ShmOpen, system
    <2>3. \A i \in Segments : cell'[i][0] \in {Zero} \cup {Data(m) : m \in Messages}
      BY <1>1, SomeCell DEF TypeOK, ShmOpen, system
    <2>4. \A q \in Objects :
            /\ pc'[q] \in {"opened", "sized"} <=> fd'[q] # NoSegment
            /\ pc'[q] \in {"mapped", "formatted", "checking", "attached"} <=> buf'[q] # NoSegment
      BY <1>1, ShmemAssumption DEF TypeOK, ShmOpen, Goto, ShmemAssumption
    <2> QED
      BY <1>1, <2>p, <2>d, <2>f, <2>1, <2>2, <2>3, <2>4 DEF TypeOK, ShmOpen, state
  <1>2. ASSUME Truncate(o)
        PROVE  TypeOK'
    <2>1. fd[o] \in Segments
      BY <1>2 DEF TypeOK, Truncate
    <2>2. size' \in [Segments -> Nat] /\ pc' \in [Objects -> Stages]
      BY <1>2, <1>t, Layout DEF TypeOK, Truncate, Goto, Stages
    <2>3. cell' \in [Segments -> [Cells -> Values]]
      BY <1>2, <2>1, ValuesStored DEF TypeOK, Truncate
    <2>4. \A i \in Segments : cell'[i][0] \in {Zero} \cup {Data(m) : m \in Messages}
      BY <1>2, <2>1, SomeCell DEF TypeOK, Truncate
    <2> QED
      BY <1>2, <2>2, <2>3, <2>4 DEF TypeOK, Truncate, state, Goto
  <1>3. ASSUME Map(o)
        PROVE  TypeOK'
    BY <1>3 DEF TypeOK, Map, Goto, Stages, state, system
  <1>4. ASSUME SetFormat(o)
        PROVE  TypeOK'
    <2>1. buf[o] \in Segments /\ pc' \in [Objects -> Stages]
      BY <1>4 DEF TypeOK, SetFormat, Goto, Stages
    <2>2. cell' \in [Segments -> [Cells -> Values]]
      BY <1>4, <1>t, <2>1, ValuesStored DEF TypeOK, SetFormat
    <2>3. 0 \notin FormatRange(TypeOf[o])
      BY <1>t, Layout
    <2>4. \A i \in Segments : cell'[i][0] = cell[i][0]
      BY <1>4, <2>1, <2>3, SomeCell DEF TypeOK, SetFormat
    <2> QED
      BY <1>4, <2>1, <2>2, <2>4 DEF TypeOK, SetFormat, state, Goto
  <1>5. ASSUME CmpXch(o)
        PROVE  TypeOK'
    <2>1. buf[o] \in Segments /\ pc' \in [Objects -> Stages]
      BY <1>5 DEF TypeOK, CmpXch, Goto, Stages
    <2>2. cell' \in [Segments -> [Cells -> Values]]
      <3>1. Hash(TypeOf[o]) \in Values
        BY <1>t, ValuesStored
      <3>2. CASE UNCHANGED cell
        BY <3>2 DEF TypeOK
      <3>3. CASE cell' = [cell EXCEPT ![buf[o]][HashCell(TypeOf[o])] = Hash(TypeOf[o])]
        BY <2>1, <3>1, <3>3 DEF TypeOK
      <3> QED
        BY <1>5, <3>2, <3>3 DEF CmpXch
    <2>3. \A i \in Segments : cell'[i][0] = cell[i][0]
      <3>1. HashCell(TypeOf[o]) # 0
        BY <1>t, Layout
      <3>2. CASE cell' = [cell EXCEPT ![buf[o]][HashCell(TypeOf[o])] = Hash(TypeOf[o])]
        BY <2>1, <3>1, <3>2, SomeCell DEF TypeOK
      <3> QED
        BY <1>5, <3>2 DEF CmpXch
    <2> QED
      BY <1>5, <2>1, <2>2, <2>3 DEF TypeOK, CmpXch, state, Goto
  <1> QED
    BY <1>1, <1>2, <1>3, <1>4, <1>5

\* Use and letting go keep the types.
LEMMA UseTypeOK ==
  ASSUME TypeOK
  PROVE  /\ \A p \in Procs : Die(p) /\ UNCHANGED system => TypeOK'
         /\ \A o \in Objects : Validate(o) => TypeOK'
         /\ \A o \in Objects : Write(o) => TypeOK'
         /\ \A o \in Objects : Read(o) => TypeOK'
         /\ \A o, q \in Objects : Move(o, q) => TypeOK'
         /\ \A o \in Objects : Destroy(o) => TypeOK'
         /\ \A n \in Names : Unlink(n) => TypeOK'
  <1>z. 0 \in Messages
    BY ShmemAssumption DEF Messages, ShmemAssumption
  <1>1. ASSUME NEW p \in Procs, Die(p), UNCHANGED system
        PROVE  TypeOK'
    BY <1>1, <1>z DEF TypeOK, Die, system, Stages, NoMessage
  <1>2. ASSUME NEW o \in Objects, Validate(o)
        PROVE  TypeOK'
    <2>1. ProcOf[o] \in Procs
      BY ShmemAssumption DEF ShmemAssumption
    <2>2. CASE Die(ProcOf[o])
      BY <1>1, <1>2, <2>1, <2>2 DEF Validate
    <2>3. CASE Goto(o, "attached") /\ UNCHANGED <<fd, buf, state>>
      BY <1>2, <2>3 DEF TypeOK, Validate, Goto, Stages, state, system
    <2> QED
      BY <1>2, <2>2, <2>3 DEF Validate
  <1>3. ASSUME NEW o \in Objects, Write(o)
        PROVE  TypeOK'
    <2> DEFINE n == Count(buf[o]) + 1
    <2>1. buf[o] \in Segments
      BY <1>3 DEF TypeOK, Write
    <2>2. n \in Messages
      BY <1>3, <2>1, CountIsNat, ShmemAssumption DEF Write, Messages, ShmemAssumption
    <2>3. Data(n) \in Values
      BY <2>2, ValuesStored
    <2>4. cell' \in [Segments -> [Cells -> Values]]
      BY <1>3, <2>1, <2>3 DEF TypeOK, Write
    <2>5. \A i \in Segments : cell'[i][0] = cell[i][0] \/ cell'[i][0] = Data(n)
      BY <1>3, <2>1, SomeCell DEF TypeOK, Write
    <2>6. \A i \in Segments : cell'[i][0] \in {Zero} \cup {Data(m) : m \in Messages}
      BY <2>2, <2>5 DEF TypeOK
    <2> QED
      BY <1>3, <2>4, <2>6 DEF TypeOK, Write, state
  <1>4. ASSUME NEW o \in Objects, Read(o)
        PROVE  TypeOK'
    <2>1. buf[o] \in Segments
      BY <1>4 DEF TypeOK, Read, Reads
    <2>2. Count(buf[o]) \in Messages
      BY <2>1, CountIsNat
    <2> QED
      BY <1>4, <2>1, <2>2 DEF TypeOK, Read, Newest, system
  <1>5. ASSUME NEW o \in Objects, NEW q \in Objects, Move(o, q)
        PROVE  TypeOK'
    <2>1. /\ pc' \in [Objects -> Stages]
          /\ buf' \in [Objects -> Segments \cup {NoSegment}]
      BY <1>5 DEF TypeOK, Move, Stages
    <2>2. \A r \in Objects :
            /\ pc'[r] \in {"opened", "sized"} <=> fd'[r] # NoSegment
            /\ pc'[r] \in {"mapped", "formatted", "checking", "attached"} <=> buf'[r] # NoSegment
      BY <1>5 DEF TypeOK, Move
    <2>3. /\ prev_seq' \in [Objects -> Messages]
          /\ has_read_once' \in [Objects -> BOOLEAN]
          /\ last' \in [Objects -> (Segments \cup {NoSegment}) \X Messages]
      BY <1>5 DEF TypeOK, Move
    <2> QED
      BY <1>5, <2>1, <2>2, <2>3 DEF TypeOK, Move, system
  <1>6. ASSUME NEW o \in Objects, Destroy(o)
        PROVE  TypeOK'
    BY <1>6, <1>z DEF TypeOK, Destroy, Goto, Stages, NoMessage, system
  <1>7. ASSUME NEW n \in Names, Unlink(n)
        PROVE  TypeOK'
    BY <1>7 DEF TypeOK, Unlink, state
  <1> QED
    BY <1>1, <1>2, <1>3, <1>4, <1>5, <1>6, <1>7

\* Every step keeps the types.
LEMMA TypeStep == TypeOK /\ [Next]_vars => TypeOK'
  <1> SUFFICES ASSUME TypeOK, [Next]_vars
               PROVE  TypeOK'
    OBVIOUS
  <1>1. CASE UNCHANGED vars
    BY <1>1 DEF TypeOK, vars, system, state
  <1>2. ASSUME NEW o \in Objects, ObjectStep(o)
        PROVE  TypeOK'
    BY <1>2, ConstructionTypeOK, UseTypeOK DEF ObjectStep
  <1>3. ASSUME NEW p \in Procs, Crash(p)
        PROVE  TypeOK'
    BY <1>3, UseTypeOK DEF Crash
  <1>4. ASSUME NEW n \in Names, Unlink(n)
        PROVE  TypeOK'
    BY <1>4, UseTypeOK
  <1> QED
    BY <1>1, <1>2, <1>3, <1>4 DEF Next

\* Every variable keeps its type, and an object has a mapping from mmap until
\* it is moved from or destroyed.
THEOREM TypeCorrect == Spec => []TypeOK
  BY InitTypeOK, TypeStep, PTL DEF Spec

-----------------------------------------------------------------------------
(* One type to a segment.                                                   *)

\* Where the hash of an object's type was found or stored, it stays.
HashInv ==
  \A o \in Objects : pc[o] = "attached" => HashFound(o) = Hash(TypeOf[o])

\* With types of one size, construction keeps whatever hash is there.
LEMMA HashCellKept ==
  ASSUME OneSize, TypeOK, [Next]_vars,
         NEW i \in Segments, InUse(i),
         NEW U \in Types, cell[i][HashCell(U)] # Zero
  PROVE  cell'[i][HashCell(U)] = cell[i][HashCell(U)]
  <1> DEFINE h == HashCell(U)
  <1>h. h \in Cells /\ h \in Nat
    BY Layout
  <1>1. CASE UNCHANGED cell
    BY <1>1
  <1>2. ASSUME NEW o \in Objects, ObjectStep(o)
        PROVE  cell'[i][h] = cell[i][h]
    <2>t. TypeOf[o] \in Types /\ HashCell(TypeOf[o]) = h
      BY ShmemAssumption DEF ShmemAssumption, OneSize, HashCell
    <2>1. ASSUME NEW n \in Names, ShmOpen(o, n)
          PROVE  cell'[i][h] = cell[i][h]
      BY <2>1 DEF ShmOpen, system, TypeOK
    <2>2. CASE Truncate(o)
      <3>1. SizeOf(TypeOf[o]) \in Nat /\ h < SizeOf(TypeOf[o])
        BY <2>t, Layout
      <3>2. fd[o] \in Segments
        BY <2>2 DEF Truncate, TypeOK
      <3> QED
        BY <1>h, <2>2, <3>1, <3>2 DEF Truncate, TypeOK
    <2>3. CASE SetFormat(o)
      <3>1. h \notin FormatRange(TypeOf[o])
        BY <1>h, <2>t, Layout
      <3> QED
        BY <1>h, <2>3, <3>1 DEF SetFormat, TypeOK
    <2>4. CASE CmpXch(o)
      <3>1. CASE buf[o] = i
        BY <2>4, <2>t, <3>1 DEF CmpXch, HashFound
      <3>2. CASE buf[o] # i
        BY <2>4, <3>2 DEF CmpXch, TypeOK
      <3> QED
        BY <3>1, <3>2
    <2>5. CASE Write(o)
      <3>1. ~(h < DataCells[TypeOf[o]])
        BY <1>h, <2>t DEF HashCell
      <3> QED
        BY <1>h, <2>5, <3>1 DEF Write, TypeOK
    <2>6. CASE \/ Map(o) \/ Validate(o) \/ Read(o) \/ Destroy(o)
               \/ \E q \in Objects : Move(o, q)
      BY <1>1, <2>6 DEF Map, Validate, Read, Destroy, Move, system
    <2> QED
      BY <1>2, <2>1, <2>2, <2>3, <2>4, <2>5, <2>6 DEF ObjectStep
  <1>3. CASE \E p \in Procs : Crash(p)
    BY <1>1, <1>3 DEF Crash, system
  <1>4. CASE \E n \in Names : Unlink(n)
    BY <1>1, <1>4 DEF Unlink
  <1>5. CASE UNCHANGED vars
    BY <1>1, <1>5 DEF vars, system
  <1> QED
    BY <1>2, <1>3, <1>4, <1>5 DEF Next

\* An object that is attached after a step was so before, or got its mapping
\* from one of its type that was, or has just stored or found its hash.
LEMMA HowAttached ==
  ASSUME TypeOK, [Next]_vars, NEW r \in Objects, pc'[r] = "attached"
  PROVE  \/ \E o \in Objects :
              /\ pc[o] = "attached"
              /\ buf'[r] = buf[o]
              /\ TypeOf[r] = TypeOf[o]
         \/ CmpXch(r) /\ HashFound(r) = Zero
         \/ /\ Validate(r)
            /\ HashFound(r) = Hash(TypeOf[r])
            /\ buf'[r] = buf[r]
  <1> DEFINE Before == pc[r] = "attached" /\ buf'[r] = buf[r]
  <1>1. ASSUME NEW o \in Objects, ObjectStep(o), ~CmpXch(o), ~Validate(o),
               \A q \in Objects : ~Move(o, q)
        PROVE  Before
    <2>1. ASSUME NEW n \in Names, ShmOpen(o, n)
          PROVE  Before
      BY <2>1 DEF ShmOpen, Goto, TypeOK
    <2>2. CASE Truncate(o) \/ Map(o) \/ SetFormat(o)
      BY <2>2 DEF Truncate, Map, SetFormat, Goto, TypeOK
    <2>3. CASE Write(o) \/ Read(o)
      BY <2>3 DEF Write, Read
    <2>4. CASE Destroy(o)
      BY <2>4 DEF Destroy, Goto, TypeOK
    <2> QED
      BY <1>1, <2>1, <2>2, <2>3, <2>4 DEF ObjectStep
  <1>2. ASSUME NEW o \in Objects, CmpXch(o)
        PROVE  Before \/ (CmpXch(r) /\ HashFound(r) = Zero)
    BY <1>2 DEF CmpXch, Goto, TypeOK
  <1>3. ASSUME NEW p \in Procs, Die(p)
        PROVE  Before
    BY <1>3 DEF Die
  <1>4. ASSUME NEW o \in Objects, Validate(o)
        PROVE  \/ Before
               \/ Validate(r) /\ HashFound(r) = Hash(TypeOf[r]) /\ buf'[r] = buf[r]
    <2>1. CASE Die(ProcOf[o])
      BY <1>3, <2>1, ShmemAssumption DEF ShmemAssumption
    <2>2. CASE ~Die(ProcOf[o])
      BY <1>4, <2>2 DEF Validate, Goto, TypeOK
    <2> QED
      BY <2>1, <2>2
  <1>5. ASSUME NEW o \in Objects, NEW q \in Objects, Move(o, q)
        PROVE  Before \/ (r = q /\ pc[o] = "attached" /\ buf'[r] = buf[o] /\ TypeOf[o] = TypeOf[r])
    BY <1>5 DEF Move, TypeOK
  <1>6. CASE \E n \in Names : Unlink(n)
    BY <1>6 DEF Unlink
  <1>7. CASE UNCHANGED vars
    BY <1>7 DEF vars
  <1> QED
    BY <1>1, <1>2, <1>3, <1>4, <1>5, <1>6, <1>7 DEF Next, Crash

\* Every step keeps the hashes of attached objects where they are.
LEMMA HashStep ==
  ASSUME OneSize
  PROVE  TypeOK /\ HashInv /\ [Next]_vars => HashInv'
  <1> SUFFICES ASSUME TypeOK, HashInv, [Next]_vars,
                      NEW r \in Objects, pc'[r] = "attached"
               PROVE  HashFound(r)' = Hash(TypeOf[r])
    BY DEF HashInv, Hash
  <1>t. TypeOf[r] \in Types
    BY ShmemAssumption DEF ShmemAssumption
  <1>1. ASSUME NEW o \in Objects, pc[o] = "attached", buf'[r] = buf[o], TypeOf[r] = TypeOf[o]
        PROVE  HashFound(r)' = Hash(TypeOf[r])
    <2>1. buf[o] \in Segments /\ InUse(buf[o])
      BY <1>1 DEF TypeOK, InUse
    <2>2. cell[buf[o]][HashCell(TypeOf[r])] = Hash(TypeOf[r])
      BY <1>1 DEF HashInv, HashFound
    <2>3. cell'[buf[o]][HashCell(TypeOf[r])] = cell[buf[o]][HashCell(TypeOf[r])]
      BY <1>t, <2>1, <2>2, HashIsNotZero, HashCellKept
    <2> QED
      BY <1>1, <2>2, <2>3 DEF HashFound, HashCell
  <1>2. CASE CmpXch(r) /\ HashFound(r) = Zero
    <2>1. buf[r] \in Segments /\ HashCell(TypeOf[r]) \in Cells
      BY <1>2, <1>t, Layout DEF TypeOK, CmpXch
    <2>2. cell' = [cell EXCEPT ![buf[r]][HashCell(TypeOf[r])] = Hash(TypeOf[r])]
      BY <1>2 DEF CmpXch
    <2>3. cell'[buf[r]][HashCell(TypeOf[r])] = Hash(TypeOf[r])
      BY <2>1, <2>2 DEF TypeOK
    <2> QED
      BY <1>2, <2>3 DEF CmpXch, HashFound, HashCell
  <1>3. CASE Validate(r) /\ HashFound(r) = Hash(TypeOf[r]) /\ buf'[r] = buf[r]
    BY <1>3 DEF Validate, HashFound, HashCell, system
  <1> QED
    BY <1>1, <1>2, <1>3, HowAttached

\* Types of one size and distinct hashes never share a segment: whoever came
\* second was refused, in whatever order the steps of init() were taken.
THEOREM OneTypeToASegment ==
  ASSUME OneSize, DistinctHashes
  PROVE  Spec => []AttachedTypesAgree
  <1>1. Init => HashInv
    BY DEF Init, HashInv
  <1>2. HashInv => AttachedTypesAgree
    <2> SUFFICES ASSUME HashInv, NEW o \in Objects, NEW q \in Objects,
                        pc[o] = "attached", pc[q] = "attached", buf[o] = buf[q]
                 PROVE  TypeOf[o] = TypeOf[q]
      BY DEF AttachedTypesAgree
    <2>1. TypeOf[o] \in Types /\ TypeOf[q] \in Types
      BY ShmemAssumption DEF ShmemAssumption
    <2>2. HashCell(TypeOf[o]) = HashCell(TypeOf[q])
      BY <2>1 DEF OneSize, HashCell
    <2>3. Hash(TypeOf[o]) = Hash(TypeOf[q])
      BY <2>2 DEF HashInv, HashFound
    <2> QED
      BY <2>1, <2>3 DEF Hash, DistinctHashes
  <1>3. TypeOK /\ HashInv /\ [Next]_vars => HashInv'
    BY HashStep
  <1> QED
    BY <1>1, <1>2, <1>3, TypeCorrect, PTL DEF Spec

-----------------------------------------------------------------------------
(* What was written stays.                                                  *)

\* No step but a write changes a message.
LEMMA DataStep ==
  ASSUME OneSize, TypeOK, [Next]_vars,
         NEW i \in Segments, InUse(i), NEW k \in Cells, InData(k),
         ~(\E o \in Objects : buf[o] = i /\ Write(o))
  PROVE  cell'[i][k] = cell[i][k]
  <1>k. k \in Nat
    BY CellsAreNumbers
  <1>1. CASE UNCHANGED cell
    BY <1>1
  <1>2. ASSUME NEW o \in Objects, ObjectStep(o)
        PROVE  cell'[i][k] = cell[i][k]
    <2> DEFINE T == TypeOf[o]
    <2>t. /\ T \in Types
          /\ HashCell(T) \in Nat /\ SizeOf(T) \in Nat /\ HashCell(T) < SizeOf(T)
          /\ \A j \in FormatRange(T) : j \in Nat /\ HashCell(T) < j
      BY Layout, ShmemAssumption DEF ShmemAssumption
    <2>k. k < HashCell(T)
      BY <2>t DEF OneSize, InData, HashCell
    <2>1. ASSUME NEW n \in Names, ShmOpen(o, n)
          PROVE  cell'[i][k] = cell[i][k]
      BY <2>1 DEF ShmOpen, system, TypeOK
    <2>2. CASE Truncate(o)
      <3>1. ~(SizeOf(T) <= k)
        BY <1>k, <2>t, <2>k
      <3> QED
        BY <2>2, <3>1 DEF Truncate, TypeOK
    <2>3. CASE SetFormat(o)
      <3>1. k \notin FormatRange(T)
        BY <1>k, <2>t, <2>k
      <3> QED
        BY <2>3, <3>1 DEF SetFormat, TypeOK
    <2>4. CASE CmpXch(o)
      <3>1. k # HashCell(T)
        BY <1>k, <2>t, <2>k
      <3>2. CASE cell' = [cell EXCEPT ![buf[o]][HashCell(T)] = Hash(T)]
        BY <3>1, <3>2 DEF TypeOK
      <3> QED
        BY <1>1, <2>4, <3>2 DEF CmpXch
    <2>5. CASE Write(o)
      BY <2>5 DEF Write, TypeOK
    <2>6. CASE \/ Map(o) \/ Validate(o) \/ Read(o) \/ Destroy(o)
               \/ \E q \in Objects : Move(o, q)
      BY <1>1, <2>6 DEF Map, Validate, Read, Destroy, Move, system
    <2> QED
      BY <1>2, <2>1, <2>2, <2>3, <2>4, <2>5, <2>6 DEF ObjectStep
  <1>3. CASE \E p \in Procs : Crash(p)
    BY <1>1, <1>3 DEF Crash, system
  <1>4. CASE \E n \in Names : Unlink(n)
    BY <1>1, <1>4 DEF Unlink
  <1>5. CASE UNCHANGED vars
    BY <1>1, <1>5 DEF vars, system
  <1> QED
    BY <1>2, <1>3, <1>4, <1>5 DEF Next

\* With types of one size, what is in a segment is changed by writes only: not
\* by attaching, being refused, moving, dying, restarting or unlinking.
THEOREM DataSurvives ==
  ASSUME OneSize
  PROVE  Spec => DataOnlyByWrite
  <1>1. TypeOK /\ [Next]_vars
          => [\A i \in Segments : \A k \in Cells :
                InUse(i) /\ InData(k) /\ cell'[i][k] # cell[i][k]
                  => \E o \in Objects : buf[o] = i /\ Write(o)]_vars
    BY DataStep
  <1> QED
    BY <1>1, TypeCorrect, PTL DEF Spec, DataOnlyByWrite

-----------------------------------------------------------------------------
(* Reader objects remember what they delivered.                             *)

\* prev_seq and has_read_once stand for the message delivered last, and an
\* object that is not attached yet remembers nothing.
MemoryInv ==
  \A o \in Objects :
    /\ pc[o] \notin {"attached", "empty"} => ~has_read_once[o]
    /\ pc[o] # "empty" /\ ~has_read_once[o] => prev_seq[o] = 0
    /\ pc[o] = "attached" /\ has_read_once[o] => last[o] = <<buf[o], prev_seq[o]>>

\* Every step keeps what an object remembers.
LEMMA MemoryStep == TypeOK /\ MemoryInv /\ [Next]_vars => MemoryInv'
  <1> SUFFICES ASSUME TypeOK, MemoryInv, [Next]_vars
               PROVE  MemoryInv'
    OBVIOUS
  <1>1. ASSUME NEW p \in Procs, Die(p)
        PROVE  MemoryInv'
    BY <1>1 DEF Die, MemoryInv
  <1>2. ASSUME NEW o \in Objects, ObjectStep(o)
        PROVE  MemoryInv'
    <2>1. ASSUME NEW n \in Names, ShmOpen(o, n)
          PROVE  MemoryInv'
      BY <2>1 DEF ShmOpen, Goto, TypeOK, MemoryInv, state
    <2>2. CASE Truncate(o) \/ SetFormat(o) \/ CmpXch(o)
      BY <2>2 DEF Truncate, SetFormat, CmpXch, Goto, TypeOK, MemoryInv, state
    <2>3. CASE Map(o)
      BY <2>3 DEF Map, Goto, TypeOK, MemoryInv, state
    <2>4. CASE Validate(o)
      <3>1. CASE Die(ProcOf[o])
        BY <1>1, <3>1, ShmemAssumption DEF ShmemAssumption
      <3>2. CASE ~Die(ProcOf[o])
        BY <2>4, <3>2 DEF Validate, Goto, TypeOK, MemoryInv, state
      <3> QED
        BY <3>1, <3>2
    <2>5. CASE Write(o)
      BY <2>5 DEF Write, MemoryInv, state
    <2>6. CASE Read(o)
      BY <2>6 DEF Read, Reads, Newest, TypeOK, MemoryInv
    <2>7. CASE Destroy(o)
      BY <2>7 DEF Destroy, Goto, TypeOK, MemoryInv
    <2>8. ASSUME NEW q \in Objects, Move(o, q)
          PROVE  MemoryInv'
      BY <2>8 DEF Move, TypeOK, MemoryInv
    <2> QED
      BY <1>2, <2>1, <2>2, <2>3, <2>4, <2>5, <2>6, <2>7, <2>8 DEF ObjectStep
  <1>3. CASE \E n \in Names : Unlink(n)
    BY <1>3 DEF Unlink, MemoryInv, state
  <1>4. CASE UNCHANGED vars
    BY <1>4 DEF vars, MemoryInv, state
  <1> QED
    BY <1>1, <1>2, <1>3, <1>4 DEF Next, Crash

\* EAGAIN repeats the message the object itself delivered last, whatever moves,
\* restarts and unlinkings came before.
THEOREM EagainIsRepetition == Spec => []EagainRepeats
  <1>1. Init => MemoryInv
    BY DEF Init, MemoryInv
  <1>2. MemoryInv => EagainRepeats
    BY DEF MemoryInv, EagainRepeats, Reads, Answer, Newest
  <1> QED
    BY <1>1, <1>2, MemoryStep, TypeCorrect, PTL DEF Spec
=============================================================================
