---------------------------- MODULE IpcReadProofs ----------------------------
(***************************************************************************)
(* Proofs about Reflect and IpcRead, for every set of types.                *)
(***************************************************************************)
EXTENDS IpcRead, SequenceTheorems, WellFoundedInduction, TLAPS

\* What is still to be counted is within what the search has left.
SearchInv ==
  /\ todo \in Seq(Types)
  /\ phase = "binary" => n \in Nat /\ todo # <<>> /\ count(Head(todo)) <= 2 * n + 1
  /\ phase = "linear" => n \in Nat /\ todo # <<>> /\ count(Head(todo)) <= n
  /\ phase = "bind" => n \in Nat /\ todo # <<>> /\ n = count(Head(todo))

\* A type takes from one to as many initialisers as it has bits.
LEMMA CountBounded ==
  ASSUME NEW T \in Types
  PROVE  count(T) \in Nat /\ sizeof[T] * CHAR_BIT \in Nat /\ count(T) <= sizeof[T] * CHAR_BIT
PROOF
<1>1. /\ sizeof[T] \in Nat
      /\ (IF T \in Structs THEN Len(Fields[T]) ELSE 1) <= sizeof[T] * 8
  BY SizeAssumption
<1>2. T \in Structs => Len(Fields[T]) \in Nat
  BY FieldsAssumption
<1> QED
  BY <1>1, <1>2 DEF count, CHAR_BIT

\* Halving a number that is too large keeps the count within twice it plus one.
LEMMA HalfBounds ==
  ASSUME NEW a \in Nat, NEW c \in Nat, c < a
  PROVE  a \div 2 \in Nat /\ c <= 2 * (a \div 2) + 1
PROOF
  BY SMT

\* The search invariant holds before the first search ...
LEMMA SearchInvInit == Init => SearchInv
PROOF
<1> SUFFICES ASSUME NEW T \in Types, Reflect(T)
             PROVE  SearchInv
  BY DEF Init
<1>1. CASE T \in Others
  BY <1>1 DEF Reflect, SearchInv
<1>2. CASE T \notin Others
  <2>1. phase = "binary" /\ todo = <<T>> /\ n = sizeof[T] * CHAR_BIT
    BY <1>2 DEF Reflect
  <2>2. todo \in Seq(Types) /\ todo # <<>> /\ Head(todo) = T
    BY <2>1
  <2>3. n \in Nat /\ count(Head(todo)) \in Nat /\ count(Head(todo)) <= n
    BY <2>1, <2>2, CountBounded
  <2> QED
    BY <2>1, <2>2, <2>3 DEF SearchInv
<1> QED
  BY <1>1, <1>2

\* ... and every step of the reflection keeps it,
LEMMA SearchInvStep == SearchInv /\ ReflectStep => SearchInv'
PROOF
<1> SUFFICES ASSUME SearchInv, ReflectStep
             PROVE  SearchInv'
  OBVIOUS
<1> USE DEF SearchInv
<1>0. ASSUME todo # <<>>
      PROVE  Head(todo) \in Types /\ count(Head(todo)) \in Nat /\ Tail(todo) \in Seq(Types)
  <2>1. Head(todo) \in Types /\ Tail(todo) \in Seq(Types)
    BY <1>0
  <2> QED
    BY <2>1, CountBounded
<1>1. CASE Halve
  <2>1. n \in Nat /\ todo # <<>> /\ count(Head(todo)) \in Nat /\ count(Head(todo)) < n
    BY <1>0, <1>1 DEF Halve, constructible
  <2>2. n \div 2 \in Nat /\ count(Head(todo)) <= 2 * (n \div 2) + 1
    BY <2>1, HalfBounds
  <2> QED
    BY <1>1, <2>1, <2>2 DEF Halve, count
<1>2. CASE HalvedEnough
  <2>1. n \in Nat /\ todo # <<>> /\ count(Head(todo)) <= 2 * n + 1
    BY <1>2 DEF HalvedEnough
  <2> QED
    BY <1>2, <2>1 DEF HalvedEnough, UpperBound, count
<1>3. CASE CountDown
  <2>1. n \in Nat /\ todo # <<>> /\ count(Head(todo)) \in Nat /\ count(Head(todo)) < n
    BY <1>0, <1>3 DEF CountDown, constructible
  <2> QED
    BY <1>3, <2>1 DEF CountDown, count
<1>4. CASE Counted
  <2>1. n \in Nat /\ todo # <<>> /\ n = count(Head(todo))
    BY <1>0, <1>4 DEF Counted, constructible
  <2> QED
    BY <1>4, <2>1 DEF Counted, count
<1>5. CASE Bind
  <2>1. todo # <<>> /\ n \in Nat /\ n = count(Head(todo))
    BY <1>5 DEF Bind
  <2>2. ASSUME Head(todo) \in Structs
        PROVE  Nested(SubSeq(Fields[Head(todo)], 1, n), Tail(todo)) \in Seq(Types)
    <3>1. Fields[Head(todo)] \in Seq(Types) /\ n = Len(Fields[Head(todo)])
      BY <2>1, <2>2, FieldsAssumption DEF Types, count
    <3>2. SubSeq(Fields[Head(todo)], 1, n) \in Seq(Types)
      BY <3>1
    <3> QED
      BY <1>0, <2>1, <3>2 DEF Nested
  <2>3. todo' \in Seq(Types)
    BY <1>5, <2>2 DEF Bind
  <2> QED
    BY <1>5, <2>3 DEF Bind
<1>6. CASE AppendTypeid
  <2>1. todo' \in Seq(Types) /\ phase' = "format"
    BY <1>0, <1>6 DEF AppendTypeid
  <2> QED
    BY <2>1
<1>7. CASE Enter
  <2>1. CASE Head(todo) \in Structs
    <3>1. todo' = todo /\ todo # <<>> /\ phase' = "binary" /\ n' = sizeof[Head(todo)] * CHAR_BIT
      BY <1>7, <2>1 DEF Enter, Search
    <3>2. n' \in Nat /\ count(Head(todo)) \in Nat /\ count(Head(todo)) <= n'
      BY <1>0, <3>1, CountBounded
    <3> QED
      BY <3>1, <3>2 DEF count
  <2>2. CASE Head(todo) \notin Structs
    BY <1>7, <2>2 DEF Enter
  <2> QED
    BY <2>1, <2>2
<1>8. CASE Formatted
  BY <1>8 DEF Formatted
<1> QED
  BY <1>1, <1>2, <1>3, <1>4, <1>5, <1>6, <1>7, <1>8 DEF ReflectStep

\* as does every step of the tool and the writer.
LEMMA SearchInvNext == SearchInv /\ [Next]_vars => SearchInv'
PROOF
<1> SUFFICES ASSUME SearchInv, [Next]_vars
             PROVE  SearchInv'
  OBVIOUS
<1>1. CASE Compile
  BY <1>1, SearchInvStep DEF Compile
<1>2. CASE UNCHANGED reflecting
  BY <1>2 DEF SearchInv, reflecting, count
<1>3. CASE Run \/ Write \/ Poll \/ PrintField \/ EndLine
  BY <1>2, <1>3 DEF Run, Write, Poll, PrintField, EndLine
<1> QED
  BY <1>1, <1>2, <1>3 DEF Next, ToolStep, vars

(* The number n_fields() ends with is the number of fields, for every type:  *)
(* halving leaves no number out that is greater than twice where it stops,  *)
(* plus one, and the count down starts there.                               *)
THEOREM CountsFieldsAlways == Spec => []CountsFields
PROOF
<1>1. SearchInv => CountsFields
  BY DEF SearchInv, CountsFields
<1> QED
  BY SearchInvInit, SearchInvNext, <1>1, PTL DEF Spec

-----------------------------------------------------------------------------
(* The size of the copy                                                     *)

TypeInv == type \in Types /\ format \in Seq(Scalars)

\* The initial state has its types ...
LEMMA TypeInvInit == Init => TypeInv
  BY DEF Init, TypeInv, Reflect

\* ... and every step keeps them.
LEMMA TypeInvNext == TypeInv /\ [Next]_vars => TypeInv'
PROOF
<1> SUFFICES ASSUME TypeInv, [Next]_vars
             PROVE  TypeInv'
  OBVIOUS
<1>1. CASE AppendTypeid
  <2>1. Head(todo) \in Scalars
    BY <1>1 DEF AppendTypeid, HasTypeid
  <2> QED
    BY <1>1, <2>1 DEF AppendTypeid, TypeInv
<1>2. CASE UNCHANGED <<type, format>>
  BY <1>2 DEF TypeInv
<1>3. CASE Compile /\ ~AppendTypeid
  BY <1>2, <1>3 DEF Compile, ReflectStep, Halve, HalvedEnough, CountDown, Counted,
                    Bind, Enter, Formatted
<1>4. CASE Run \/ Write \/ Poll \/ PrintField \/ EndLine
  BY <1>2, <1>4 DEF Run, Write, Poll, PrintField, EndLine, reflecting
<1> QED
  BY <1>1, <1>2, <1>3, <1>4 DEF Next, ToolStep, vars, reflecting

\* A size rounded up to whole cache lines, and a tailer to whole words.
LEMMA RoundUpBounds ==
  ASSUME NEW size \in Nat, NEW len \in Nat
  PROVE  /\ RoundUp(size, 64) \in Nat /\ size <= RoundUp(size, 64)
         /\ RoundUp(4 + len, 4) \in Nat
         /\ RoundUp(4 + len, 4) >= IF len = 0 THEN 4 ELSE 8
  BY DEF RoundUp

(* For a type of any size and a format of any length: the size the tool     *)
(* computes holds the entry, but for four bytes when there is no format.    *)
THEOREM EntryCopiedAlways == Spec => []EntryCopied
PROOF
<1>1. TypeInv => EntryCopied
  <2> SUFFICES ASSUME TypeInv
               PROVE  EntryCopied
    OBVIOUS
  <2>1. sizeof[type] \in Nat /\ Len(format) \in Nat
    BY SizeAssumption DEF TypeInv
  <2>2. format # <<>> => Len(format) # 0
    BY DEF TypeInv
  <2>3. buf_size = RoundUp(sizeof[type], 64) + RoundUp(4 + Len(format), 4) - 8
    <3>1. RoundUp(sizeof[type], 64) \in Nat /\ RoundUp(4 + Len(format), 4) \in Nat
      BY <2>1, RoundUpBounds
    <3> QED
      BY <3>1 DEF buf_size, ipc_size, sizeof_seq_lock, sizeof_tailer, CACHELINE_BYTES,
                  type_info_hash_size
  <2> QED
    BY <2>1, <2>2, <2>3, RoundUpBounds DEF EntryCopied
<1> QED
  BY TypeInvInit, TypeInvNext, <1>1, PTL DEF Spec

-----------------------------------------------------------------------------
(* Lines                                                                    *)

Printed == [id : Scalars \cup {"hex"}, at : Nat, message : Nat]

\* The line is of the message taken last, and its fields end before b.
LineInv ==
  /\ published \in Nat
  /\ seq \in 0..published
  /\ b \in Nat
  /\ line \in Seq(Printed)
  /\ \A i \in DOMAIN line : line[i].message = seq
  /\ step = "print" =>
       \A i \in DOMAIN line :
         line[i].id \in Scalars /\ line[i].at + ScalarSize[line[i].id] <= b
  /\ FieldsApart

(* print_format_alignment leads to the first address from at on that is a   *)
(* multiple of the size of the type.                                        *)
LEMMA AlignmentIsLeast ==
  ASSUME NEW T \in Scalars, NEW at \in Nat
  PROVE  /\ alignment(T, at) \in 0..(ScalarSize[T] - 1)
         /\ (at + alignment(T, at)) % ScalarSize[T] = 0
PROOF
<1>1. ScalarSize[T] \in {1, 2, 4, 8}
  BY FieldsAssumption
<1>2. CASE ScalarSize[T] = 1
  BY <1>2 DEF alignment
<1>3. CASE ScalarSize[T] = 2
  BY <1>3 DEF alignment
<1>4. CASE ScalarSize[T] = 4
  BY <1>4 DEF alignment
<1>5. CASE ScalarSize[T] = 8
  BY <1>5 DEF alignment
<1> QED
  BY <1>1, <1>2, <1>3, <1>4, <1>5

\* What has been printed of a line: at the start nothing ...
LEMMA LineInvInit == Init => LineInv
  BY DEF Init, LineInv, FieldsApart

\* Where PrintField reads, and what it leaves.
LEMMA FieldPlaced ==
  ASSUME LineInv, PrintField
  PROVE  /\ Place \in Nat /\ b <= Place
         /\ fmt[Position] \in Scalars
         /\ ScalarSize[fmt[Position]] \in {1, 2, 4, 8}
         /\ \E at \in Nat :
              /\ Place <= at
              /\ at % ScalarSize[fmt[Position]] = 0
              /\ line' = Append(line, [id |-> fmt[Position], at |-> at, message |-> seq])
              /\ b' = at + ScalarSize[fmt[Position]]
PROOF
<1>1. Place \in Nat /\ b <= Place
  BY NumberAssumption DEF LineInv, Place, AtNumber
<1>2. fmt[Position] \in Scalars
  BY DEF PrintField, AtTypeid, HasTypeid
<1>3. ScalarSize[fmt[Position]] \in {1, 2, 4, 8}
  BY <1>2, FieldsAssumption
<1> DEFINE T == fmt[Position]
           at == Place + Padding(T, Place)
<1>4. /\ alignment(T, Place) \in 0..(ScalarSize[T] - 1)
      /\ (Place + alignment(T, Place)) % ScalarSize[T] = 0
  BY <1>1, <1>2, AlignmentIsLeast
<1>5. at \in Nat /\ Place <= at /\ at % ScalarSize[T] = 0
  BY <1>1, <1>3, <1>4 DEF Padding
<1>6. line' = Append(line, [id |-> T, at |-> at, message |-> seq]) /\ b' = at + ScalarSize[T]
  BY DEF PrintField
<1> QED
  BY <1>1, <1>2, <1>3, <1>5, <1>6

\* ... and every step keeps the fields of a line in order.
LEMMA LineInvNext == LineInv /\ [Next]_vars => LineInv'
PROOF
<1> SUFFICES ASSUME LineInv, [Next]_vars
             PROVE  LineInv'
  OBVIOUS
<1>1. CASE PrintField
  <2> DEFINE T == fmt[Position]
  <2>1. PICK at \in Nat :
          /\ Place <= at
          /\ at % ScalarSize[T] = 0
          /\ line' = Append(line, [id |-> T, at |-> at, message |-> seq])
          /\ b' = at + ScalarSize[T]
    BY <1>1, FieldPlaced
  <2>2. T \in Scalars /\ ScalarSize[T] \in {1, 2, 4, 8} /\ Place \in Nat /\ b <= Place
    BY <1>1, FieldPlaced
  <2>3. /\ line \in Seq(Printed) /\ published \in Nat /\ seq \in 0..published /\ b \in Nat
        /\ published' = published /\ seq' = seq /\ step = "print"
    BY <1>1 DEF PrintField, LineInv
  <2> DEFINE new == [id |-> T, at |-> at, message |-> seq]
  <2>4. new \in Printed /\ line' \in Seq(Printed) /\ Len(line') = Len(line) + 1
        /\ line'[Len(line) + 1] = new
        /\ \A i \in DOMAIN line : line'[i] = line[i]
        /\ DOMAIN line' = 1..(Len(line) + 1) /\ DOMAIN line = 1..Len(line)
    BY <2>1, <2>2, <2>3 DEF Printed
  <2>5. b' \in Nat
    BY <2>1, <2>2
  <2>6. \A i \in DOMAIN line' : line'[i].message = seq'
    BY <2>3, <2>4 DEF LineInv
  <2>7. ASSUME NEW i \in DOMAIN line'
        PROVE  /\ line'[i].id \in Scalars
               /\ line'[i].at + ScalarSize[line'[i].id] <= b'
               /\ line'[i].at % ScalarSize[line'[i].id] = 0
               /\ i + 1 \in DOMAIN line' =>
                    line'[i].at + ScalarSize[line'[i].id] <= line'[i + 1].at
    <3>1. CASE i = Len(line) + 1
      <4>1. line'[i].id = T /\ line'[i].at = at /\ i + 1 \notin DOMAIN line'
        BY <2>4, <3>1
      <4> QED
        BY <4>1, <2>1, <2>2
    <3>2. CASE i \in DOMAIN line
      <4>1. line'[i] = line[i] /\ line[i] \in Printed
        BY <2>3, <2>4, <3>2
      <4>2. /\ line[i].id \in Scalars /\ line[i].at + ScalarSize[line[i].id] <= b
            /\ line[i].at % ScalarSize[line[i].id] = 0
        BY <2>3, <3>2 DEF LineInv, FieldsApart
      <4>3. line[i].at \in Nat /\ ScalarSize[line[i].id] \in Nat
        BY <4>1, <4>2, FieldsAssumption DEF Printed
      <4>4. b <= at /\ b <= b'
        BY <2>1, <2>2, <2>3
      <4>5. CASE i = Len(line)
        <5>1. line'[i + 1].at = at
          BY <2>4, <4>5
        <5> QED
          BY <2>3, <2>5, <4>1, <4>2, <4>3, <4>4, <5>1
      <4>6. CASE i # Len(line)
        <5>1. i + 1 \in DOMAIN line /\ line'[i + 1] = line[i + 1]
          BY <2>3, <2>4, <3>2, <4>6
        <5>2. line[i].at + ScalarSize[line[i].id] <= line[i + 1].at
          BY <3>2, <4>2, <5>1 DEF LineInv, FieldsApart
        <5> QED
          BY <2>3, <2>5, <4>1, <4>2, <4>3, <4>4, <5>1, <5>2
      <4> QED
        BY <4>5, <4>6
    <3> QED
      BY <2>3, <2>4, <3>1, <3>2
  <2>8. FieldsApart'
    BY <2>7 DEF FieldsApart
  <2> QED
    BY <2>3, <2>4, <2>5, <2>6, <2>7, <2>8 DEF LineInv
<1>2. CASE Poll
  <2>1. /\ published \in Nat /\ published' = published /\ seq' = published /\ b' = 0
        /\ line' = <<>> \/ (line' = Hex /\ step' = "poll")
    BY <1>2 DEF Poll, LineInv
  <2>2. CASE line' = <<>>
    BY <2>1, <2>2 DEF LineInv, FieldsApart
  <2>3. CASE line' = Hex /\ step' = "poll"
    <3>1. line' \in Seq(Printed) /\ DOMAIN line' = {1}
          /\ line'[1] = [id |-> "hex", at |-> 0, message |-> published]
      BY <2>1, <2>3 DEF Hex, Printed
    <3>2. "hex" \in Scalars => ScalarSize["hex"] \in {1, 2, 4, 8}
      BY FieldsAssumption
    <3>3. FieldsApart'
      BY <3>1, <3>2 DEF FieldsApart
    <3> QED
      BY <2>1, <2>3, <3>1, <3>3 DEF LineInv
  <2> QED
    BY <2>1, <2>2, <2>3
<1>3. CASE Write
  BY <1>3 DEF Write, LineInv, FieldsApart
<1>4. CASE Compile \/ Run \/ EndLine \/ UNCHANGED vars
  BY <1>4 DEF Compile, Run, EndLine, vars, LineInv, FieldsApart
<1> QED
  BY <1>1, <1>2, <1>3, <1>4 DEF Next, ToolStep

(* For every set of types, every format and every number of bytes skipped,  *)
(* the tool reads no misaligned field and no byte twice.                    *)
THEOREM FieldsApartAlways == Spec => []FieldsApart
PROOF
<1>1. LineInv => FieldsApart
  BY DEF LineInv
<1> QED
  BY LineInvInit, LineInvNext, <1>1, PTL DEF Spec

(* Lines are of one message each, in the order of the messages, and none is *)
(* printed twice, whatever the writer does meanwhile.                       *)
THEOREM PrintedOnceAlways == Spec => PrintedOnce
PROOF
<1> DEFINE Step ==
      /\ seq' \in seq..published'
      /\ line' # line =>
           \/ seq' > seq /\ \A i \in DOMAIN line' : line'[i].message = seq'
           \/ /\ Len(line') = Len(line) + 1 /\ SubSeq(line', 1, Len(line)) = line
              /\ \A i \in DOMAIN line' : line'[i].message = seq
<1>1. LineInv /\ LineInv' /\ [Next]_vars => [Step]_vars
  <2> SUFFICES ASSUME LineInv, LineInv', Next
               PROVE  Step
    OBVIOUS
  <2>1. /\ published \in Nat /\ seq \in 0..published /\ seq' \in 0..published'
        /\ published' \in Nat /\ line \in Seq(Printed)
        /\ \A i \in DOMAIN line' : line'[i].message = seq'
    BY DEF LineInv
  <2>2. CASE PrintField
    <3>1. PICK new : line' = Append(line, new)
      BY <2>2 DEF PrintField
    <3>2. seq' = seq /\ published' = published
      BY <2>2 DEF PrintField
    <3>3. line' \in Seq(Printed)
      BY DEF LineInv
    <3>4. Len(line') = Len(line) + 1 /\ SubSeq(line', 1, Len(line)) = line
      BY <2>1, <3>1, <3>3
    <3> QED
      BY <2>1, <3>2, <3>4
  <2>3. CASE Poll
    <3>1. seq' = published /\ published' = published /\ seq # published
      BY <2>3 DEF Poll, IsNew
    <3> QED
      BY <2>1, <3>1
  <2>4. CASE Write \/ Compile \/ Run \/ EndLine
    <3>1. seq' = seq /\ line' = line /\ published' \in {published, published + 1}
      BY <2>4 DEF Write, Compile, Run, EndLine
    <3> QED
      BY <2>1, <3>1
  <2> QED
    BY <2>2, <2>3, <2>4 DEF Next, ToolStep
<1> QED
  BY LineInvInit, LineInvNext, <1>1, PTL DEF Spec, PrintedOnce

-----------------------------------------------------------------------------
(* The format                                                               *)

\* A set of numbers that is not empty has a least one.
LEMMA LeastOf ==
  ASSUME NEW S, S \subseteq Nat, S # {}
  PROVE  \E k \in S : \A j \in S : k <= j
PROOF
<1> DEFINE R == OpToRel(<, Nat)
<1>1. IsWellFoundedOn(R, Nat)
  BY NatLessThanWellFounded
<1>2. \A j, k \in Nat : j < k => <<j, k>> \in R
  BY DEF OpToRel
<1> HIDE DEF R
<1>3. PICK k \in S : \A j \in S : ~(<<j, k>> \in R)
  BY <1>1, WFMin
<1>4. ASSUME NEW j \in S PROVE k <= j
  <2>1. k \in Nat /\ j \in Nat /\ ~(<<j, k>> \in R)
    BY <1>3
  <2>2. ~(j < k)
    BY <1>2, <2>1
  <2> QED
    BY <2>1, <2>2
<1> QED
  BY <1>4

\* Numbers that do not fall from one to the next do not fall at all.
LEMMA Rising ==
  ASSUME NEW m \in Nat, NEW g \in [1..m -> Nat], \A k \in 1..(m - 1) : g[k] <= g[k + 1],
         NEW i \in 1..m, NEW j \in 1..m, i <= j
  PROVE  g[i] <= g[j]
PROOF
<1> DEFINE Bad == {k \in 1..m : i <= k /\ g[k] < g[i]}
<1> SUFFICES ASSUME g[j] < g[i] PROVE FALSE
  <2>1. g[i] \in Nat /\ g[j] \in Nat
    OBVIOUS
  <2> QED
    BY <2>1
<1>0. j \in Bad
  OBVIOUS
<1>1. PICK k \in Bad : \A l \in Bad : k <= l
  <2>1. Bad \subseteq Nat
    OBVIOUS
  <2>2. Bad # {}
    BY <1>0
  <2> HIDE DEF Bad
  <2> QED
    BY <2>1, <2>2, LeastOf
<1>2. k \in 1..m /\ i <= k /\ g[k] < g[i] /\ g[k] \in Nat /\ g[i] \in Nat
  OBVIOUS
<1>3. i < k
  BY <1>2
<1>4. k - 1 \in 1..(m - 1) /\ k - 1 \in 1..m /\ i <= k - 1 /\ (k - 1) + 1 = k
  BY <1>2, <1>3
<1>5. g[k - 1] <= g[k] /\ g[k - 1] \in Nat
  BY <1>4
<1>6. k - 1 \in Bad
  BY <1>2, <1>4, <1>5
<1> QED
  BY <1>1, <1>2, <1>6

Leaf == [id : Scalars, at : Nat]

\* The layout of a type, scalar by scalar.
LEMMA Layouts ==
  ASSUME NEW T \in Types
  PROVE  /\ Len(layout[T]) \in Nat \ {0} /\ DOMAIN layout[T] = 1..Len(layout[T])
         /\ \A i \in DOMAIN layout[T] : layout[T][i] \in Leaf
PROOF
<1>1. layout[T] \in Seq(Leaf) \ {<<>>}
  BY LayoutAssumption DEF Leaf
<1> QED
  BY <1>1

\* The fields of a class are types, and their scalars are all of its own.
LEMMA Parts ==
  ASSUME NEW T \in Classes
  PROVE  /\ T \in Types /\ T \notin Scalars
         /\ Len(Fields[T]) \in Nat \ {0} /\ DOMAIN Fields[T] = 1..Len(Fields[T])
         /\ Fields[T] \in Seq(Types)
         /\ before[T] \in [1..(Len(Fields[T]) + 1) -> Nat] /\ before[T][1] = 0
         /\ before[T][Len(Fields[T]) + 1] = Len(layout[T])
         /\ \A k \in 1..Len(Fields[T]) :
              /\ Fields[T][k] \in Types
              /\ before[T][k + 1] = before[T][k] + Len(layout[Fields[T][k]])
              /\ \A i \in DOMAIN layout[Fields[T][k]] :
                   /\ before[T][k] + i \in DOMAIN layout[T]
                   /\ layout[T][before[T][k] + i].id = layout[Fields[T][k]][i].id
PROOF
<1>1. T \in Types /\ T \notin Scalars /\ Fields[T] \in Seq(Types) \ {<<>>}
  BY FieldsAssumption DEF Classes, Types
<1>2. Len(Fields[T]) \in Nat \ {0} /\ DOMAIN Fields[T] = 1..Len(Fields[T])
      /\ \A k \in 1..Len(Fields[T]) : Fields[T][k] \in Types
  BY <1>1
<1>3. PICK last \in Nat \ {0} : last = Len(Fields[T])
  BY <1>2
<1>4. /\ before[T] \in [1..(last + 1) -> Nat] /\ before[T][1] = 0
      /\ before[T][last + 1] = Len(layout[T])
      /\ \A k \in 1..last : before[T][k + 1] = before[T][k] + Len(layout[Fields[T][k]])
      /\ \A k \in 1..last : \A i \in DOMAIN layout[Fields[T][k]] :
           layout[T][before[T][k] + i] =
             [layout[Fields[T][k]][i] EXCEPT !.at = @ + offsetof[T][k]]
  BY <1>3, LayoutAssumption DEF ClassLaidOut
<1>5. \A k \in 1..last : before[T][k + 1] \in Nat /\ before[T][k + 1] <= Len(layout[T])
  <2>1. \A k \in 1..((last + 1) - 1) : before[T][k] <= before[T][k + 1]
    <3> SUFFICES ASSUME NEW k \in 1..last PROVE before[T][k] <= before[T][k + 1]
      OBVIOUS
    <3>1. k \in 1..last /\ k \in 1..(last + 1)
      BY <1>3
    <3>2. Fields[T][k] \in Types
      BY <1>2, <1>3, <3>1
    <3>3. Len(layout[Fields[T][k]]) \in Nat /\ before[T][k] \in Nat
      BY <1>4, <3>1, <3>2, Layouts
    <3>4. before[T][k + 1] = before[T][k] + Len(layout[Fields[T][k]])
      BY <1>4, <3>1
    <3> QED
      BY <3>3, <3>4
  <2>2. last + 1 \in Nat /\ last + 1 \in 1..(last + 1)
    BY <1>3
  <2>3. ASSUME NEW k \in 1..last PROVE before[T][k + 1] <= before[T][last + 1]
    <3>1. k + 1 \in 1..(last + 1) /\ k + 1 <= last + 1
      BY <1>3
    <3> QED
      BY <1>4, <2>1, <2>2, <3>1, Rising
  <2>4. \A k \in 1..last : before[T][k + 1] \in Nat
    <3>1. \A k \in 1..last : k + 1 \in 1..(last + 1)
      BY <1>3
    <3> QED
      BY <1>4, <3>1
  <2> QED
    BY <1>4, <2>3, <2>4
<1>6. ASSUME NEW k \in 1..last, NEW i \in DOMAIN layout[Fields[T][k]]
      PROVE  /\ before[T][k] + i \in DOMAIN layout[T]
             /\ layout[T][before[T][k] + i].id = layout[Fields[T][k]][i].id
  <2>1. /\ i \in 1..Len(layout[Fields[T][k]]) /\ Len(layout[Fields[T][k]]) \in Nat
        /\ layout[Fields[T][k]][i] \in Leaf
    BY <1>2, <1>3, Layouts
  <2>2. before[T][k] \in Nat /\ before[T][k + 1] = before[T][k] + Len(layout[Fields[T][k]])
    BY <1>3, <1>4
  <2>3. before[T][k] + i \in 1..Len(layout[T])
    <3>1. PICK parts \in Nat : parts = Len(layout[Fields[T][k]])
      BY <2>1
    <3>2. PICK whole \in Nat : whole = Len(layout[T])
      BY <1>1, Layouts
    <3>3. before[T][k] + parts <= whole
      BY <1>5, <2>2, <3>1, <3>2
    <3>4. i \in 1..parts
      BY <2>1, <3>1
    <3>5. before[T][k] + i \in 1..whole
      BY <2>2, <3>3, <3>4
    <3> QED
      BY <3>2, <3>5
  <2>4. layout[T][before[T][k] + i] = [layout[Fields[T][k]][i] EXCEPT !.at = @ + offsetof[T][k]]
    BY <1>4
  <2>5. layout[T][before[T][k] + i].id = layout[Fields[T][k]][i].id
    BY <2>1, <2>4 DEF Leaf
  <2> QED
    BY <1>1, <2>3, <2>5, Layouts
<1> QED
  BY <1>1, <1>2, <1>3, <1>4, <1>6

\* How many scalars come before each type that is still to be formatted.
Placed(start) ==
  /\ start \in [1..(Len(todo) + 1) -> Nat]
  /\ start[1] = Len(format)
  /\ start[Len(todo) + 1] = Len(layout[type])
  /\ \A k \in 1..Len(todo) :
       /\ start[k + 1] = start[k] + Len(layout[todo[k]])
       /\ \A i \in DOMAIN layout[todo[k]] :
            layout[type][start[k] + i].id = layout[todo[k]][i].id

\* What is formatted and what is still to be are the scalars of the type in order.
FormatInv ==
  /\ phase = "done" => todo = <<>>
  /\ type \notin Others =>
       /\ \A i \in DOMAIN format : format[i] = layout[type][i].id
       /\ \E start : Placed(start)

\* At first the type itself is to be formatted.
LEMMA FormatInvInit == Init => FormatInv
PROOF
<1> SUFFICES ASSUME NEW T \in Types, Reflect(T) PROVE FormatInv
  BY DEF Init
<1>1. type = T /\ format = <<>> /\ (T \in Others => todo = <<>>)
      /\ (T \notin Others => phase = "binary" /\ todo = <<T>>)
  BY DEF Reflect
<1>2. CASE T \in Others
  BY <1>1, <1>2 DEF FormatInv
<1>3. CASE T \notin Others
  <2>1. Len(layout[T]) \in Nat
    BY Layouts
  <2>2. Len(todo) = 1 /\ todo[1] = T /\ Len(format) = 0
    BY <1>1, <1>3
  <2>3. PICK start \in [1..2 -> Nat] : start[1] = 0 /\ start[2] = Len(layout[T])
    <3> DEFINE s == [k \in 1..2 |-> IF k = 1 THEN 0 ELSE Len(layout[T])]
    <3>1. s \in [1..2 -> Nat] /\ s[1] = 0 /\ s[2] = Len(layout[T])
      BY <2>1
    <3> QED
      BY <3>1
  <2>4. \A i \in DOMAIN layout[T] : 0 + i = i
    BY Layouts
  <2>5. Placed(start)
    BY <1>1, <2>1, <2>2, <2>3, <2>4 DEF Placed
  <2> QED
    BY <1>1, <1>3, <2>5 DEF FormatInv
<1> QED
  BY <1>2, <1>3

\* The fields of a struct take its place.
LEMMA BindPlaces ==
  ASSUME SearchInv, TypeInv, Bind, NEW start, Placed(start)
  PROVE  \E new : Placed(new)'
PROOF
<1>1. /\ todo \in Seq(Types) /\ todo # <<>> /\ n = count(Head(todo))
      /\ type' = type /\ format' = format
  BY DEF SearchInv, Bind
<1>2. CASE todo' = todo
  <2>1. Placed(start)'
    BY <1>1, <1>2 DEF Placed
  <2> QED
    BY <2>1
<1>3. CASE todo' # todo
  <2>1. PICK S \in Structs : S = Head(todo)
    BY <1>3 DEF Bind
  <2>2. PICK N \in Nat \ {0} : N = Len(Fields[S])
    BY <2>1, Parts DEF Classes
  <2>3. /\ Fields[S] \in Seq(Types) /\ before[S] \in [1..(N + 1) -> Nat] /\ before[S][1] = 0
        /\ before[S][N + 1] = Len(layout[S])
        /\ \A k \in 1..N : /\ Fields[S][k] \in Types
                           /\ before[S][k + 1] = before[S][k] + Len(layout[Fields[S][k]])
                           /\ \A i \in DOMAIN layout[Fields[S][k]] :
                                /\ before[S][k] + i \in DOMAIN layout[S]
                                /\ layout[S][before[S][k] + i].id = layout[Fields[S][k]][i].id
    BY <2>1, <2>2, Parts DEF Classes
  <2>4. PICK m \in Nat : Len(todo) = m + 1
    <3>1. Len(todo) \in Nat /\ Len(todo) # 0
      BY <1>1
    <3>2. Len(todo) - 1 \in Nat /\ Len(todo) = (Len(todo) - 1) + 1
      BY <3>1
    <3> QED
      BY <3>2
  <2>5. /\ todo[1] = S /\ Tail(todo) \in Seq(Types) /\ Len(Tail(todo)) = m
        /\ \A k \in 1..m : Tail(todo)[k] = todo[k + 1]
    BY <1>1, <2>1, <2>4
  <2>6. todo' = Fields[S] \o Tail(todo)
    <3>1. n = N
      BY <1>1, <2>1, <2>2 DEF count
    <3>2. SubSeq(Fields[S], 1, N) = Fields[S]
      BY <2>2, <2>3
    <3> QED
      BY <1>3, <2>1, <3>1, <3>2 DEF Bind, Nested
  <2>7. /\ Len(todo') = N + m
        /\ \A k \in 1..N : todo'[k] = Fields[S][k]
        /\ \A k \in (N + 1)..(N + m) : todo'[k] = todo[k - N + 1]
    <3>0. PICK rest : rest = Tail(todo)
      OBVIOUS
    <3>1. /\ Len(todo') = N + m
          /\ \A k \in 1..N : todo'[k] = Fields[S][k]
          /\ \A k \in (N + 1)..(N + m) : todo'[k] = rest[k - N]
      <4>1. rest \in Seq(Types) /\ Fields[S] \in Seq(Types) /\ Len(rest) = m /\ Len(Fields[S]) = N
        BY <2>2, <2>3, <2>5, <3>0
      <4>2. /\ Len(Fields[S] \o rest) = N + m
            /\ \A k \in 1..(N + m) :
                 (Fields[S] \o rest)[k] = IF k <= N THEN Fields[S][k] ELSE rest[k - N]
        BY <4>1, ConcatProperties
      <4>3. \A k \in 1..N : k \in 1..(N + m) /\ k <= N
        OBVIOUS
      <4>4. \A k \in (N + 1)..(N + m) : k \in 1..(N + m) /\ ~(k <= N)
        OBVIOUS
      <4> QED
        BY <2>6, <3>0, <4>2, <4>3, <4>4
    <3>2. \A k \in (N + 1)..(N + m) : k - N \in 1..m
      OBVIOUS
    <3> QED
      BY <2>5, <3>0, <3>1, <3>2
  <2>8. /\ start \in [1..(m + 2) -> Nat] /\ start[1] = Len(format)
        /\ start[m + 2] = Len(layout[type])
        /\ \A k \in 1..(m + 1) :
             /\ start[k + 1] = start[k] + Len(layout[todo[k]])
             /\ \A i \in DOMAIN layout[todo[k]] :
                  layout[type][start[k] + i].id = layout[todo[k]][i].id
    <3>1. (m + 1) + 1 = m + 2
      OBVIOUS
    <3> QED
      BY <2>4, <3>1 DEF Placed
  <2>9. PICK new : /\ new \in [1..(N + m + 1) -> Nat]
                   /\ \A k \in 1..(N + 1) : new[k] = start[1] + before[S][k]
                   /\ \A k \in (N + 1)..(N + m + 1) : new[k] = start[k - N + 1]
    <3> DEFINE g == [k \in 1..(N + m + 1) |->
                       IF k <= N THEN start[1] + before[S][k] ELSE start[k - N + 1]]
    <3>1. \A k \in 1..(N + m + 1) : k > N => k - N + 1 \in 1..(m + 2)
      OBVIOUS
    <3>2. \A k \in 1..(N + m + 1) : k <= N => k \in 1..(N + 1)
      OBVIOUS
    <3>3. start[1] \in Nat
      BY <2>8
    <3>4. g \in [1..(N + m + 1) -> Nat]
      <4>1. ASSUME NEW k \in 1..(N + m + 1)
            PROVE  (IF k <= N THEN start[1] + before[S][k] ELSE start[k - N + 1]) \in Nat
        <5>1. CASE k <= N
          <6>1. before[S][k] \in Nat
            BY <2>3, <3>2, <5>1
          <6> QED
            BY <3>3, <5>1, <6>1
        <5>2. CASE ~(k <= N)
          <6>1. start[k - N + 1] \in Nat
            BY <2>8, <3>1, <5>2
          <6> QED
            BY <5>2, <6>1
        <5> QED
          BY <5>1, <5>2
      <4> QED
        BY <4>1
    <3>5. \A k \in (N + 1)..(N + m + 1) : g[k] = start[k - N + 1]
      OBVIOUS
    <3>6. \A k \in 1..(N + 1) : g[k] = start[1] + before[S][k]
      <4>1. start[2] = start[1] + before[S][N + 1]
        <5>1. 1 \in 1..(m + 1) /\ 1 + 1 = 2
          OBVIOUS
        <5>2. start[1 + 1] = start[1] + Len(layout[todo[1]])
          BY <2>8, <5>1
        <5> QED
          BY <2>3, <2>5, <5>1, <5>2
      <4>2. (N + 1) - N + 1 = 2 /\ N + 1 \in 1..(N + m + 1)
        OBVIOUS
      <4>3. g[N + 1] = start[1] + before[S][N + 1]
        BY <4>1, <4>2
      <4>4. \A k \in 1..(N + 1) : k # N + 1 => k <= N /\ k \in 1..(N + m + 1)
        OBVIOUS
      <4> QED
        BY <4>3, <4>4
    <3> QED
      BY <3>4, <3>5, <3>6
  <2>10. new[1] = Len(format) /\ new[N + m + 1] = Len(layout[type])
    <3>1. 1 \in 1..(N + 1) /\ start[1] \in Nat /\ start[1] + 0 = start[1]
      BY <2>8
    <3>2. N + m + 1 \in (N + 1)..(N + m + 1) /\ (N + m + 1) - N + 1 = m + 2
      OBVIOUS
    <3> QED
      BY <2>3, <2>8, <2>9, <3>1, <3>2
  <2>11. ASSUME NEW k \in 1..(N + m)
         PROVE  /\ new[k + 1] = new[k] + Len(layout[todo'[k]])
                /\ \A i \in DOMAIN layout[todo'[k]] :
                     layout[type][new[k] + i].id = layout[todo'[k]][i].id
    <3>1. CASE k <= N
      <4>1. /\ k \in 1..N /\ k \in 1..(N + 1) /\ k + 1 \in 1..(N + 1)
            /\ todo'[k] = Fields[S][k] /\ Fields[S][k] \in Types
        BY <2>3, <2>7, <3>1
      <4>2. /\ start[1] \in Nat /\ before[S][k] \in Nat /\ Len(layout[Fields[S][k]]) \in Nat
            /\ new[k] = start[1] + before[S][k] /\ new[k + 1] = start[1] + before[S][k + 1]
            /\ before[S][k + 1] = before[S][k] + Len(layout[Fields[S][k]])
        <5>1. start[1] \in Nat /\ before[S][k] \in Nat
          BY <2>3, <2>8, <4>1
        <5>2. Len(layout[Fields[S][k]]) \in Nat
          BY <4>1, Layouts
        <5>3. new[k] = start[1] + before[S][k] /\ new[k + 1] = start[1] + before[S][k + 1]
          BY <2>9, <4>1
        <5>4. before[S][k + 1] = before[S][k] + Len(layout[Fields[S][k]])
          BY <2>3, <4>1
        <5> QED
          BY <5>1, <5>2, <5>3, <5>4
      <4>3. new[k + 1] = new[k] + Len(layout[todo'[k]])
        BY <4>1, <4>2
      <4>4. ASSUME NEW i \in DOMAIN layout[Fields[S][k]]
            PROVE  layout[type][new[k] + i].id = layout[Fields[S][k]][i].id
        <5>1. /\ before[S][k] + i \in DOMAIN layout[todo[1]]
              /\ layout[S][before[S][k] + i].id = layout[Fields[S][k]][i].id
          BY <2>3, <2>5, <4>1
        <5>2. layout[type][start[1] + (before[S][k] + i)].id = layout[S][before[S][k] + i].id
          <6>1. 1 \in 1..(m + 1)
            OBVIOUS
          <6>2. \A j \in DOMAIN layout[todo[1]] :
                  layout[type][start[1] + j].id = layout[todo[1]][j].id
            BY <2>8, <6>1
          <6> QED
            BY <2>5, <5>1, <6>2
        <5>3. i \in Nat
          BY <4>1, Layouts
        <5>4. new[k] + i = start[1] + (before[S][k] + i)
          BY <4>2, <5>3
        <5> QED
          BY <5>1, <5>2, <5>4
      <4> QED
        BY <4>1, <4>3, <4>4
    <3>2. CASE k > N
      <4>1. /\ k \in (N + 1)..(N + m) /\ k \in (N + 1)..(N + m + 1)
            /\ k + 1 \in (N + 1)..(N + m + 1) /\ k - N + 1 \in 1..(m + 1)
            /\ (k + 1) - N + 1 = (k - N + 1) + 1
        BY <3>2
      <4>2. /\ new[k] = start[k - N + 1] /\ new[k + 1] = start[(k - N + 1) + 1]
            /\ todo'[k] = todo[k - N + 1]
        BY <2>7, <2>9, <4>1
      <4> QED
        BY <2>8, <4>1, <4>2
    <3> QED
      BY <3>1, <3>2
  <2>12. Placed(new)'
    BY <1>1, <2>7, <2>9, <2>10, <2>11 DEF Placed
  <2> QED
    BY <2>12
<1> QED
  BY <1>2, <1>3

\* A scalar that is formatted leaves its place to the next.
LEMMA AppendPlaces ==
  ASSUME SearchInv, TypeInv, AppendTypeid, NEW start, Placed(start)
  PROVE  /\ \E new : Placed(new)'
         /\ (\A i \in DOMAIN format : format[i] = layout[type][i].id)
            => \A i \in DOMAIN format' : format'[i] = layout[type'][i].id
PROOF
<1>1. PICK T : T = Head(todo)
  OBVIOUS
<1>2. /\ todo \in Seq(Types) /\ todo # <<>> /\ T \in Scalars /\ type' = type
      /\ format \in Seq(Scalars) /\ format' = Append(format, T) /\ todo' = Tail(todo)
  BY <1>1 DEF SearchInv, TypeInv, AppendTypeid, HasTypeid
<1>3. PICK m \in Nat : Len(todo) = m + 1
  <2>1. Len(todo) \in Nat /\ Len(todo) # 0
    BY <1>2
  <2>2. Len(todo) - 1 \in Nat /\ Len(todo) = (Len(todo) - 1) + 1
    BY <2>1
  <2> QED
    BY <2>2
<1>4. todo[1] = T /\ Len(todo') = m /\ \A k \in 1..m : todo'[k] = todo[k + 1]
  BY <1>1, <1>2, <1>3
<1>5. PICK N \in Nat : N = Len(format)
  BY <1>2
<1>6. /\ Len(format') = N + 1 /\ DOMAIN format = 1..N /\ DOMAIN format' = 1..(N + 1)
      /\ format'[N + 1] = T /\ \A i \in 1..N : format'[i] = format[i]
  BY <1>2, <1>5
<1>7. /\ start \in [1..(m + 2) -> Nat] /\ start[1] = N
      /\ start[m + 2] = Len(layout[type])
      /\ \A k \in 1..(m + 1) :
           /\ start[k + 1] = start[k] + Len(layout[todo[k]])
           /\ \A i \in DOMAIN layout[todo[k]] :
                layout[type][start[k] + i].id = layout[todo[k]][i].id
  <2>1. (m + 1) + 1 = m + 2
    OBVIOUS
  <2> QED
    BY <1>3, <1>5, <2>1 DEF Placed
<1>8. Len(layout[T]) = 1 /\ DOMAIN layout[T] = {1} /\ layout[T][1].id = T
  <2>1. layout[T] = <<[id |-> T, at |-> 0]>>
    BY <1>2, LayoutAssumption DEF ScalarLaidOut
  <2> QED
    BY <2>1
<1>9. start[2] = N + 1 /\ layout[type][N + 1].id = T
  <2>1. 1 \in 1..(m + 1) /\ 1 + 1 = 2
    OBVIOUS
  <2>2. /\ start[1 + 1] = start[1] + Len(layout[todo[1]])
        /\ \A i \in DOMAIN layout[todo[1]] :
             layout[type][start[1] + i].id = layout[todo[1]][i].id
    BY <1>7, <2>1
  <2> QED
    BY <1>4, <1>7, <1>8, <2>1, <2>2
<1>10. PICK new : new \in [1..(m + 1) -> Nat] /\ \A k \in 1..(m + 1) : new[k] = start[k + 1]
  <2> DEFINE g == [k \in 1..(m + 1) |-> start[k + 1]]
  <2>1. \A k \in 1..(m + 1) : k + 1 \in 1..(m + 2)
    OBVIOUS
  <2>2. g \in [1..(m + 1) -> Nat] /\ \A k \in 1..(m + 1) : g[k] = start[k + 1]
    BY <1>7, <2>1
  <2> QED
    BY <2>2
<1>11. new[1] = Len(format') /\ new[m + 1] = Len(layout[type'])
  <2>1. 1 \in 1..(m + 1) /\ 1 + 1 = 2 /\ m + 1 \in 1..(m + 1) /\ (m + 1) + 1 = m + 2
    OBVIOUS
  <2> QED
    BY <1>2, <1>6, <1>7, <1>9, <1>10, <2>1
<1>12. ASSUME NEW k \in 1..m
       PROVE  /\ new[k + 1] = new[k] + Len(layout[todo'[k]])
              /\ \A i \in DOMAIN layout[todo'[k]] :
                   layout[type][new[k] + i].id = layout[todo'[k]][i].id
  <2>1. k \in 1..(m + 1) /\ k + 1 \in 1..(m + 1)
    OBVIOUS
  <2>2. /\ new[k] = start[k + 1] /\ new[k + 1] = start[(k + 1) + 1]
        /\ todo'[k] = todo[k + 1]
    BY <1>4, <1>10, <2>1
  <2> QED
    BY <1>7, <2>1, <2>2
<1>13. Placed(new)'
  BY <1>2, <1>4, <1>10, <1>11, <1>12 DEF Placed
<1>14. (\A i \in DOMAIN format : format[i] = layout[type][i].id)
       => \A i \in DOMAIN format' : format'[i] = layout[type'][i].id
  <2> SUFFICES ASSUME \A i \in 1..N : format[i] = layout[type][i].id, NEW i \in 1..(N + 1)
               PROVE  format'[i] = layout[type][i].id
    BY <1>2, <1>6
  <2>1. i \in 1..N \/ i = N + 1
    OBVIOUS
  <2> QED
    BY <1>6, <1>9, <2>1
<1> QED
  BY <1>13, <1>14

\* Every step keeps what is still to be formatted in its place.
LEMMA FormatInvNext == SearchInv /\ TypeInv /\ FormatInv /\ [Next]_vars => FormatInv'
PROOF
<1> SUFFICES ASSUME SearchInv, TypeInv, FormatInv, [Next]_vars
             PROVE  FormatInv'
  OBVIOUS
<1>0. ASSUME type' = type, format' = format, todo' = todo, phase' = "done" => todo = <<>>
      PROVE  FormatInv'
  BY <1>0 DEF FormatInv, Placed
<1>1. CASE AppendTypeid
  <2>1. phase' = "format" /\ type' = type
    BY <1>1 DEF AppendTypeid
  <2>2. CASE type \in Others
    BY <2>1, <2>2 DEF FormatInv
  <2>3. CASE type \notin Others
    <3>1. PICK start : Placed(start)
      BY <2>3 DEF FormatInv
    <3>2. \A i \in DOMAIN format : format[i] = layout[type][i].id
      BY <2>3 DEF FormatInv
    <3>3. \E new : Placed(new)'
      BY <1>1, <3>1, AppendPlaces
    <3>4. \A i \in DOMAIN format' : format'[i] = layout[type'][i].id
      BY <1>1, <3>1, <3>2, AppendPlaces
    <3> QED
      BY <2>1, <3>3, <3>4 DEF FormatInv
  <2> QED
    BY <2>2, <2>3
<1>2. CASE Bind
  <2>1. phase' # "done" /\ type' = type /\ format' = format
    BY <1>2 DEF Bind
  <2>2. CASE type \in Others
    BY <2>1, <2>2 DEF FormatInv
  <2>3. CASE type \notin Others
    <3>1. PICK start : Placed(start)
      BY <2>3 DEF FormatInv
    <3>2. \E new : Placed(new)'
      BY <1>2, <3>1, BindPlaces
    <3> QED
      BY <2>1, <2>3, <3>2 DEF FormatInv
  <2> QED
    BY <2>2, <2>3
<1>3. CASE Halve \/ HalvedEnough \/ CountDown \/ Counted \/ Enter \/ Formatted
  <2>1. /\ type' = type /\ format' = format /\ todo' = todo
        /\ phase' = "done" => todo = <<>>
    BY <1>3 DEF Halve, HalvedEnough, CountDown, Counted, Enter, Search, Formatted
  <2> QED
    BY <1>0, <2>1
<1>4. CASE UNCHANGED reflecting
  <2>1. phase = "done" => todo = <<>>
    BY DEF FormatInv
  <2> QED
    BY <1>0, <1>4, <2>1 DEF reflecting
<1>5. CASE Run \/ Write \/ Poll \/ PrintField \/ EndLine
  BY <1>4, <1>5 DEF Run, Write, Poll, PrintField, EndLine
<1> QED
  BY <1>1, <1>2, <1>3, <1>4, <1>5 DEF Next, ToolStep, Compile, ReflectStep, vars

(* For every type that is a scalar or a struct, however its structs are     *)
(* nested: a format that is finished names its scalars, each once, in the   *)
(* order they have in memory.  Nothing is said of how a format comes to be  *)
(* refused.                                                                 *)
THEOREM FormatIsLayoutAlways == Spec => []FormatIsLayout
PROOF
<1>1. TypeInv /\ FormatInv => FormatIsLayout
  <2> SUFFICES ASSUME TypeInv, FormatInv, phase = "done", type \notin Others
               PROVE  format = [i \in DOMAIN layout[type] |-> layout[type][i].id]
    BY DEF FormatIsLayout
  <2>1. PICK start : Placed(start)
    BY DEF FormatInv
  <2>2. Len(todo) = 0
    BY DEF FormatInv
  <2>3. Len(format) = Len(layout[type])
    BY <2>1, <2>2 DEF Placed
  <2>4. format \in Seq(Scalars) /\ DOMAIN layout[type] = 1..Len(layout[type])
    BY Layouts DEF TypeInv
  <2>5. DOMAIN format = DOMAIN layout[type]
    BY <2>3, <2>4
  <2>6. \A i \in DOMAIN format : format[i] = layout[type][i].id
    BY DEF FormatInv
  <2> QED
    BY <2>4, <2>5, <2>6
<1> QED
  BY SearchInvInit, SearchInvNext, TypeInvInit, TypeInvNext, FormatInvInit, FormatInvNext,
     <1>1, PTL DEF Spec

-----------------------------------------------------------------------------
(* Places in the entry                                                      *)

Units == {1, 2, 4, 8}

SizeOf(T, j) == ScalarSize[layout[T][j].id]
EndOf(T, j) == layout[T][j].at + SizeOf(T, j)

\* Each scalar lies at the first place it may have behind the one before.
Laid(T) ==
  /\ layout[T][1].at = 0
  /\ \A j \in 1..(Len(layout[T]) - 1) :
       layout[T][j + 1].at = RoundUp(EndOf(T, j), SizeOf(T, j + 1))
  /\ alignof[T] \in Units
  /\ sizeof[T] = RoundUp(EndOf(T, Len(layout[T])), alignof[T])

Packed(T, unit) ==
  /\ Laid(T)
  /\ alignof[T] = unit
  /\ \A j \in 1..Len(layout[T]) : SizeOf(T, j) = unit

\* Rounding up to a multiple of a size.
LEMMA RoundUpToUnit ==
  ASSUME NEW a \in Nat, NEW unit \in Units
  PROVE  /\ RoundUp(a, unit) \in Nat /\ a <= RoundUp(a, unit)
         /\ RoundUp(a, unit) % unit = 0
         /\ a % unit = 0 => RoundUp(a, unit) = a
         /\ 0 % unit = 0
PROOF
<1>1. CASE unit = 1
  BY <1>1 DEF RoundUp
<1>2. CASE unit = 2
  BY <1>2 DEF RoundUp
<1>3. CASE unit = 4
  BY <1>3 DEF RoundUp
<1>4. CASE unit = 8
  BY <1>4 DEF RoundUp
<1> QED
  BY <1>1, <1>2, <1>3, <1>4 DEF Units

\* Sums of multiples are multiples.
LEMMA SumOfMultiples ==
  ASSUME NEW a \in Nat, NEW c \in Nat, NEW unit \in Units, a % unit = 0, c % unit = 0
  PROVE  (a + c) % unit = 0 /\ unit % unit = 0
PROOF
<1>1. CASE unit = 1
  BY <1>1
<1>2. CASE unit = 2
  BY <1>2
<1>3. CASE unit = 4
  BY <1>3
<1>4. CASE unit = 8
  BY <1>4
<1> QED
  BY <1>1, <1>2, <1>3, <1>4 DEF Units

\* print_format_alignment rounds up.
LEMMA AlignmentRoundsUp ==
  ASSUME NEW T \in Scalars, NEW at \in Nat
  PROVE  at + alignment(T, at) = RoundUp(at, ScalarSize[T])
PROOF
<1>1. ScalarSize[T] \in {1, 2, 4, 8}
  BY FieldsAssumption
<1>2. CASE ScalarSize[T] = 1
  BY <1>2 DEF alignment, RoundUp
<1>3. CASE ScalarSize[T] = 2
  BY <1>3 DEF alignment, RoundUp
<1>4. CASE ScalarSize[T] = 4
  BY <1>4 DEF alignment, RoundUp
<1>5. CASE ScalarSize[T] = 8
  BY <1>5 DEF alignment, RoundUp
<1> QED
  BY <1>1, <1>2, <1>3, <1>4, <1>5

\* Of some sizes one is the largest.
LEMMA LargestUnit ==
  ASSUME NEW S, S \subseteq Units, S # {}
  PROVE  Largest(S) \in S
PROOF
<1>1. \E a \in S : \A c \in S : c <= a
  <2>1. CASE 8 \in S
    BY <2>1 DEF Units
  <2>2. CASE 8 \notin S /\ 4 \in S
    BY <2>2 DEF Units
  <2>3. CASE 8 \notin S /\ 4 \notin S /\ 2 \in S
    BY <2>3 DEF Units
  <2>4. CASE 8 \notin S /\ 4 \notin S /\ 2 \notin S
    <3>1. S \subseteq {1}
      BY <2>4 DEF Units
    <3>2. S = {1}
      BY <3>1
    <3> QED
      BY <3>2
  <2> QED
    BY <2>1, <2>2, <2>3, <2>4
<1> QED
  BY <1>1 DEF Largest

\* Scalars have a place, a size and an end.
LEMMA Ends ==
  ASSUME NEW T \in Types, NEW j \in 1..Len(layout[T])
  PROVE  /\ layout[T][j].at \in Nat /\ layout[T][j].id \in Scalars
         /\ SizeOf(T, j) \in Units /\ SizeOf(T, j) \in Nat
         /\ EndOf(T, j) \in Nat
PROOF
<1>1. layout[T][j] \in Leaf
  BY Layouts
<1>2. layout[T][j].at \in Nat /\ layout[T][j].id \in Scalars
  BY <1>1 DEF Leaf
<1>3. SizeOf(T, j) \in Units
  BY <1>2, FieldsAssumption DEF SizeOf, Units
<1>4. SizeOf(T, j) \in Nat
  BY <1>3 DEF Units
<1> QED
  BY <1>2, <1>3, <1>4 DEF EndOf

\* The places of fields of one size.
LEMMA PackedPlaces ==
  ASSUME NEW T \in Types, NEW unit \in Units, Packed(T, unit)
  PROVE  /\ \A j \in 1..Len(layout[T]) : layout[T][j].at % unit = 0 /\ EndOf(T, j) % unit = 0
         /\ \A j \in 1..(Len(layout[T]) - 1) : layout[T][j + 1].at = EndOf(T, j)
         /\ sizeof[T] = EndOf(T, Len(layout[T]))
         /\ sizeof[T] \in Nat /\ sizeof[T] % unit = 0
PROOF
<1>1. PICK last \in Nat \ {0} : last = Len(layout[T])
  BY Layouts
<1>2. unit \in Nat /\ unit % unit = 0
  <2>1. 0 \in Nat /\ 0 % unit = 0
    BY RoundUpToUnit
  <2> QED
    BY <2>1, SumOfMultiples DEF Units
<1>3. ASSUME NEW j \in 1..last
      PROVE  layout[T][j].at % unit = 0
  <2>1. CASE j = 1
    BY <2>1, RoundUpToUnit DEF Packed, Laid
  <2>2. CASE j # 1
    <3>1. j - 1 \in 1..(last - 1) /\ j - 1 \in 1..last /\ (j - 1) + 1 = j
      BY <2>2
    <3>2. layout[T][j].at = RoundUp(EndOf(T, j - 1), unit)
      BY <1>1, <3>1 DEF Packed, Laid
    <3>3. EndOf(T, j - 1) \in Nat
      BY <1>1, <3>1, Ends
    <3> QED
      BY <3>2, <3>3, RoundUpToUnit
  <2> QED
    BY <2>1, <2>2
<1>4. ASSUME NEW j \in 1..last
      PROVE  EndOf(T, j) \in Nat /\ EndOf(T, j) % unit = 0
  <2>1. layout[T][j].at \in Nat /\ EndOf(T, j) \in Nat
    BY <1>1, Ends
  <2>2. EndOf(T, j) = layout[T][j].at + unit
    BY <1>1 DEF Packed, EndOf
  <2> QED
    BY <1>2, <1>3, <2>1, <2>2, SumOfMultiples
<1>5. ASSUME NEW j \in 1..(last - 1)
      PROVE  layout[T][j + 1].at = EndOf(T, j)
  <2>1. j \in 1..last /\ j + 1 \in 1..last
    BY <1>1
  <2>2. layout[T][j + 1].at = RoundUp(EndOf(T, j), unit)
    BY <1>1, <2>1 DEF Packed, Laid
  <2> QED
    BY <1>4, <2>1, <2>2, RoundUpToUnit
<1>6. sizeof[T] = EndOf(T, last) /\ EndOf(T, last) \in Nat /\ EndOf(T, last) % unit = 0
  <2>1. last \in 1..last
    BY <1>1
  <2>2. sizeof[T] = RoundUp(EndOf(T, last), unit)
    BY <1>1 DEF Packed, Laid
  <2> QED
    BY <1>4, <2>1, <2>2, RoundUpToUnit
<1> QED
  BY <1>1, <1>3, <1>4, <1>5, <1>6

\* A scalar is packed.
LEMMA ScalarPacked ==
  ASSUME NEW T \in Scalars
  PROVE  ScalarSize[T] \in Units /\ Packed(T, ScalarSize[T])
PROOF
<1>1. /\ alignof[T] = ScalarSize[T] /\ sizeof[T] = ScalarSize[T]
      /\ layout[T] = <<[id |-> T, at |-> 0]>>
  BY LayoutAssumption DEF ScalarLaidOut
<1>2. Len(layout[T]) = 1 /\ layout[T][1].at = 0 /\ layout[T][1].id = T
  BY <1>1
<1>3. ScalarSize[T] \in Units
  BY FieldsAssumption DEF Units
<1>4. SizeOf(T, 1) = ScalarSize[T] /\ ScalarSize[T] \in Nat /\ EndOf(T, 1) = ScalarSize[T]
  BY <1>2, <1>3 DEF SizeOf, EndOf, Units
<1>5. RoundUp(ScalarSize[T], ScalarSize[T]) = ScalarSize[T]
  <2>1. 0 \in Nat /\ 0 % ScalarSize[T] = 0
    BY <1>3, RoundUpToUnit
  <2>2. ScalarSize[T] % ScalarSize[T] = 0
    BY <1>3, <2>1, SumOfMultiples
  <2> QED
    BY <1>3, <1>4, <2>2, RoundUpToUnit
<1>6. \A j \in 1..(Len(layout[T]) - 1) : FALSE
  BY <1>2
<1>7. Laid(T)
  BY <1>1, <1>2, <1>3, <1>4, <1>5, <1>6 DEF Laid
<1>8. \A j \in 1..Len(layout[T]) : SizeOf(T, j) = ScalarSize[T]
  BY <1>2, <1>4
<1> QED
  BY <1>1, <1>3, <1>7, <1>8 DEF Packed

\* Where the scalars of a field are, and where the field is.
LEMMA Offsets ==
  ASSUME NEW T \in Classes
  PROVE  /\ alignof[T] = Largest({alignof[Fields[T][k]] : k \in 1..Len(Fields[T])})
         /\ offsetof[T] \in [1..Len(Fields[T]) -> Nat] /\ offsetof[T][1] = 0
         /\ \A k \in 2..Len(Fields[T]) :
              offsetof[T][k] = RoundUp(offsetof[T][k - 1] + sizeof[Fields[T][k - 1]],
                                       alignof[Fields[T][k]])
         /\ sizeof[T] = RoundUp(offsetof[T][Len(Fields[T])] + sizeof[Fields[T][Len(Fields[T])]],
                                alignof[T])
         /\ \A k \in 1..Len(Fields[T]) : \A i \in 1..Len(layout[Fields[T][k]]) :
              /\ layout[T][before[T][k] + i].at = layout[Fields[T][k]][i].at + offsetof[T][k]
              /\ SizeOf(T, before[T][k] + i) = SizeOf(Fields[T][k], i)
PROOF
<1>1. ClassLaidOut(T)
  BY LayoutAssumption
<1>2. ASSUME NEW k \in 1..Len(Fields[T]), NEW i \in 1..Len(layout[Fields[T][k]])
      PROVE  /\ layout[T][before[T][k] + i].at = layout[Fields[T][k]][i].at + offsetof[T][k]
             /\ SizeOf(T, before[T][k] + i) = SizeOf(Fields[T][k], i)
  <2>1. Fields[T][k] \in Types
    BY Parts
  <2>2. layout[Fields[T][k]][i] \in Leaf /\ i \in DOMAIN layout[Fields[T][k]]
    BY <2>1, Layouts
  <2>3. layout[T][before[T][k] + i] = [layout[Fields[T][k]][i] EXCEPT !.at = @ + offsetof[T][k]]
    BY <1>1, <2>2 DEF ClassLaidOut
  <2>4. layout[T][before[T][k] + i].id = layout[Fields[T][k]][i].id
    BY <2>2, <2>3 DEF Leaf
  <2> QED
    BY <2>2, <2>3, <2>4 DEF Leaf, SizeOf
<1> QED
  BY <1>1, <1>2 DEF ClassLaidOut

\* Every scalar of a class is in one of its fields.
LEMMA Located ==
  ASSUME NEW T \in Classes, NEW j \in 1..Len(layout[T])
  PROVE  \E k \in 1..Len(Fields[T]) :
           \E i \in 1..Len(layout[Fields[T][k]]) : j = before[T][k] + i
PROOF
<1>1. PICK last \in Nat \ {0} : last = Len(Fields[T])
  BY Parts
<1>2. /\ before[T] \in [1..(last + 1) -> Nat] /\ before[T][1] = 0
      /\ before[T][last + 1] = Len(layout[T])
      /\ \A k \in 1..last :
           /\ Fields[T][k] \in Types
           /\ before[T][k + 1] = before[T][k] + Len(layout[Fields[T][k]])
  BY <1>1, Parts
<1> DEFINE Up == {k \in 1..last : j <= before[T][k + 1]}
<1>3. PICK k \in Up : \A l \in Up : k <= l
  <2>1. last \in Up
    BY <1>1, <1>2
  <2>2. Up \subseteq Nat
    OBVIOUS
  <2> HIDE DEF Up
  <2> QED
    BY <2>1, <2>2, LeastOf
<1>4. k \in 1..last /\ k \in 1..(last + 1) /\ j <= before[T][k + 1] /\ j \in Nat /\ 1 <= j
  BY <1>1
<1>5. PICK here \in Nat : here = before[T][k]
  BY <1>2, <1>4
<1>6. here < j
  <2>1. CASE k = 1
    BY <1>2, <1>4, <1>5, <2>1
  <2>2. CASE k # 1
    <3>1. k - 1 \in 1..last /\ (k - 1) + 1 = k /\ ~(k <= k - 1)
      BY <1>4, <2>2
    <3>2. k - 1 \notin Up
      BY <1>3, <3>1
    <3>3. ~(j <= here)
      BY <1>5, <3>1, <3>2
    <3> QED
      BY <1>4, <1>5, <3>3
  <2> QED
    BY <2>1, <2>2
<1>7. PICK parts \in Nat : parts = Len(layout[Fields[T][k]])
  BY <1>2, <1>4, Layouts
<1>8. j <= here + parts
  BY <1>2, <1>4, <1>5, <1>7
<1>9. j - here \in 1..parts /\ j = here + (j - here)
  BY <1>4, <1>6, <1>8
<1> QED
  BY <1>1, <1>4, <1>5, <1>7, <1>9

\* A class whose fields are packed has its scalars one after the other.
LEMMA PackedFieldsLaid ==
  ASSUME NEW T \in Classes,
         \A k \in 1..Len(Fields[T]) : \E unit \in Units : Packed(Fields[T][k], unit)
  PROVE  Laid(T)
PROOF
<1>1. PICK last \in Nat \ {0} : last = Len(Fields[T])
  BY Parts
<1>2. PICK whole \in Nat \ {0} : whole = Len(layout[T])
  BY Parts, Layouts
<1>3. /\ T \in Types
      /\ before[T] \in [1..(last + 1) -> Nat] /\ before[T][1] = 0 /\ before[T][last + 1] = whole
      /\ \A k \in 1..last :
           /\ Fields[T][k] \in Types
           /\ before[T][k + 1] = before[T][k] + Len(layout[Fields[T][k]])
  BY <1>1, <1>2, Parts
<1>4. /\ offsetof[T] \in [1..last -> Nat] /\ offsetof[T][1] = 0
      /\ \A k \in 2..last :
           offsetof[T][k] = RoundUp(offsetof[T][k - 1] + sizeof[Fields[T][k - 1]],
                                    alignof[Fields[T][k]])
      /\ sizeof[T] = RoundUp(offsetof[T][last] + sizeof[Fields[T][last]], alignof[T])
      /\ \A k \in 1..last : \A i \in 1..Len(layout[Fields[T][k]]) :
           /\ layout[T][before[T][k] + i].at = layout[Fields[T][k]][i].at + offsetof[T][k]
           /\ SizeOf(T, before[T][k] + i) = SizeOf(Fields[T][k], i)
  BY <1>1, Offsets
<1>5. alignof[T] \in Units
  <2> DEFINE S == {alignof[Fields[T][k]] : k \in 1..last}
  <2>1. S \subseteq Units
    BY <1>1 DEF Packed
  <2>2. S # {}
    <3>1. 1 \in 1..last
      BY <1>1
    <3>2. alignof[Fields[T][1]] \in S
      BY <3>1
    <3> QED
      BY <3>2
  <2>3. alignof[T] = Largest(S)
    BY <1>1, Offsets
  <2> HIDE DEF S
  <2> QED
    BY <2>1, <2>2, <2>3, LargestUnit
\* What is known of one field.
<1>6. ASSUME NEW k \in 1..last
      PROVE  /\ alignof[Fields[T][k]] \in Units
             /\ Packed(Fields[T][k], alignof[Fields[T][k]])
             /\ offsetof[T][k] \in Nat /\ offsetof[T][k] % alignof[Fields[T][k]] = 0
             /\ sizeof[Fields[T][k]] \in Nat
             /\ Len(layout[Fields[T][k]]) \in Nat \ {0}
             /\ before[T][k] \in Nat
  <2>1. alignof[Fields[T][k]] \in Units /\ Packed(Fields[T][k], alignof[Fields[T][k]])
    BY <1>1 DEF Packed
  <2>2. Fields[T][k] \in Types /\ offsetof[T][k] \in Nat
    BY <1>3, <1>4
  <2>3. sizeof[Fields[T][k]] \in Nat
    BY <2>2, SizeAssumption
  <2>4. offsetof[T][k] % alignof[Fields[T][k]] = 0
    <3>1. CASE k = 1
      BY <1>4, <2>1, <3>1, RoundUpToUnit
    <3>2. CASE k # 1
      <4>1. k \in 2..last /\ k - 1 \in 1..last
        BY <3>2
      <4>2. offsetof[T][k - 1] + sizeof[Fields[T][k - 1]] \in Nat
        <5>1. offsetof[T][k - 1] \in Nat /\ Fields[T][k - 1] \in Types
          BY <1>3, <1>4, <4>1
        <5>2. sizeof[Fields[T][k - 1]] \in Nat
          BY <5>1, SizeAssumption
        <5> QED
          BY <5>1, <5>2
      <4> QED
        BY <1>4, <2>1, <4>1, <4>2, RoundUpToUnit
    <3> QED
      BY <3>1, <3>2
  <2>5. k \in 1..(last + 1)
    OBVIOUS
  <2> QED
    BY <1>3, <2>1, <2>2, <2>3, <2>4, <2>5, Layouts
\* The end of a field is that of its last scalar.
<1>7. ASSUME NEW k \in 1..last
      PROVE  EndOf(T, before[T][k + 1]) = offsetof[T][k] + sizeof[Fields[T][k]]
  <2>1. PICK F \in Types : F = Fields[T][k]
    BY <1>3
  <2>2. PICK parts \in Nat \ {0} : parts = Len(layout[F])
    BY <2>1, Layouts
  <2>0. parts \in 1..parts
    BY <2>2
  <2>3. parts \in 1..parts /\ before[T][k + 1] = before[T][k] + parts
    BY <1>3, <2>0, <2>1, <2>2
  <2>4. /\ layout[T][before[T][k + 1]].at = layout[F][parts].at + offsetof[T][k]
        /\ SizeOf(T, before[T][k + 1]) = SizeOf(F, parts)
    BY <1>4, <2>1, <2>2, <2>3
  <2>5. sizeof[F] = layout[F][parts].at + SizeOf(F, parts)
    BY <1>6, <2>1, <2>2, PackedPlaces DEF EndOf
  <2>6. layout[F][parts].at \in Nat /\ SizeOf(F, parts) \in Nat /\ offsetof[T][k] \in Nat
    BY <1>6, <2>2, <2>3, Ends
  <2> QED
    BY <2>1, <2>4, <2>5, <2>6 DEF EndOf
<1>8. layout[T][1].at = 0
  <2>1. 1 \in 1..last /\ before[T][1] + 1 = 1
    BY <1>1, <1>3
  <2>2. 1 \in 1..Len(layout[Fields[T][1]])
    BY <1>6, <2>1
  <2>3. layout[T][1].at = layout[Fields[T][1]][1].at + offsetof[T][1]
    BY <1>4, <2>1, <2>2
  <2>4. layout[Fields[T][1]][1].at = 0
    BY <1>6, <2>1 DEF Packed, Laid
  <2> QED
    BY <1>4, <2>3, <2>4
<1>9. ASSUME NEW j \in 1..(whole - 1)
      PROVE  layout[T][j + 1].at = RoundUp(EndOf(T, j), SizeOf(T, j + 1))
  <2>1. j \in 1..whole /\ j < whole
    BY <1>2
  <2>0. PICK k \in 1..last : \E i \in 1..Len(layout[Fields[T][k]]) : j = before[T][k] + i
    BY <1>1, <1>2, <2>1, Located
  <2>2. PICK i \in 1..Len(layout[Fields[T][k]]) : j = before[T][k] + i
    BY <2>0
  <2>3. PICK F \in Types : F = Fields[T][k]
    BY <1>3
  <2>4. PICK parts \in Nat \ {0} : parts = Len(layout[F])
    BY <2>3, Layouts
  <2>5. PICK unit \in Units : unit = alignof[F]
    BY <1>6, <2>3
  <2>6. /\ Packed(F, unit) /\ before[T][k] \in Nat
        /\ offsetof[T][k] \in Nat /\ offsetof[T][k] % unit = 0
    BY <1>6, <2>3, <2>5
  <2>7. i \in 1..parts
    BY <2>2, <2>3, <2>4
  <2>8. CASE i < parts
    <3>0. PICK here \in Nat : here = before[T][k]
      BY <2>6
    <3>1. i + 1 \in 1..parts /\ i \in 1..(parts - 1) /\ j + 1 = before[T][k] + (i + 1)
      <4>1. i + 1 \in 1..parts /\ i \in 1..(parts - 1)
        BY <2>7, <2>8
      <4>2. i \in Nat /\ j = here + i
        BY <2>2, <2>7, <3>0
      <4>3. j + 1 = here + (i + 1)
        BY <4>2
      <4> QED
        BY <3>0, <4>1, <4>3
    <3>2. /\ layout[T][j].at = layout[F][i].at + offsetof[T][k]
          /\ SizeOf(T, j) = SizeOf(F, i)
      BY <1>4, <2>2, <2>3
    <3>3. /\ layout[T][j + 1].at = layout[F][i + 1].at + offsetof[T][k]
          /\ SizeOf(T, j + 1) = SizeOf(F, i + 1)
      BY <1>4, <2>3, <2>4, <3>1
    <3>4. SizeOf(F, i + 1) = unit /\ layout[F][i + 1].at = EndOf(F, i) /\ EndOf(F, i) % unit = 0
      BY <2>4, <2>6, <2>7, <3>1, PackedPlaces DEF Packed
    <3>5. layout[F][i].at \in Nat /\ SizeOf(F, i) \in Nat /\ EndOf(F, i) \in Nat
      BY <2>4, <2>7, Ends
    <3>6. EndOf(T, j) = EndOf(F, i) + offsetof[T][k]
      BY <2>6, <3>2, <3>5 DEF EndOf
    <3>7. EndOf(T, j) \in Nat /\ EndOf(T, j) % unit = 0
      <4>1. (EndOf(F, i) + offsetof[T][k]) % unit = 0
        BY <2>6, <3>4, <3>5, SumOfMultiples
      <4>2. EndOf(F, i) + offsetof[T][k] \in Nat
        BY <2>6, <3>5
      <4> QED
        BY <3>6, <4>1, <4>2
    <3>8. RoundUp(EndOf(T, j), unit) = EndOf(T, j)
      BY <3>7, RoundUpToUnit
    <3> QED
      BY <3>3, <3>4, <3>6, <3>8
  <2>9. CASE ~(i < parts)
    <3>1. i = parts /\ j = before[T][k + 1]
      <4>1. i = parts
        BY <2>4, <2>7, <2>9
      <4>2. before[T][k + 1] = before[T][k] + parts
        BY <1>3, <2>3, <2>4
      <4> QED
        BY <2>2, <4>1, <4>2
    <3>2. k # last
      BY <1>3, <2>1, <3>1
    <3>3. k + 1 \in 1..last /\ k + 1 \in 2..last /\ (k + 1) - 1 = k
      BY <3>2
    <3>4. PICK G \in Types : G = Fields[T][k + 1]
      BY <1>3, <3>3
    <3>5. 1 \in 1..Len(layout[G])
      BY <3>4, Layouts
    <3>6. /\ layout[T][j + 1].at = layout[G][1].at + offsetof[T][k + 1]
          /\ SizeOf(T, j + 1) = SizeOf(G, 1)
      BY <1>4, <3>1, <3>3, <3>4, <3>5
    <3>7. layout[G][1].at = 0 /\ SizeOf(G, 1) = alignof[G] /\ offsetof[T][k + 1] \in Nat
      BY <1>6, <3>3, <3>4, <3>5 DEF Packed, Laid
    <3>8. offsetof[T][k + 1] = RoundUp(offsetof[T][k] + sizeof[F], alignof[G])
      BY <1>4, <2>3, <3>3, <3>4
    <3>9. EndOf(T, j) = offsetof[T][k] + sizeof[F]
      BY <1>7, <2>3, <3>1
    <3> QED
      BY <3>6, <3>7, <3>8, <3>9
  <2> QED
    BY <2>8, <2>9
<1>10. sizeof[T] = RoundUp(EndOf(T, whole), alignof[T])
  <2>1. last \in 1..last
    BY <1>1
  <2>2. EndOf(T, whole) = offsetof[T][last] + sizeof[Fields[T][last]]
    BY <1>3, <1>7, <2>1
  <2> QED
    BY <1>4, <2>2
<1> QED
  BY <1>2, <1>5, <1>8, <1>9, <1>10 DEF Laid

\* A struct within a struct that is uniform has its scalars of one size.
LEMMA UniformPacked ==
  ASSUME NEW X \in Types, Uniform(X)
  PROVE  \E unit \in Units : Packed(X, unit)
PROOF
<1> DEFINE Uneven == {T \in Types : Uniform(T) /\ ~(\E unit \in Units : Packed(T, unit))}
           Depths == {depth[T] : T \in Uneven}
<1> SUFFICES ASSUME X \in Uneven PROVE FALSE
  OBVIOUS
<1>1. depth \in [Types -> Nat]
  BY NestingAssumption
<1>2. PICK T \in Uneven : \A U \in Uneven : depth[T] <= depth[U]
  <2>1. Depths \subseteq Nat
    BY <1>1
  <2>2. depth[X] \in Depths
    OBVIOUS
  <2>3. PICK d \in Depths : \A e \in Depths : d <= e
    <3>1. Depths # {}
      BY <2>2
    <3> HIDE DEF Depths
    <3> QED
      BY <2>1, <3>1, LeastOf
  <2>4. PICK T \in Uneven : depth[T] = d
    OBVIOUS
  <2>5. \A U \in Uneven : depth[U] \in Depths
    OBVIOUS
  <2> HIDE DEF Depths, Uneven
  <2> QED
    BY <2>3, <2>4, <2>5
<1>3. T \in Types /\ Uniform(T) /\ ~(\E unit \in Units : Packed(T, unit))
  OBVIOUS
<1>4. T \in Classes
  BY <1>3, ScalarPacked DEF Types, Classes
<1>5. PICK last \in Nat \ {0} : last = Len(Fields[T])
  BY <1>4, Parts
<1>6. \A i, j \in 1..Len(layout[T]) : SizeOf(T, i) = SizeOf(T, j)
  BY <1>3, Layouts DEF Uniform, SizeOf
<1>7. ASSUME NEW k \in 1..last
      PROVE  /\ Fields[T][k] \in Types
             /\ \A i \in 1..Len(layout[Fields[T][k]]) :
                  /\ before[T][k] + i \in 1..Len(layout[T])
                  /\ SizeOf(T, before[T][k] + i) = SizeOf(Fields[T][k], i)
  <2>1. Fields[T][k] \in Types
    BY <1>4, <1>5, Parts
  <2>2. ASSUME NEW i \in 1..Len(layout[Fields[T][k]])
        PROVE  /\ before[T][k] + i \in 1..Len(layout[T])
               /\ SizeOf(T, before[T][k] + i) = SizeOf(Fields[T][k], i)
    <3>1. i \in DOMAIN layout[Fields[T][k]]
      BY <2>1, Layouts
    <3>2. before[T][k] + i \in DOMAIN layout[T]
      BY <1>4, <1>5, <3>1, Parts
    <3> QED
      BY <1>3, <1>4, <1>5, <3>2, Layouts, Offsets
  <2> QED
    BY <2>1, <2>2
<1>8. ASSUME NEW k \in 1..last
      PROVE  \E unit \in Units : Packed(Fields[T][k], unit)
  <2>1. PICK F \in Types : F = Fields[T][k]
    BY <1>7
  <2>2. \A i, j \in 1..Len(layout[F]) : SizeOf(F, i) = SizeOf(F, j)
    BY <1>6, <1>7, <2>1
  <2>3. Uniform(F)
    BY <2>2, Layouts DEF Uniform, SizeOf
  <2>4. depth[F] < depth[T] /\ depth[F] \in Nat /\ depth[T] \in Nat
    <3>1. k \in DOMAIN Fields[T]
      BY <1>4, <1>5, Parts
    <3>2. depth[F] < depth[T]
      BY <1>4, <2>1, <3>1, NestingAssumption
    <3> QED
      BY <1>1, <1>3, <3>2
  <2>5. F \notin Uneven
    <3>1. ~(depth[T] <= depth[F])
      BY <2>4
    <3> HIDE DEF Uneven
    <3> QED
      BY <1>2, <3>1
  <2> QED
    BY <2>1, <2>3, <2>5
<1>9. Laid(T)
  BY <1>4, <1>5, <1>8, PackedFieldsLaid
<1>10. PICK unit \in Units : unit = SizeOf(T, 1)
  <2>1. 1 \in 1..Len(layout[T])
    BY <1>3, Layouts
  <2> QED
    BY <1>3, <2>1, Ends
<1>11. \A j \in 1..Len(layout[T]) : SizeOf(T, j) = unit
  <2>1. 1 \in 1..Len(layout[T])
    BY <1>3, Layouts
  <2> QED
    BY <1>6, <1>10, <2>1
<1>12. alignof[T] = unit
  <2>1. ASSUME NEW k \in 1..last PROVE alignof[Fields[T][k]] = unit
    <3>1. 1 \in 1..Len(layout[Fields[T][k]])
      BY <1>7, Layouts
    <3>2. SizeOf(Fields[T][k], 1) = unit
      BY <1>7, <1>11, <3>1
    <3> QED
      BY <1>8, <3>1, <3>2 DEF Packed
  <2>2. 1 \in 1..last
    BY <1>5
  <2>3. {alignof[Fields[T][k]] : k \in 1..last} = {unit}
    BY <2>1, <2>2
  <2>4. alignof[T] = Largest({unit})
    BY <1>4, <1>5, <2>3, Offsets
  <2>5. Largest({unit}) \in {unit}
    <3>1. {unit} \subseteq Units /\ {unit} # {}
      OBVIOUS
    <3> QED
      BY <3>1, LargestUnit
  <2> QED
    BY <2>4, <2>5
<1>13. Packed(T, unit)
  BY <1>9, <1>11, <1>12 DEF Packed
<1> QED
  BY <1>3, <1>13

\* The scalars of a simple type: where the tool looks for them, and all within.
LEMMA SimpleLaid ==
  ASSUME NEW T \in Types, Simple(T)
  PROVE  /\ Laid(T)
         /\ \A j \in 1..Len(layout[T]) : EndOf(T, j) <= sizeof[T]
PROOF
<1>1. Laid(T)
  <2>1. CASE T \in Scalars
    BY <2>1, ScalarPacked DEF Packed
  <2>2. CASE T \notin Scalars
    <3>1. T \in Classes
      BY <2>2 DEF Types, Classes
    <3>2. \A k \in 1..Len(Fields[T]) : Fields[T][k] \in Types /\ Uniform(Fields[T][k])
      BY <2>2, <3>1, Parts DEF Simple
    <3>3. \A k \in 1..Len(Fields[T]) : \E unit \in Units : Packed(Fields[T][k], unit)
      BY <3>2, UniformPacked
    <3> QED
      BY <3>1, <3>3, PackedFieldsLaid
  <2> QED
    BY <2>1, <2>2
<1>2. PICK last \in Nat \ {0} : last = Len(layout[T])
  BY Layouts
<1>3. PICK g \in [1..last -> Nat] : \A j \in 1..last : g[j] = EndOf(T, j)
  <2> DEFINE e == [j \in 1..last |-> EndOf(T, j)]
  <2>1. \A j \in 1..last : EndOf(T, j) \in Nat
    BY <1>2, Ends
  <2>2. e \in [1..last -> Nat] /\ \A j \in 1..last : e[j] = EndOf(T, j)
    BY <2>1
  <2> QED
    BY <2>2
<1>4. ASSUME NEW j \in 1..(last - 1)
      PROVE  g[j] <= g[j + 1]
  <2>1. j \in 1..last /\ j + 1 \in 1..last
    BY <1>2
  <2>2. layout[T][j + 1].at = RoundUp(EndOf(T, j), SizeOf(T, j + 1))
    BY <1>1, <1>2 DEF Laid
  <2>3. EndOf(T, j) \in Nat /\ SizeOf(T, j + 1) \in Units /\ SizeOf(T, j + 1) \in Nat
    BY <1>2, <2>1, Ends
  <2>4. EndOf(T, j) <= layout[T][j + 1].at /\ layout[T][j + 1].at \in Nat
    BY <2>2, <2>3, RoundUpToUnit
  <2>5. EndOf(T, j) <= EndOf(T, j + 1)
    BY <2>3, <2>4 DEF EndOf
  <2> QED
    BY <1>3, <2>1, <2>5
<1>5. last \in 1..last /\ g[last] \in Nat
  BY <1>2
<1>6. g[last] <= sizeof[T]
  <2>1. sizeof[T] = RoundUp(g[last], alignof[T]) /\ alignof[T] \in Units
    BY <1>1, <1>2, <1>3, <1>5 DEF Laid
  <2> QED
    BY <1>5, <2>1, RoundUpToUnit
<1>7. ASSUME NEW j \in 1..last
      PROVE  EndOf(T, j) <= sizeof[T]
  <2>1. g[j] <= g[last]
    <3>1. j \in 1..last /\ j <= last
      BY <1>2
    <3> QED
      BY <1>3, <1>4, <1>5, <3>1, Rising
  <2>2. g[j] \in Nat /\ sizeof[T] \in Nat
    BY SizeAssumption
  <2> QED
    BY <1>3, <1>5, <1>6, <2>1, <2>2
<1> QED
  BY <1>1, <1>2, <1>7

\* The text behind the entry is the format.
LEMMA FormatFound ==
  ASSUME TypeInv, sizeof_tailer < CACHELINE_BYTES
  PROVE  TextAt(debug_format_loc) = format
PROOF
<1>1. sizeof[type] \in Nat /\ Len(format) \in Nat /\ format \in Seq(Scalars)
  BY SizeAssumption DEF TypeInv
<1>2. PICK m \in Nat : RoundUp(sizeof[type], 64) = m * 64
  <2>1. (sizeof[type] + 64 - 1) \div 64 \in Nat
    BY <1>1
  <2> QED
    BY <2>1 DEF RoundUp
<1>3. PICK t \in Nat : t = sizeof_tailer
  BY <1>1, RoundUpBounds DEF sizeof_tailer, type_info_hash_size
<1>4. t < 64 /\ sizeof_seq_lock = 64 + m * 64 /\ ipc_size = (64 + m * 64) + t
  BY <1>2, <1>3 DEF CACHELINE_BYTES, sizeof_seq_lock, ipc_size
<1>5. debug_tail_size = t
  <2>1. ((64 + m * 64) + t) % 64 = t
    BY <1>4
  <2> QED
    BY <1>4, <2>1 DEF debug_tail_size, CACHELINE_BYTES
<1>6. debug_format_loc = (64 + m * 64) + 4
  BY <1>4, <1>5 DEF debug_format_loc, type_info_hash_size
<1>7. debug_format_loc - (sizeof_seq_lock + type_info_hash_size) + 1 = 1
  BY <1>4, <1>6 DEF type_info_hash_size
<1>8. SubSeq(format, 1, Len(format)) = format
  BY <1>1
<1> QED
  BY <1>7, <1>8 DEF TextAt

\* The tool's format names nothing print_format does not know.
TextInv ==
  /\ \A i \in DOMAIN format : format[i] \notin Unprintable
  /\ \A i \in DOMAIN fmt : fmt[i] \notin Unprintable
  /\ argument \in ArgumentFormats \cup {NoArgument}
  /\ step # "compile" => sizeof_tailer < CACHELINE_BYTES

LEMMA TextInvInit == Init => TextInv
  BY DEF Init, Reflect, TextInv

\* A format is appended to by type ids only, and the tool takes it as it is.
LEMMA TextInvNext == TypeInv /\ TextInv /\ [Next]_vars => TextInv'
PROOF
<1> SUFFICES ASSUME TypeInv, TextInv, [Next]_vars
             PROVE  TextInv'
  OBVIOUS
<1>1. CASE Compile
  <2>1. /\ step = "compile" /\ step' = "compile" /\ fmt' = fmt /\ argument' = argument
        /\ ReflectStep
    BY <1>1 DEF Compile
  <2>2. \A i \in DOMAIN format' : format'[i] \notin Unprintable
    <3>1. CASE AppendTypeid
      <4>1. PICK T : T = Head(todo)
        OBVIOUS
      <4>2. /\ format \in Seq(Scalars) /\ format' = Append(format, T)
            /\ T \in Scalars /\ T \notin Unprintable
        BY <3>1, <4>1 DEF TypeInv, AppendTypeid, HasTypeid
      <4>3. \A i \in DOMAIN format' :
              (i \in DOMAIN format /\ format'[i] = format[i]) \/ format'[i] = T
        BY <4>2
      <4> QED
        BY <4>2, <4>3 DEF TextInv
    <3>2. CASE ~AppendTypeid
      <4>1. format' = format
        BY <2>1, <3>2 DEF ReflectStep, Halve, HalvedEnough, CountDown, Counted, Bind, Enter,
                               Formatted
      <4> QED
        BY <4>1 DEF TextInv
    <3> QED
      BY <3>1, <3>2
  <2> QED
    BY <2>1, <2>2 DEF TextInv
<1>2. CASE Poll
  <2>1. /\ step = "poll" /\ argument' = argument /\ format' = format /\ type' = type
        /\ fmt' = argument \/ fmt' = TextAt(debug_format_loc) \/ fmt' = <<>>
        /\ fmt' = argument =>
             argument # NoArgument \/ fmt' = TextAt(debug_format_loc) \/ fmt' = <<>>
    BY <1>2 DEF Poll, reflecting
  <2>2. sizeof_tailer < CACHELINE_BYTES /\ sizeof_tailer' = sizeof_tailer
    BY <2>1 DEF TextInv, sizeof_tailer, type_info_hash_size
  <2>3. TextAt(debug_format_loc) = format
    BY <2>2, FormatFound
  <2>4. \A i \in DOMAIN fmt' : fmt'[i] \notin Unprintable
    <3>1. CASE fmt' = argument /\ argument # NoArgument
      BY <3>1, NumberAssumption DEF TextInv
    <3>2. CASE fmt' = format
      BY <3>2 DEF TextInv
    <3>3. CASE fmt' = <<>>
      BY <3>3
    <3> QED
      BY <2>1, <2>3, <3>1, <3>2, <3>3
  <2> QED
    BY <2>1, <2>2, <2>4 DEF TextInv, CACHELINE_BYTES
<1>3. CASE Run
  BY <1>3 DEF Run, reflecting, TextInv, sizeof_tailer, type_info_hash_size, CACHELINE_BYTES
<1>4. CASE Write \/ PrintField \/ EndLine \/ UNCHANGED vars
  <2>1. /\ format' = format /\ fmt' = fmt /\ argument' = argument
        /\ step' # "compile" => step # "compile"
    BY <1>4 DEF Write, PrintField, EndLine, vars, reflecting
  <2>2. sizeof_tailer' = sizeof_tailer
    BY <2>1 DEF sizeof_tailer, type_info_hash_size
  <2> QED
    BY <2>1, <2>2 DEF TextInv, CACHELINE_BYTES
<1> QED
  BY <1>1, <1>2, <1>3, <1>4 DEF Next, ToolStep

\* The first fields of the type are on the line, and b is behind them.
LaidInv ==
  Simple(type) /\ fmt = Ids(type) =>
    /\ step # "compile"
    /\ Len(line) <= Len(layout[type])
    /\ \A i \in DOMAIN line :
         line[i].id = layout[type][i].id /\ line[i].at = layout[type][i].at
    /\ step = "print" => /\ f = Len(line) + 1
                         /\ b = IF line = <<>> THEN 0 ELSE EndOf(type, Len(line))
    /\ step = "poll" /\ sizeof[type] <= buf_size => Len(line) = Len(layout[type])

LEMMA IdsOf ==
  ASSUME NEW T \in Types
  PROVE  /\ Len(Ids(T)) = Len(layout[T]) /\ Ids(T) # <<>> /\ Ids(T) \in Seq(Scalars)
         /\ \A i \in 1..Len(layout[T]) : Ids(T)[i] = layout[T][i].id
PROOF
<1>1. PICK N \in Nat \ {0} : N = Len(layout[T])
  BY Layouts
<1>2. DOMAIN layout[T] = 1..N /\ \A i \in 1..N : layout[T][i].id \in Scalars
  BY <1>1, Layouts DEF Leaf
<1>3. /\ Ids(T) \in [1..N -> Scalars]
      /\ \A i \in 1..N : Ids(T)[i] = layout[T][i].id
  BY <1>2 DEF Ids
<1>4. Ids(T) \in Seq(Scalars) /\ Len(Ids(T)) = N
  BY <1>3
<1> QED
  BY <1>1, <1>3, <1>4

LEMMA LaidInvInit == Init => LaidInv
PROOF
<1> SUFFICES ASSUME Init PROVE LaidInv
  OBVIOUS
<1>1. type \in Types /\ fmt = <<>>
  BY DEF Init, Reflect
<1>2. fmt # Ids(type)
  BY <1>1, IdsOf
<1> QED
  BY <1>2 DEF LaidInv

\* The next field is the next scalar of the type.
LEMMA LaidInvPrint ==
  ASSUME TypeInv, LineInv, TextInv, LaidInv, PrintField, Simple(type), fmt = Ids(type)
  PROVE  LaidInv'
PROOF
<1>1. PICK N \in Nat \ {0} : N = Len(layout[type])
  BY Layouts DEF TypeInv
<1>2. PICK p \in Nat : p = Len(line)
  BY DEF LineInv
<1>3. /\ type \in Types /\ line \in Seq(Printed) /\ b \in Nat /\ step = "print"
      /\ p <= N /\ f = p + 1 /\ b = IF line = <<>> THEN 0 ELSE EndOf(type, p)
      /\ \A i \in 1..p : line[i].id = layout[type][i].id /\ line[i].at = layout[type][i].at
      /\ Len(fmt) = N /\ \A i \in 1..N : fmt[i] = layout[type][i].id
  <2>1. type \in Types /\ line \in Seq(Printed) /\ b \in Nat /\ step = "print"
    BY DEF TypeInv, LineInv, PrintField
  <2>2. DOMAIN line = 1..p
    BY <1>2, <2>1
  <2>3. /\ p <= N /\ f = p + 1 /\ b = IF line = <<>> THEN 0 ELSE EndOf(type, p)
        /\ \A i \in DOMAIN line :
             line[i].id = layout[type][i].id /\ line[i].at = layout[type][i].at
    BY <1>1, <1>2, <2>1 DEF LaidInv
  <2>4. Len(fmt) = N /\ \A i \in 1..N : fmt[i] = layout[type][i].id
    BY <1>1, <2>1, IdsOf
  <2> QED
    BY <2>1, <2>2, <2>3, <2>4
<1>4. p + 1 \in 1..N /\ Position = p + 1 /\ Place = b
  <2>1. ASSUME p + 1 \in 1..N
        PROVE  ~AtNumber
    <3>1. fmt[p + 1] \in Scalars
      BY <1>1, <1>3, <2>1, Ends
    <3> QED
      BY <1>3, <3>1, NumberAssumption DEF AtNumber
  <2>2. ASSUME ~(p + 1 \in 1..N)
        PROVE  ~AtNumber /\ ~(f <= Len(fmt))
    BY <1>3, <2>2 DEF AtNumber
  <2>3. Position = f /\ Place = b
    BY <2>1, <2>2 DEF Position, Place
  <2>4. Position <= Len(fmt)
    BY DEF PrintField, AtTypeid
  <2> QED
    BY <1>3, <2>2, <2>3, <2>4
<1>5. PICK T \in Scalars : T = layout[type][p + 1].id
  BY <1>1, <1>3, <1>4, Ends
<1>6. fmt[Position] = T /\ SizeOf(type, p + 1) = ScalarSize[T]
  BY <1>3, <1>4, <1>5 DEF SizeOf
<1>7. PICK at \in Nat : at = Place + Padding(T, Place)
  <2>1. Place + alignment(T, Place) = RoundUp(b, ScalarSize[T])
    BY <1>3, <1>4, AlignmentRoundsUp
  <2>2. ScalarSize[T] \in Units
    BY FieldsAssumption DEF Units
  <2> QED
    BY <1>3, <2>1, <2>2, RoundUpToUnit DEF Padding
<1>8. at = layout[type][p + 1].at
  <2>1. at = RoundUp(b, ScalarSize[T])
    BY <1>3, <1>4, <1>7, AlignmentRoundsUp DEF Padding
  <2>2. CASE p = 0
    <3>1. b = 0 /\ layout[type][p + 1].at = 0
      <4>1. line = <<>>
        <5>1. Len(line) = 0 /\ line \in Seq(Printed)
          BY <1>2, <1>3, <2>2
        <5> QED
          BY <5>1
      <4> QED
        BY <1>3, <2>2, <4>1, SimpleLaid DEF Laid
    <3>2. ScalarSize[T] \in Units
      BY FieldsAssumption DEF Units
    <3> QED
      BY <2>1, <3>1, <3>2, RoundUpToUnit
  <2>3. CASE p # 0
    <3>1. p \in 1..(N - 1) /\ line # <<>>
      BY <1>2, <1>4, <2>3
    <3>2. layout[type][p + 1].at = RoundUp(EndOf(type, p), SizeOf(type, p + 1))
      BY <1>1, <1>3, <3>1, SimpleLaid DEF Laid
    <3> QED
      BY <1>3, <1>6, <2>1, <3>1, <3>2
  <2> QED
    BY <2>2, <2>3
<1>9. /\ line' = Append(line, [id |-> T, at |-> at, message |-> seq])
      /\ b' = at + ScalarSize[T] /\ f' = (p + 1) + 1
      /\ step' = (IF b' > buf_size THEN "poll" ELSE "print")
      /\ type' = type /\ format' = format /\ fmt' = fmt
  BY <1>4, <1>6, <1>7 DEF PrintField, reflecting
<1>10. b' = EndOf(type, p + 1)
  BY <1>6, <1>8, <1>9 DEF EndOf
<1>11. /\ Len(line') = p + 1 /\ line' # <<>>
       /\ \A i \in 1..p : line'[i] = line[i]
       /\ line'[p + 1].id = T /\ line'[p + 1].at = at
  BY <1>2, <1>3, <1>9
<1>12. \A i \in DOMAIN line' :
         line'[i].id = layout[type][i].id /\ line'[i].at = layout[type][i].at
  <2>1. \A i \in DOMAIN line' : i \in 1..p \/ i = p + 1
    BY <1>3, <1>9, <1>11
  <2> QED
    BY <1>3, <1>5, <1>8, <1>11, <2>1
<1>13. sizeof[type] <= buf_size => step' = "print"
  <2>1. EndOf(type, p + 1) <= sizeof[type] /\ EndOf(type, p + 1) \in Nat /\ sizeof[type] \in Nat
    BY <1>1, <1>3, <1>4, SimpleLaid, Ends, SizeAssumption
  <2>2. buf_size \in Int
    <3>1. Len(format) \in Nat
      BY DEF TypeInv
    <3>2. RoundUp(sizeof[type], 64) \in Nat /\ RoundUp(4 + Len(format), 4) \in Nat
      BY <2>1, <3>1, RoundUpBounds
    <3>3. buf_size = RoundUp(sizeof[type], 64) + RoundUp(4 + Len(format), 4) - 8
      BY <3>2 DEF buf_size, ipc_size, sizeof_seq_lock, sizeof_tailer, CACHELINE_BYTES,
                  type_info_hash_size
    <3> QED
      BY <3>2, <3>3
  <2> QED
    BY <1>9, <1>10, <2>1, <2>2
<1>14. buf_size' = buf_size
  BY <1>9 DEF buf_size, ipc_size, sizeof_seq_lock, sizeof_tailer, CACHELINE_BYTES,
              type_info_hash_size
<1>15. p + 1 <= N /\ step' # "compile"
  BY <1>4, <1>9
<1> QED
  BY <1>1, <1>9, <1>10, <1>11, <1>12, <1>13, <1>14, <1>15 DEF LaidInv, EndOf, SizeOf

\* Every step keeps the line.
LEMMA LaidInvNext == TypeInv /\ LineInv /\ TextInv /\ LaidInv /\ [Next]_vars => LaidInv'
PROOF
<1> SUFFICES ASSUME TypeInv, LineInv, TextInv, LaidInv, [Next]_vars,
                    Simple(type'), fmt' = Ids(type')
             PROVE  LaidInv'
  BY DEF LaidInv, Simple, Uniform, Ids
<1>1. CASE PrintField
  <2>1. type' = type /\ fmt' = fmt
    BY <1>1 DEF PrintField, reflecting
  <2> QED
    BY <1>1, <2>1, LaidInvPrint
<1>2. CASE Poll
  <2>1. type' = type /\ type \in Types
    BY <1>2 DEF Poll, reflecting, TypeInv
  <2>2. fmt' # <<>>
    BY <2>1, IdsOf
  <2>3. line' = <<>> /\ step' = "print" /\ f' = 1 /\ b' = 0
    BY <1>2, <2>2 DEF Poll
  <2>4. Len(line') = 0 /\ DOMAIN line' = {} /\ 0 <= Len(layout[type])
    BY <2>1, <2>3, Layouts
  <2> QED
    BY <2>1, <2>3, <2>4 DEF LaidInv
<1>3. CASE EndLine
  <2>1. /\ type' = type /\ fmt' = fmt /\ line' = line /\ step = "print" /\ step' = "poll"
        /\ ~AtTypeid /\ type \in Types
    BY <1>3 DEF EndLine, reflecting, TypeInv
  <2>2. PICK N \in Nat \ {0} : N = Len(layout[type])
    BY <2>1, Layouts
  <2>3. PICK p \in Nat : p = Len(line)
    BY DEF LineInv
  <2>4. /\ p <= N /\ f = p + 1
        /\ \A i \in DOMAIN line :
             line[i].id = layout[type][i].id /\ line[i].at = layout[type][i].at
    BY <2>1, <2>2, <2>3 DEF LaidInv
  <2>5. p = N
    <3> SUFFICES ASSUME p + 1 \in 1..N PROVE FALSE
      BY <2>4
    <3>1. Len(fmt) = N /\ fmt[p + 1] = layout[type][p + 1].id
      BY <2>1, <2>2, IdsOf
    <3>2. fmt[p + 1] \in Scalars /\ p + 1 \in DOMAIN fmt
      BY <2>1, <2>2, <3>1, Ends, IdsOf
    <3>3. fmt[p + 1] \notin Unprintable
      BY <3>2 DEF TextInv
    <3>4. ~AtNumber
      BY <2>4, <3>2, NumberAssumption DEF AtNumber
    <3>5. Position = p + 1
      BY <2>4, <3>4 DEF Position
    <3> QED
      BY <2>1, <3>1, <3>2, <3>3, <3>5 DEF AtTypeid, HasTypeid
  <2> QED
    BY <2>1, <2>2, <2>3, <2>4, <2>5 DEF LaidInv
<1>4. CASE Compile \/ Run
  <2>1. fmt' = fmt /\ type' = type /\ step = "compile" /\ type \in Types
    BY <1>4 DEF Compile, Run, ReflectStep, Halve, HalvedEnough, CountDown, Counted, Bind,
                AppendTypeid, Enter, Formatted, reflecting, TypeInv
  <2>2. FALSE
    BY <2>1 DEF LaidInv
  <2> QED
    BY <2>2
<1>5. CASE Write \/ UNCHANGED vars
  <2>1. /\ type' = type /\ fmt' = fmt /\ line' = line /\ step' = step /\ f' = f /\ b' = b
        /\ format' = format
    BY <1>5 DEF Write, vars, reflecting
  <2>2. buf_size' = buf_size
    BY <2>1 DEF buf_size, ipc_size, sizeof_seq_lock, sizeof_tailer, CACHELINE_BYTES,
                type_info_hash_size
  <2> QED
    BY <2>1, <2>2 DEF LaidInv, EndOf, SizeOf
<1> QED
  BY <1>1, <1>2, <1>3, <1>4, <1>5 DEF Next, ToolStep

(* For every type and every placement the compiler's rules allow: what the  *)
(* tool prints by type ids alone lies where the compiler put it, field by   *)
(* field, and unless the end of the entry is cut off no field is left out.  *)
THEOREM FieldsAsLaidOutAlways == Spec => []FieldsAsLaidOut
PROOF
<1>1. LaidInv => FieldsAsLaidOut
  BY DEF LaidInv, FieldsAsLaidOut
<1> QED
  BY TypeInvInit, TypeInvNext, LineInvInit, LineInvNext, TextInvInit, TextInvNext,
     LaidInvInit, LaidInvNext, <1>1, PTL DEF Spec

=============================================================================
