------------------------------- MODULE Reflect -------------------------------
(***************************************************************************)
(* reflect<T>().get_format(): the format of an entry type, which ipc_read   *)
(* prints by.  The compiler does it, one template instantiation after the   *)
(* other; each is a step here.                                              *)
(*                                                                         *)
(* For every struct n_fields() searches the number of fields by asking how  *)
(* many initialisers the struct takes, first halving an upper bound, then   *)
(* counting down (n_fields.h).  The fields are bound to names and turned    *)
(* into type ids, and those that have none are entered as structs           *)
(* (reflect.h, reflection.h, print_format.h).                               *)
(*                                                                         *)
(* A std::array is a struct of as many fields here.  Arrays of C, whose     *)
(* elements n_fields() counts but no binding takes, unions, classes without *)
(* fields, and what places fields otherwise than their types do (alignas,   *)
(* bit fields, base classes, virtual functions) are left out.               *)
(***************************************************************************)
EXTENDS Integers, Sequences

CONSTANTS
  Structs,        \* aggregates that are not unions
  Others,         \* class types that are not aggregates
  Scalars,        \* scalar types; a printable one is its type id
  Unprintable,    \* those print_format_typeid has no character for
  Fields,         \* the fields of a class type
  ScalarSize,
  REFLECT_MAX_FIELDS

\* What the compiler makes of a type.
CONSTANTS
  alignof,
  sizeof,
  offsetof,   \* where each field of a class type is in it
  layout,     \* its scalars in order, each with its place
  before,     \* how many of them come before each field, and before its end
  depth       \* how deep structs are nested in it: no type contains itself

Types == Structs \cup Others \cup Scalars
Classes == Structs \cup Others

ASSUME FieldsAssumption ==
  /\ REFLECT_MAX_FIELDS \in Nat
  /\ Structs \cap Others = {} /\ Scalars \cap Classes = {}
  /\ Unprintable \subseteq Scalars
  /\ ScalarSize \in [Scalars -> {1, 2, 4, 8}]
  /\ \A S \in Structs : Fields[S] \in Seq(Structs \cup Scalars) \ {<<>>}
  /\ \A T \in Others : Fields[T] \in Seq(Types) \ {<<>>}

VARIABLES
  type,    \* the entry type
  phase,   \* "binary", "linear", "bind", "format", "done" or "refused"
  n,       \* the number of fields n_fields() tries
  todo,    \* what is still to be formatted; the head is being searched
  format

reflecting == <<type, phase, n, todo, format>>

-----------------------------------------------------------------------------
(* How the compiler lays types out                                          *)

RoundUp(a, unit) == ((a + unit - 1) \div unit) * unit

Largest(S) == CHOOSE a \in S : \A b \in S : b <= a

\* A scalar lies at a multiple of its size.
ScalarLaidOut(T) ==
  /\ alignof[T] = ScalarSize[T]
  /\ sizeof[T] = ScalarSize[T]
  /\ layout[T] = <<[id |-> T, at |-> 0]>>

\* The fields of a class lie in order, each at the first place its type may have.
ClassLaidOut(T) ==
  LET field(k) == Fields[T][k]
      last == Len(Fields[T])
  IN /\ alignof[T] = Largest({alignof[field(k)] : k \in 1..last})
     /\ offsetof[T] \in [1..last -> Nat]
     /\ offsetof[T][1] = 0
     /\ \A k \in 2..last :
          offsetof[T][k] = RoundUp(offsetof[T][k - 1] + sizeof[field(k - 1)], alignof[field(k)])
     /\ sizeof[T] = RoundUp(offsetof[T][last] + sizeof[field(last)], alignof[T])
     /\ before[T] \in [1..(last + 1) -> Nat]
     /\ before[T][1] = 0 /\ before[T][last + 1] = Len(layout[T])
     /\ \A k \in 1..last : before[T][k + 1] = before[T][k] + Len(layout[field(k)])
     /\ \A k \in 1..last : \A i \in DOMAIN layout[field(k)] :
          layout[T][before[T][k] + i] =
            [layout[field(k)][i] EXCEPT !.at = @ + offsetof[T][k]]

ASSUME LayoutAssumption ==
  /\ \A T \in Types : layout[T] \in Seq([id : Scalars, at : Nat]) \ {<<>>}
  /\ \A T \in Scalars : ScalarLaidOut(T)
  /\ \A T \in Classes : ClassLaidOut(T)

ASSUME NestingAssumption ==
  /\ depth \in [Types -> Nat]
  /\ \A T \in Classes : \A k \in DOMAIN Fields[T] : depth[Fields[T][k]] < depth[T]

\* Every field takes at least a bit.
ASSUME SizeAssumption ==
  \A T \in Types :
    /\ sizeof[T] \in Nat
    /\ (IF T \in Structs THEN Len(Fields[T]) ELSE 1) <= sizeof[T] * 8

-----------------------------------------------------------------------------
(* n_fields                                                                 *)

CHAR_BIT == 8

\* A struct takes an initialiser for each of its fields or for fewer.
count(T) == IF T \in Structs THEN Len(Fields[T]) ELSE 1
constructible(N) == N <= count(Head(todo))

Search(T) ==
  /\ phase' = "binary"
  /\ n' = sizeof[T] * CHAR_BIT

\* n_fields_binary
Halve ==
  /\ phase = "binary"
  /\ ~constructible(n)
  /\ n' = n \div 2
  /\ UNCHANGED <<type, phase, todo, format>>

\* Seeded fault: the count down begins at the lower bound.
LowerBound == n

UpperBound == n * 2 + 1

HalvedEnough ==
  /\ phase = "binary"
  /\ constructible(n)
  /\ n' = UpperBound
  /\ phase' = "linear"
  /\ UNCHANGED <<type, todo, format>>

\* n_fields_linear
CountDown ==
  /\ phase = "linear"
  /\ ~constructible(n)
  /\ n' = n - 1
  /\ UNCHANGED <<type, phase, todo, format>>

Counted ==
  /\ phase = "linear"
  /\ constructible(n)
  /\ phase' = "bind"
  /\ UNCHANGED <<type, n, todo, format>>

-----------------------------------------------------------------------------
(* reflect and get_format                                                   *)

\* Seeded fault: what a struct contains is formatted after what follows it.
NestedLast(fields, rest) == rest \o fields

Nested(fields, rest) == fields \o rest

\* reflect_impl: as many bindings as fields.  A scalar, which only reflect()
\* itself searches, stays what it is (reflect_scalar).
Bind ==
  /\ phase = "bind"
  /\ IF n > REFLECT_MAX_FIELDS
     THEN phase' = "refused" /\ UNCHANGED todo
     ELSE /\ phase' = "format"
          /\ todo' = IF Head(todo) \in Structs
                     THEN Nested(SubSeq(Fields[Head(todo)], 1, n), Tail(todo)) ELSE todo
  /\ UNCHANGED <<type, n, format>>

\* print_format_typeid
HasTypeid(T) == T \in Scalars \ Unprintable

AppendTypeid ==
  /\ phase = "format"
  /\ todo # <<>>
  /\ HasTypeid(Head(todo))
  /\ format' = Append(format, Head(todo))
  /\ todo' = Tail(todo)
  /\ UNCHANGED <<type, phase, n>>

\* reflect_aggregate, of a field
Enter ==
  /\ phase = "format"
  /\ todo # <<>>
  /\ ~HasTypeid(Head(todo))
  /\ IF Head(todo) \in Structs THEN Search(Head(todo))
     ELSE phase' = "refused" /\ UNCHANGED n
  /\ UNCHANGED <<type, todo, format>>

Formatted ==
  /\ phase = "format"
  /\ todo = <<>>
  /\ phase' = "done"
  /\ UNCHANGED <<type, n, todo, format>>

\* reflect(): a type that is no aggregate has an empty format.
Reflect(T) ==
  /\ type = T
  /\ format = <<>>
  /\ IF T \in Others THEN phase = "done" /\ todo = <<>> /\ n = 0
     ELSE phase = "binary" /\ todo = <<T>> /\ n = sizeof[T] * CHAR_BIT

ReflectStep ==
  \/ Halve \/ HalvedEnough \/ CountDown \/ Counted
  \/ Bind \/ AppendTypeid \/ Enter \/ Formatted

-----------------------------------------------------------------------------
(* Properties                                                               *)

(* The search never settles on a number that is too small, which would drop *)
(* the last fields, and never on one the bindings do not take: neither in   *)
(* the halving nor at the first guess of the count down is the right number *)
(* stepped over.                                                            *)
CountsFields == phase = "bind" => n = count(Head(todo))

(* The format names all scalars of the type, in the order they have in      *)
(* memory.                                                                  *)
FormatIsLayout ==
  phase = "done" /\ type \notin Others =>
    format = [i \in DOMAIN layout[type] |-> layout[type][i].id]
=============================================================================
