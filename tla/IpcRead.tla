------------------------------- MODULE IpcRead -------------------------------
(***************************************************************************)
(* The command-line tool: it maps the segment of a topic, waits for new     *)
(* messages and prints them, by the format the writer's shmem_buf left      *)
(* behind the entry (Reflect), by one given on the command line, or as      *)
(* hexadecimal digits (ipc_read.cpp, print_format.h).                       *)
(*                                                                         *)
(* The copy is taken under the sequence lock, whose promise (LatestEntry)   *)
(* makes it one step.  Printing is one step per field, and the writer goes  *)
(* on while the tool prints.                                                *)
(***************************************************************************)
EXTENDS Reflect

CONSTANTS
  ArgumentFormats,  \* formats for argv[2]: type ids, numbers, anything else
  Number,           \* the value of each token that is a number
  NoArgument,       \* no argv[2]
  MaxMessages       \* bound: messages of the writer

\* Type ids are letters, and a type without one cannot be named in a format.
ASSUME NumberAssumption ==
  /\ Number \in [DOMAIN Number -> Nat]
  /\ DOMAIN Number \cap Scalars = {}
  /\ \A argv2 \in ArgumentFormats : \A i \in DOMAIN argv2 : argv2[i] \notin Unprintable

VARIABLES
  published,  \* messages written
  seq,        \* the newest of them the tool has taken
  argument,   \* argv[2]
  step,       \* "compile", "poll" or "print"
  fmt,        \* the format of the line
  f,          \* position in it
  b,          \* position in buf, from its start
  line        \* the fields printed on the line: type id, place, message

vars == <<reflecting, published, seq, argument, step, fmt, f, b, line>>

CACHELINE_BYTES == 64
type_info_hash_size == 4

-----------------------------------------------------------------------------
(* What shmem_buf puts where (Shmem)                                        *)

sizeof_tailer == RoundUp(type_info_hash_size + Len(format), 4)
sizeof_seq_lock == CACHELINE_BYTES + RoundUp(sizeof[type], CACHELINE_BYTES)
ipc_size == sizeof_seq_lock + sizeof_tailer

(* What main() makes of the size of the segment                             *)

\* Seeded fault: more than the tailer is taken off.
buf_size_less == ipc_size - 4 * 4 - CACHELINE_BYTES

buf_size == ipc_size - 2 * 4 - CACHELINE_BYTES

debug_tail_size == ipc_size % CACHELINE_BYTES

debug_format_loc == ipc_size - (debug_tail_size - type_info_hash_size)

\* The text at a place in the segment: the format, and zeroes after it.
TextAt(loc) ==
  LET first == loc - (sizeof_seq_lock + type_info_hash_size) + 1
  IN  SubSeq(format, first, Len(format))

-----------------------------------------------------------------------------
Init ==
  /\ \E T \in Types : Reflect(T)
  /\ published = 0
  /\ seq = 0
  /\ argument \in ArgumentFormats \cup {NoArgument}
  /\ step = "compile"
  /\ fmt = <<>>
  /\ f = 1
  /\ b = 0
  /\ line = <<>>

Compile ==
  /\ step = "compile"
  /\ ReflectStep
  /\ UNCHANGED <<published, seq, argument, step, fmt, f, b, line>>

\* The writer attaches, which the tailer's size must allow, and the tool starts.
Run ==
  /\ step = "compile"
  /\ phase = "done"
  /\ sizeof_tailer < CACHELINE_BYTES
  /\ step' = "poll"
  /\ UNCHANGED <<reflecting, published, seq, argument, fmt, f, b, line>>

Write ==
  /\ step # "compile"
  /\ published < MaxMessages
  /\ published' = published + 1
  /\ UNCHANGED <<reflecting, seq, argument, step, fmt, f, b, line>>

\* Seeded fault: a message is printed again at every poll.
IsNewAlways == published # 0

\* Seeded fault: the first new message is not noticed.
IsNewSecond == published > seq + 1

IsNew == published # seq

Hex == <<[id |-> "hex", at |-> 0, message |-> published]>>

\* One round of the loop in main(): a new message is copied ...
Poll ==
  /\ step = "poll"
  /\ IsNew
  /\ seq' = published
  /\ b' = 0
  /\ f' = 1
  /\ IF argument # NoArgument
     THEN fmt' = argument /\ line' = <<>> /\ step' = "print"
     ELSE IF debug_tail_size > type_info_hash_size
     THEN fmt' = TextAt(debug_format_loc) /\ line' = <<>> /\ step' = "print"
     ELSE fmt' = <<>> /\ line' = Hex /\ step' = "poll"
  /\ UNCHANGED <<reflecting, published, argument>>

-----------------------------------------------------------------------------
(* ... and printed: one round of the loop in print()                        *)

\* print_format_alignment: from the start of a field to where its type may be.
alignment(T, at) ==
  LET alignment_error == at % ScalarSize[T]
  IN  IF alignment_error > 0 THEN ScalarSize[T] - alignment_error ELSE 0

\* A number in the format skips as many bytes; strtol leaves f behind it.
AtNumber == f <= Len(fmt) /\ fmt[f] \in DOMAIN Number
Place == IF AtNumber THEN b + Number[fmt[f]] ELSE b
Position == IF AtNumber THEN f + 1 ELSE f

\* print_format knows the character; "s" it takes for a short, so the string
\* of print() is never reached.
AtTypeid == Position <= Len(fmt) /\ HasTypeid(fmt[Position])

\* Seeded fault: a field is looked for right behind the one before.
PaddingNone(T, at) == 0

Padding(T, at) == alignment(T, at)

PrintField ==
  LET T == fmt[Position]
      at == Place + Padding(T, Place)
  IN
  /\ step = "print"
  /\ AtTypeid
  /\ line' = Append(line, [id |-> T, at |-> at, message |-> seq])
  /\ b' = at + ScalarSize[T]
  /\ f' = Position + 1
  /\ step' = IF b' > buf_size THEN "poll" ELSE "print"
  /\ UNCHANGED <<reflecting, published, seq, argument, fmt>>

\* The line ends with the format, or at something print_format does not know.
EndLine ==
  /\ step = "print"
  /\ ~AtTypeid
  /\ step' = "poll"
  /\ UNCHANGED <<reflecting, published, seq, argument, fmt, f, b, line>>

ToolStep == Compile \/ Run \/ Poll \/ PrintField \/ EndLine

Next == ToolStep \/ Write

Spec == Init /\ [][Next]_vars

\* The compiler and the tool do not stop on their own; nobody has to write.
FairSpec == Spec /\ WF_vars(ToolStep)

-----------------------------------------------------------------------------
(* Properties                                                               *)

Ids(T) == [i \in DOMAIN layout[T] |-> layout[T][i].id]

\* No scalar is more strictly aligned than the struct within a struct it is in
\* begins, and no such struct ends in padding, when its scalars are of one size.
Uniform(T) ==
  \A i, j \in DOMAIN layout[T] : ScalarSize[layout[T][i].id] = ScalarSize[layout[T][j].id]

Simple(T) == T \in Scalars \/ \A k \in DOMAIN Fields[T] : Uniform(Fields[T][k])

(* Each field that is printed is read from where the compiler put it, though *)
(* all the tool knows is the sequence of type ids: with the writer's format, *)
(* and with the same format given on the command line for a type that has    *)
(* none (README.md:290-295).  A finished line has all of them, unless the    *)
(* end of the entry was cut off.  It holds of structs in structs only when   *)
(* their scalars have one size.                                              *)
FieldsAsLaidOut ==
  step # "compile" /\ Simple(type) /\ fmt = Ids(type) =>
    /\ \A i \in DOMAIN line :
         line[i].id = layout[type][i].id /\ line[i].at = layout[type][i].at
    /\ step = "poll" /\ sizeof[type] <= buf_size => Len(line) = Len(layout[type])

(* Whatever the format on the command line, and whatever it skips: every    *)
(* field is read from an address its type may have, and none of the bytes   *)
(* of the one before is read again.                                         *)
FieldsApart ==
  \A i \in DOMAIN line : line[i].id \in Scalars =>
    /\ line[i].at % ScalarSize[line[i].id] = 0
    /\ i + 1 \in DOMAIN line => line[i].at + ScalarSize[line[i].id] <= line[i + 1].at

(* The size the tool works out from the size of the segment is enough to    *)
(* copy the whole entry, except that up to four bytes are cut off a type    *)
(* without a format.                                                        *)
EntryCopied ==
  step # "compile" =>
    sizeof[type] - buf_size <= (IF format = <<>> THEN 4 ELSE 0)

(* However the writer and the tool interleave, every line is of one message, *)
(* and no message is printed twice, after a later one, or before it is      *)
(* written.                                                                 *)
PrintedOnce ==
  [][ /\ seq' \in seq..published'
      /\ line' # line =>
           \/ seq' > seq /\ \A i \in DOMAIN line' : line'[i].message = seq'
           \/ /\ Len(line') = Len(line) + 1 /\ SubSeq(line', 1, Len(line)) = line
              /\ \A i \in DOMAIN line' : line'[i].message = seq ]_vars

(* The newest message is printed to the end of its line unless another      *)
(* follows it, whatever the format on the command line says.                *)
NewestPrinted ==
  \A m \in 1..MaxMessages :
    published = m ~> published > m \/ (seq = m /\ step = "poll")
=============================================================================
