------------------------------ MODULE Registry ------------------------------
(***************************************************************************)
(* The two ways a process reaches a topic.                                  *)
(*                                                                         *)
(* ipc_rtid_read and ipc_rtid_write look the id up in a registry, a         *)
(* function-local static std::vector that is searched from the front and    *)
(* grown at the back (ipc_rtid.h).  ipc_read and ipc_write keep a static    *)
(* object for every spelling of a literal id (ipc.h).  Either way the       *)
(* object is a shmem_buf on the segment the id is turned into (Ids); its    *)
(* construction is Shmem's subject and its read and write are SeqLock's,    *)
(* so each is one step here.                                                *)
(*                                                                         *)
(* Readers and writers have separate registries (the transport is a         *)
(* template parameter), so a process that does both is one of each.  A      *)
(* registry has no lock: the model is of processes that use it from one     *)
(* thread.                                                                  *)
(***************************************************************************)
EXTENDS Ids, FiniteSets

CONSTANTS
  Readers, Writers,  \* processes
  Ids,               \* spellings of ids
  Runtime,           \* those a process passes to ipc_rtid_read or write
  Literals,          \* those in its calls of ipc_read or ipc_write
  MaxWrites          \* bound: messages per segment

Procs == Readers \cup Writers

ASSUME ProgramsAssumption ==
  /\ Runtime \in [Procs -> SUBSET Ids]
  /\ Literals \in [Procs -> SUBSET Ids]
  /\ MaxWrites \in Nat

Topics == {Topic(id) : id \in Ids}
Names == {RuntimeName(id) : id \in Ids} \cup {LiteralName(id) : id \in Ids}

\* Every name has its underscores.
ASSUME NamesAssumption == <<>> \notin Names

VARIABLES
  count,     \* messages written to each segment
  registry,  \* the items of each registry, in order
  capacity,  \* of the vector
  storage,   \* items already moved to the larger array, while it grows
  temp,      \* the item push_back was called with
  pc,
  wanted,    \* prepared_id of the call under way
  item,      \* position of the loop
  literal,   \* the static objects of ipc_read or ipc_write, by spelling
  mapped,    \* how often a process has mapped each segment
  answer     \* what the last read returned to whom

vars == <<count, registry, capacity, storage, temp, pc, wanted, item, literal,
          mapped, answer>>

NULL == <<>>

\* A shmem_buf under the id it is registered by; it is mapped where buf says.
Absent == [id |-> NULL, buf |-> NULL, prev_seq |-> 0, has_read_once |-> FALSE]
Fresh(n) == [Absent EXCEPT !.id = n, !.buf = n]

NoAnswer == [reader |-> <<>>, rc |-> "none", message |-> 0]

Init ==
  /\ count = [n \in Names |-> 0]
  /\ registry = [p \in Procs |-> <<>>]
  /\ capacity = [p \in Procs |-> 0]
  /\ storage = [p \in Procs |-> <<>>]
  /\ temp = [p \in Procs |-> Absent]
  /\ pc = [p \in Procs |-> "idle"]
  /\ wanted = [p \in Procs |-> NULL]
  /\ item = [p \in Procs |-> 1]
  /\ literal = [p \in Procs |-> [i \in Ids |-> Absent]]
  /\ mapped = [p \in Procs |-> [n \in Names |-> 0]]
  /\ answer = NoAnswer

-----------------------------------------------------------------------------
(* shmem_buf: the parts of it the vector calls                              *)

\* shmem_buf(shmem_buf&&): what the new object is ...
Moved(o) == o

\* Seeded fault: both objects keep the mapping.
MovedFromShared(o) == o

\* ... and what is left of the other.
MovedFrom(o) == [o EXCEPT !.buf = NULL]

Mapped(p, n) == [mapped EXCEPT ![p][n] = @ + 1]

\* ~shmem_buf
Destroyed(p, o) ==
  IF o.buf = NULL THEN mapped ELSE [mapped EXCEPT ![p][o.buf] = @ - 1]

\* seq_lock::read, of a writer that is not in the middle of a write
ReadBy(o) ==
  [o EXCEPT !.prev_seq = count[o.buf],
            !.has_read_once = @ \/ count[o.buf] # o.prev_seq]

Return(r, o) ==
  [reader |-> r,
   rc |-> IF count[o.buf] # o.prev_seq THEN "ok"
          ELSE IF count[o.buf] = 0 /\ ~o.has_read_once THEN "ENOMSG" ELSE "EAGAIN",
   message |-> count[o.buf]]

Publish(n) ==
  /\ count[n] < MaxWrites
  /\ count' = [count EXCEPT ![n] = @ + 1]

-----------------------------------------------------------------------------
(* create_ipc_rtid_lazy                                                     *)

Goto(p, stage) == pc' = [pc EXCEPT ![p] = stage]

Call(p, i) ==
  /\ pc[p] = "idle"
  /\ Goto(p, "lookup")
  /\ wanted' = [wanted EXCEPT ![p] = RuntimeName(i)]
  /\ item' = [item EXCEPT ![p] = 1]
  /\ UNCHANGED <<count, registry, capacity, storage, temp, literal, mapped, answer>>

AtEnd(p) == item[p] > Len(registry[p])

Lookup(p) ==
  /\ pc[p] = "lookup"
  /\ ~AtEnd(p)
  /\ IF registry[p][item[p]].id = wanted[p]
     THEN Goto(p, "found") /\ UNCHANGED item
     ELSE item' = [item EXCEPT ![p] = @ + 1] /\ UNCHANGED pc
  /\ UNCHANGED <<count, registry, capacity, storage, temp, wanted, literal, mapped, answer>>

Construct(p) ==
  /\ pc[p] = "lookup"
  /\ AtEnd(p)
  /\ temp' = [temp EXCEPT ![p] = Fresh(wanted[p])]
  /\ mapped' = Mapped(p, wanted[p])
  /\ Goto(p, "push_back")
  /\ UNCHANGED <<count, registry, capacity, storage, wanted, item, literal, answer>>

\* There is room: the item is moved to the end and the temporary destroyed.
PushBack(p) ==
  /\ pc[p] = "push_back"
  /\ Len(registry[p]) < capacity[p]
  /\ registry' = [registry EXCEPT ![p] = Append(@, Moved(temp[p]))]
  /\ mapped' = Destroyed(p, MovedFrom(temp[p]))
  /\ temp' = [temp EXCEPT ![p] = Absent]
  /\ item' = [item EXCEPT ![p] = Len(registry[p]) + 1]
  /\ Goto(p, "found")
  /\ UNCHANGED <<count, capacity, storage, wanted, literal, answer>>

\* There is none: a larger array is allocated (libstdc++ doubles it) ...
Grow(p) ==
  /\ pc[p] = "push_back"
  /\ Len(registry[p]) = capacity[p]
  /\ capacity' = [capacity EXCEPT ![p] = IF @ = 0 THEN 1 ELSE 2 * @]
  /\ Goto(p, "relocate")
  /\ UNCHANGED <<count, registry, storage, temp, wanted, item, literal, mapped, answer>>

\* ... the items are moved over one by one, and destroyed where they were ...
Relocate(p) ==
  LET first == registry[p][Len(storage[p]) + 1] IN
  /\ pc[p] = "relocate"
  /\ Len(storage[p]) < Len(registry[p])
  /\ storage' = [storage EXCEPT ![p] = Append(@, Moved(first))]
  /\ registry' = [registry EXCEPT ![p][Len(storage[p]) + 1] = MovedFrom(@)]
  /\ mapped' = Destroyed(p, MovedFrom(first))
  /\ UNCHANGED <<count, capacity, temp, pc, wanted, item, literal, answer>>

\* ... and the vector takes the larger array, which now has room.
Relocated(p) ==
  /\ pc[p] = "relocate"
  /\ Len(storage[p]) = Len(registry[p])
  /\ registry' = [registry EXCEPT ![p] = storage[p]]
  /\ storage' = [storage EXCEPT ![p] = <<>>]
  /\ Goto(p, "push_back")
  /\ UNCHANGED <<count, capacity, temp, wanted, item, literal, mapped, answer>>

-----------------------------------------------------------------------------
(* ipc_rtid_write and ipc_rtid_read, once the transport is found            *)

\* The reference and the name it was looked up by are gone with the call.
Leave(p) ==
  /\ Goto(p, "idle")
  /\ wanted' = [wanted EXCEPT ![p] = NULL]
  /\ item' = [item EXCEPT ![p] = 1]

RuntimeWrite(p) ==
  /\ pc[p] = "found"
  /\ p \in Writers
  /\ Publish(registry[p][item[p]].buf)
  /\ Leave(p)
  /\ UNCHANGED <<registry, capacity, storage, temp, literal, mapped, answer>>

RuntimeRead(p) ==
  /\ pc[p] = "found"
  /\ p \in Readers
  /\ answer' = Return(<<p>>, registry[p][item[p]])
  /\ registry' = [registry EXCEPT ![p][item[p]] = ReadBy(@)]
  /\ Leave(p)
  /\ UNCHANGED <<count, capacity, storage, temp, literal, mapped>>

-----------------------------------------------------------------------------
(* ipc_lazy_write and ipc_lazy_read, the static object made by a first call *)

Static(p, i) == IF literal[p][i] = Absent THEN Fresh(LiteralName(i)) ELSE literal[p][i]

MappedStatic(p, i) ==
  IF literal[p][i] = Absent THEN Mapped(p, LiteralName(i)) ELSE mapped

LiteralWrite(p, i) ==
  /\ pc[p] = "idle"
  /\ p \in Writers
  /\ literal' = [literal EXCEPT ![p][i] = Static(p, i)]
  /\ mapped' = MappedStatic(p, i)
  /\ Publish(Static(p, i).buf)
  /\ UNCHANGED <<registry, capacity, storage, temp, pc, wanted, item, answer>>

LiteralRead(p, i) ==
  /\ pc[p] = "idle"
  /\ p \in Readers
  /\ answer' = Return(<<p, i>>, Static(p, i))
  /\ literal' = [literal EXCEPT ![p][i] = ReadBy(Static(p, i))]
  /\ mapped' = MappedStatic(p, i)
  /\ UNCHANGED <<count, registry, capacity, storage, temp, pc, wanted, item>>

-----------------------------------------------------------------------------
RuntimeStep(p) ==
  \/ Lookup(p) \/ Construct(p)
  \/ PushBack(p) \/ Grow(p) \/ Relocate(p) \/ Relocated(p)
  \/ RuntimeWrite(p) \/ RuntimeRead(p)

Next ==
  \E p \in Procs :
    \/ RuntimeStep(p)
    \/ \E i \in Runtime[p] : Call(p, i)
    \/ \E i \in Literals[p] : LiteralWrite(p, i) \/ LiteralRead(p, i)

Spec == Init /\ [][Next]_vars

-----------------------------------------------------------------------------
(* Properties                                                               *)

\* Both ways of making a name lead to the same segment (they do not for an id
\* with the hash 0) ...
NamesAgree == \A i \in Ids : LiteralName(i) = RuntimeName(i)

\* ... and the hash tells apart the topics that slashes alone tell apart.
NamesDiffer == \A s, tp \in Topics : HashedName(s) = HashedName(tp) => s = tp

\* The places in process p where an object on segment n is.
Holders(p, n) ==
  {<<"registry", k>> : k \in {k \in DOMAIN registry[p] : registry[p][k].buf = n}}
  \cup {<<"storage", k>> : k \in {k \in DOMAIN storage[p] : storage[p][k].buf = n}}
  \cup {<<"temp", k>> : k \in {k \in {1} : temp[p].buf = n}}
  \cup {<<"literal", i>> : i \in {i \in Ids : literal[p][i].buf = n}}

(* Every mapping has exactly one owner.  The registry grows by moving       *)
(* objects and destroying what they were moved from: at no moment may an    *)
(* object that is still used have lost its mapping to such a destructor,    *)
(* nor a mapping have been left without an owner.                           *)
MappingsOwned ==
  \A p \in Procs, n \in Names : mapped[p][n] = Cardinality(Holders(p, n))

\* How far a reader of TopicMap has read: the registry of a process is one
\* reader, <<p>>, and every static object is another, <<p, i>>.
TopicReaders == {<<p>> : p \in Readers} \cup {<<p, i>> : p \in Readers, i \in Ids}

SeenIn(items, n) ==
  LET At == {k \in DOMAIN items : items[k].id = n}
  IN  IF At = {} THEN 0 ELSE items[CHOOSE k \in At : TRUE].prev_seq

SeenBy(r, tp) ==
  IF Len(r) = 1 THEN SeenIn(registry[r[1]], HashedName(tp))
  ELSE IF Topic(r[2]) = tp THEN literal[r[1]][r[2]].prev_seq ELSE 0

Published(tp) == count[HashedName(tp)]

Promise == INSTANCE TopicMap WITH
  Topics <- Topics,
  Readers <- TopicReaders,
  published <- [tp \in Topics |-> Published(tp)],
  seen <- [r \in TopicReaders |-> [tp \in Topics |-> SeenBy(r, tp)]]

(* Through ids, literals, registries that grow and static objects, every    *)
(* topic is one topic: what is written under one spelling is read under     *)
(* every other, nothing is read from another topic, and a reader is told    *)
(* each message is new exactly once, also when its object was moved in      *)
(* between (id.h, ipc_rtid.h, ipc.h).                                       *)
ImplementsTopicMap == Promise!Spec

=============================================================================
