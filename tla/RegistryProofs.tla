--------------------------- MODULE RegistryProofs ---------------------------
(* That registries and static objects implement TopicMap, for every set of    *)
(* processes and ids, every hash that keeps topics apart, and any number of  *)
(* messages.                                                                *)
EXTENDS Registry, TLAPS

-----------------------------------------------------------------------------
(* The inductive invariant                                                  *)

Object == [id : Names \cup {NULL}, buf : Names \cup {NULL},
           prev_seq : Nat, has_read_once : BOOLEAN]

TypeInv ==
  /\ count \in [Names -> Nat]
  /\ registry \in [Procs -> Seq(Object)]
  /\ storage \in [Procs -> Seq(Object)]
  /\ temp \in [Procs -> Object]
  /\ pc \in [Procs -> {"idle", "lookup", "push_back", "relocate", "found"}]
  /\ wanted \in [Procs -> Names \cup {NULL}]
  /\ item \in [Procs -> Nat \ {0}]
  /\ literal \in [Procs -> [Ids -> Object]]

\* An object has read no further than was written, and knows whether it has.
Known(o) ==
  /\ o.id \in Names
  /\ o.prev_seq <= count[o.id]
  /\ o.has_read_once => o.prev_seq # 0

InPlace(o) == o.buf = o.id

\* A registry has one item for an id, and what has been moved to the larger
\* array is what was there, still mapped.
RegistryInv(p) ==
  /\ \A k \in DOMAIN registry[p] : Known(registry[p][k])
  /\ \A j, k \in DOMAIN registry[p] : registry[p][j].id = registry[p][k].id => j = k
  /\ pc[p] # "relocate" =>
       storage[p] = <<>> /\ \A k \in DOMAIN registry[p] : InPlace(registry[p][k])
  /\ pc[p] = "relocate" =>
       /\ Len(storage[p]) <= Len(registry[p])
       /\ \A k \in DOMAIN storage[p] :
            /\ InPlace(storage[p][k])
            /\ storage[p][k].id = registry[p][k].id
            /\ storage[p][k].prev_seq = registry[p][k].prev_seq
            /\ storage[p][k].has_read_once = registry[p][k].has_read_once
       /\ \A k \in DOMAIN registry[p] : k > Len(storage[p]) => InPlace(registry[p][k])

\* What a call looks for is not in the part it has searched, and what it has
\* found is what it looked for.
CallInv(p) ==
  /\ pc[p] # "idle" => \E tp \in Topics : wanted[p] = HashedName(tp)
  /\ pc[p] = "lookup" =>
       /\ item[p] <= Len(registry[p]) + 1
       /\ \A k \in DOMAIN registry[p] : k < item[p] => registry[p][k].id # wanted[p]
  /\ pc[p] \in {"push_back", "relocate"} =>
       /\ temp[p] = Fresh(wanted[p])
       /\ \A k \in DOMAIN registry[p] : registry[p][k].id # wanted[p]
  /\ pc[p] = "found" =>
       item[p] \in DOMAIN registry[p] /\ registry[p][item[p]].id = wanted[p]

LiteralInv(p) ==
  \A i \in Ids :
    \/ literal[p][i] = Absent
    \/ Known(literal[p][i]) /\ InPlace(literal[p][i]) /\ literal[p][i].id = LiteralName(i)

ProcessInv(p) == RegistryInv(p) /\ CallInv(p) /\ LiteralInv(p)

IInv == TypeInv /\ \A p \in Procs : ProcessInv(p)

-----------------------------------------------------------------------------
(* Names                                                                    *)

\* The names of topics, and those of ids both ways, are names.
LEMMA NamesNamed ==
  /\ \A tp \in Topics : HashedName(tp) \in Names
  /\ \A i \in Ids : Topic(i) \in Topics /\ RuntimeName(i) = HashedName(Topic(i))
  /\ \A i \in Ids : RuntimeName(i) \in Names /\ LiteralName(i) \in Names
  /\ NULL \notin Names
BY NamesAssumption DEF Names, Topics, RuntimeName, NULL

\* A new object fits its type, and has read nothing.
LEMMA FreshObject ==
  /\ Absent \in Object
  /\ \A n \in Names :
       /\ Fresh(n) \in Object /\ Fresh(n) # Absent
       /\ Fresh(n).id = n /\ Fresh(n).buf = n
       /\ Fresh(n).prev_seq = 0 /\ Fresh(n).has_read_once = FALSE
BY NamesNamed DEF Absent, Fresh, Object, NULL

-----------------------------------------------------------------------------
(* The invariant holds                                                      *)

\* Empty registries satisfy the invariant.
LEMMA InitInv == Init => IInv
PROOF
<1> SUFFICES ASSUME Init PROVE IInv
  OBVIOUS
<1>1. TypeInv
  BY FreshObject DEF Init, TypeInv
<1>2. ASSUME NEW p \in Procs PROVE ProcessInv(p)
  BY DEF Init, ProcessInv, RegistryInv, CallInv, LiteralInv
<1> QED
  BY <1>1, <1>2 DEF IInv

\* A process nobody touches keeps its invariant while messages are written.
LEMMA OthersKeep ==
  ASSUME TypeInv, NEW q \in Procs, ProcessInv(q),
         \A n \in Names : count'[n] \in Nat /\ count[n] <= count'[n],
         registry'[q] = registry[q], storage'[q] = storage[q], temp'[q] = temp[q],
         pc'[q] = pc[q], wanted'[q] = wanted[q], item'[q] = item[q],
         literal'[q] = literal[q]
  PROVE  ProcessInv(q)'
PROOF
<1>0. ASSUME NEW o \in Object, Known(o) PROVE Known(o)'
  BY <1>0 DEF Known, TypeInv, Object
<1>1. RegistryInv(q)'
  <2>1. \A k \in DOMAIN registry[q] : registry[q][k] \in Object
    BY DEF TypeInv
  <2> QED
    BY <1>0, <2>1 DEF ProcessInv, RegistryInv, InPlace, Known
<1>2. CallInv(q)'
  BY DEF ProcessInv, CallInv
<1>3. LiteralInv(q)'
  <2>1. \A i \in Ids : literal[q][i] \in Object
    BY DEF TypeInv
  <2> QED
    BY <1>0, <2>1 DEF ProcessInv, LiteralInv, InPlace, Known
<1> QED
  BY <1>1, <1>2, <1>3 DEF ProcessInv

\* What every action of p leaves alone, and what has to be shown of it.
Elsewhere(p) ==
  \A q \in Procs \ {p} :
    /\ registry'[q] = registry[q] /\ storage'[q] = storage[q] /\ temp'[q] = temp[q]
    /\ pc'[q] = pc[q] /\ wanted'[q] = wanted[q] /\ item'[q] = item[q]
    /\ literal'[q] = literal[q]

CountGrows == \A n \in Names : count'[n] \in Nat /\ count[n] <= count'[n]

\* What an action of p has to keep.
LEMMA Assembled ==
  ASSUME IInv, NEW p \in Procs, TypeInv', Elsewhere(p), CountGrows, ProcessInv(p)'
  PROVE  IInv'
PROOF
<1>1. ASSUME NEW q \in Procs, q # p PROVE ProcessInv(q)'
  BY <1>1, OthersKeep DEF IInv, Elsewhere, CountGrows
<1> QED
  BY <1>1 DEF IInv

\* A call begins with nothing searched.
LEMMA CallKeeps ==
  ASSUME IInv, NEW p \in Procs, NEW i \in Ids, Call(p, i)
  PROVE  IInv'
PROOF
<1> USE DEF Call, Goto
<1>1. TypeInv'
  BY NamesNamed DEF IInv, TypeInv
<1>2. Elsewhere(p) /\ CountGrows
  BY DEF Elsewhere, CountGrows, IInv, TypeInv
<1>3. pc'[p] = "lookup" /\ wanted'[p] = RuntimeName(i) /\ item'[p] = 1
  BY DEF IInv, TypeInv
<1>4. RegistryInv(p)' /\ LiteralInv(p)'
  BY <1>3 DEF IInv, ProcessInv, RegistryInv, LiteralInv, Known, InPlace
<1>5. CallInv(p)'
  BY <1>3, NamesNamed DEF CallInv, IInv, TypeInv
<1> QED
  BY <1>1, <1>2, <1>4, <1>5, Assembled DEF ProcessInv

\* A round of the loop finds the id or puts one item behind it.
LEMMA LookupKeeps ==
  ASSUME IInv, NEW p \in Procs, Lookup(p)
  PROVE  IInv'
PROOF
<1> USE DEF Lookup, Goto, AtEnd
<1>1. TypeInv'
  <2>1. item' \in [Procs -> Nat \ {0}]
    BY DEF IInv, TypeInv
  <2>2. pc' \in [Procs -> {"idle", "lookup", "push_back", "relocate", "found"}]
    BY DEF IInv, TypeInv
  <2> QED
    BY <2>1, <2>2 DEF IInv, TypeInv
<1>2. Elsewhere(p) /\ CountGrows
  BY DEF Elsewhere, CountGrows, IInv, TypeInv
<1>3. RegistryInv(p)' /\ LiteralInv(p)'
  BY DEF IInv, TypeInv, ProcessInv, RegistryInv, LiteralInv, Known, InPlace
<1>4. CallInv(p)'
  <2>1. /\ registry[p] \in Seq(Object) /\ item[p] \in DOMAIN registry[p]
        /\ item[p] \in Nat
    BY DEF IInv, TypeInv
  <2>2. CASE registry[p][item[p]].id = wanted[p]
    BY <2>1, <2>2 DEF IInv, TypeInv, ProcessInv, CallInv
  <2>3. CASE registry[p][item[p]].id # wanted[p]
    <3>1. item'[p] = item[p] + 1 /\ pc'[p] = "lookup"
      BY <2>3 DEF IInv, TypeInv
    <3>2. \A k \in DOMAIN registry[p] : k < item[p] => registry[p][k].id # wanted[p]
      BY DEF IInv, ProcessInv, CallInv
    <3>3. \A k \in DOMAIN registry[p] : k < item[p] + 1 => registry[p][k].id # wanted[p]
      BY <2>1, <2>3, <3>2
    <3>4. \E tp \in Topics : wanted[p] = HashedName(tp)
      BY DEF IInv, ProcessInv, CallInv
    <3> QED
      BY <2>1, <3>1, <3>3, <3>4 DEF CallInv
  <2> QED
    BY <2>2, <2>3
<1> QED
  BY <1>1, <1>2, <1>3, <1>4, Assembled DEF ProcessInv

\* At the end of the loop the id is in no item.
LEMMA ConstructKeeps ==
  ASSUME IInv, NEW p \in Procs, Construct(p)
  PROVE  IInv'
PROOF
<1> USE DEF Construct, Goto, AtEnd
<1>0. wanted[p] \in Names
  BY NamesNamed DEF IInv, ProcessInv, CallInv
<1>1. TypeInv'
  BY <1>0, FreshObject DEF IInv, TypeInv
<1>2. Elsewhere(p) /\ CountGrows
  BY DEF Elsewhere, CountGrows, IInv, TypeInv
<1>3. pc'[p] = "push_back" /\ temp'[p] = Fresh(wanted[p])
  BY DEF IInv, TypeInv
<1>4. RegistryInv(p)' /\ LiteralInv(p)'
  BY <1>3 DEF IInv, TypeInv, ProcessInv, RegistryInv, LiteralInv, Known, InPlace
<1>5. CallInv(p)'
  <2>1. \A k \in DOMAIN registry[p] : registry[p][k].id # wanted[p]
    <3>1. registry[p] \in Seq(Object) /\ item[p] \in Nat /\ item[p] > Len(registry[p])
      BY DEF IInv, TypeInv
    <3>2. \A k \in DOMAIN registry[p] : k < item[p]
      BY <3>1
    <3> QED
      BY <3>2 DEF IInv, ProcessInv, CallInv
  <2> QED
    BY <1>3, <2>1 DEF IInv, ProcessInv, CallInv, Fresh, Absent
<1> QED
  BY <1>1, <1>2, <1>4, <1>5, Assembled DEF ProcessInv

\* The new item is the only one with its id.
LEMMA PushBackKeeps ==
  ASSUME IInv, NEW p \in Procs, PushBack(p)
  PROVE  IInv'
PROOF
<1> USE DEF PushBack, Goto, Moved
<1>0. /\ registry[p] \in Seq(Object) /\ temp[p] \in Object /\ wanted[p] \in Names
      /\ temp[p] = Fresh(wanted[p])
      /\ \A k \in DOMAIN registry[p] : registry[p][k].id # wanted[p]
  BY NamesNamed DEF IInv, TypeInv, ProcessInv, CallInv
<1>1. /\ registry'[p] = Append(registry[p], temp[p])
      /\ item'[p] = Len(registry[p]) + 1
      /\ pc'[p] = "found"
  BY DEF IInv, TypeInv
<1>2. /\ Len(registry'[p]) = Len(registry[p]) + 1
      /\ DOMAIN registry'[p] = DOMAIN registry[p] \cup {Len(registry[p]) + 1}
      /\ \A k \in DOMAIN registry[p] : registry'[p][k] = registry[p][k]
      /\ registry'[p][Len(registry[p]) + 1] = temp[p]
  BY <1>0, <1>1
<1>3. TypeInv'
  <2>1. registry' \in [Procs -> Seq(Object)]
    BY <1>0 DEF IInv, TypeInv
  <2>2. item' \in [Procs -> Nat \ {0}]
    BY <1>0 DEF IInv, TypeInv
  <2> QED
    BY <2>1, <2>2, FreshObject DEF IInv, TypeInv
<1>4. Elsewhere(p) /\ CountGrows
  BY DEF Elsewhere, CountGrows, IInv, TypeInv
<1>5. temp[p].id = wanted[p] /\ InPlace(temp[p]) /\ Known(temp[p])
  BY <1>0, FreshObject DEF InPlace, Known, IInv, TypeInv
<1>6. RegistryInv(p)'
  <2>1. (\A k \in DOMAIN registry[p] : Known(registry[p][k]) /\ InPlace(registry[p][k]))'
    <3>1. \A k \in DOMAIN registry[p] : Known(registry[p][k]) /\ InPlace(registry[p][k])
      BY DEF IInv, ProcessInv, RegistryInv
    <3> QED
      BY <1>2, <1>5, <3>1 DEF Known, InPlace
  <2>2. \A j, k \in DOMAIN registry'[p] : registry'[p][j].id = registry'[p][k].id => j = k
    <3>1. \A j, k \in DOMAIN registry[p] : registry[p][j].id = registry[p][k].id => j = k
      BY DEF IInv, ProcessInv, RegistryInv
    <3> QED
      BY <1>0, <1>2, <1>5, <3>1
  <2>3. storage'[p] = <<>>
    BY DEF IInv, ProcessInv, RegistryInv
  <2> QED
    BY <1>1, <2>1, <2>2, <2>3 DEF RegistryInv
<1>7. CallInv(p)'
  BY <1>0, <1>1, <1>2, <1>5 DEF CallInv, IInv, ProcessInv
<1>8. LiteralInv(p)'
  BY DEF IInv, ProcessInv, LiteralInv, Known, InPlace
<1> QED
  BY <1>3, <1>4, <1>6, <1>7, <1>8, Assembled DEF ProcessInv

\* Growth begins with nothing moved.
LEMMA GrowKeeps ==
  ASSUME IInv, NEW p \in Procs, Grow(p)
  PROVE  IInv'
PROOF
<1> USE DEF Grow, Goto
<1>1. TypeInv'
  BY DEF IInv, TypeInv
<1>2. Elsewhere(p) /\ CountGrows
  BY DEF Elsewhere, CountGrows, IInv, TypeInv
<1>3. pc'[p] = "relocate"
  BY DEF IInv, TypeInv
<1>4. RegistryInv(p)'
  <2>1. registry[p] \in Seq(Object) /\ storage[p] = <<>>
    BY DEF IInv, TypeInv, ProcessInv, RegistryInv
  <2> QED
    BY <1>3, <2>1 DEF IInv, ProcessInv, RegistryInv, Known, InPlace
<1>5. CallInv(p)' /\ LiteralInv(p)'
  BY <1>3 DEF IInv, ProcessInv, CallInv, LiteralInv, Known, InPlace
<1> QED
  BY <1>1, <1>2, <1>4, <1>5, Assembled DEF ProcessInv

\* A moved item keeps its id and memory, and what it was moved from loses its
\* place only.
LEMMA RelocateKeeps ==
  ASSUME IInv, NEW p \in Procs, Relocate(p)
  PROVE  IInv'
PROOF
<1> DEFINE K == Len(storage[p]) + 1
           first == registry[p][K]
           left == [first EXCEPT !.buf = NULL]
<1>0. /\ registry[p] \in Seq(Object) /\ storage[p] \in Seq(Object)
      /\ pc[p] = "relocate" /\ Len(storage[p]) < Len(registry[p])
      /\ K \in DOMAIN registry[p] /\ K \in Nat
      /\ first \in Object
  BY DEF Relocate, IInv, TypeInv
<1>1. /\ registry'[p] = [registry[p] EXCEPT ![K] = left]
      /\ storage'[p] = Append(storage[p], first)
      /\ UNCHANGED <<count, temp, pc, wanted, item, literal>>
  BY DEF Relocate, Moved, MovedFrom, IInv, TypeInv
<1>2. /\ left \in Object /\ left.id = first.id /\ left.prev_seq = first.prev_seq
      /\ left.has_read_once = first.has_read_once
  BY <1>0 DEF Object
<1> HIDE DEF left
<1>3. /\ DOMAIN registry'[p] = DOMAIN registry[p] /\ Len(registry'[p]) = Len(registry[p])
      /\ \A k \in DOMAIN registry[p] :
           registry'[p][k] = IF k = K THEN left ELSE registry[p][k]
  BY <1>0, <1>1, <1>2
<1>4. /\ Len(storage'[p]) = K /\ DOMAIN storage'[p] = DOMAIN storage[p] \cup {K}
      /\ \A k \in DOMAIN storage[p] : storage'[p][k] = storage[p][k]
      /\ storage'[p][K] = first
  BY <1>0, <1>1
<1>5. TypeInv'
  <2>1. registry'[p] \in Seq(Object) /\ storage'[p] \in Seq(Object)
    BY <1>0, <1>1, <1>2
  <2>2. registry' \in [Procs -> Seq(Object)]
    BY <2>1 DEF Relocate, IInv, TypeInv
  <2>3. storage' \in [Procs -> Seq(Object)]
    BY <2>1 DEF Relocate, IInv, TypeInv
  <2> QED
    BY <1>1, <2>2, <2>3 DEF IInv, TypeInv
<1>6. Elsewhere(p) /\ CountGrows
  BY DEF Relocate, Elsewhere, CountGrows, IInv, TypeInv
<1>7. RegistryInv(p)'
  <2>0. RegistryInv(p)
    BY DEF IInv, ProcessInv
  <2>1. (\A k \in DOMAIN registry[p] : Known(registry[p][k]))'
    BY <1>1, <1>2, <1>3, <2>0 DEF RegistryInv, Known
  <2>2. \A j, k \in DOMAIN registry'[p] : registry'[p][j].id = registry'[p][k].id => j = k
    <3>1. \A k \in DOMAIN registry[p] : registry'[p][k].id = registry[p][k].id
      BY <1>2, <1>3
    <3> QED
      BY <1>3, <2>0, <3>1 DEF RegistryInv
  <2>3. InPlace(first) /\ ~(K \in DOMAIN storage[p])
    BY <1>0, <2>0 DEF RegistryInv
  <2>4. (\A k \in DOMAIN storage[p] :
            /\ InPlace(storage[p][k])
            /\ storage[p][k].id = registry[p][k].id
            /\ storage[p][k].prev_seq = registry[p][k].prev_seq
            /\ storage[p][k].has_read_once = registry[p][k].has_read_once)'
    <3>1. ASSUME NEW k \in DOMAIN storage[p]
          PROVE  /\ storage'[p][k] = storage[p][k] /\ registry'[p][k] = registry[p][k]
                 /\ InPlace(storage[p][k])
                 /\ storage[p][k].id = registry[p][k].id
                 /\ storage[p][k].prev_seq = registry[p][k].prev_seq
                 /\ storage[p][k].has_read_once = registry[p][k].has_read_once
      BY <1>0, <1>3, <1>4, <2>0 DEF RegistryInv
    <3>2. storage'[p][K] = first /\ registry'[p][K] = left
      BY <1>0, <1>3, <1>4
    <3> QED
      BY <1>2, <1>4, <2>3, <3>1, <3>2 DEF InPlace
  <2>5. (\A k \in DOMAIN registry[p] : k > Len(storage[p]) => InPlace(registry[p][k]))'
    BY <1>0, <1>3, <1>4, <2>0 DEF RegistryInv, InPlace
  <2> QED
    BY <1>0, <1>1, <1>3, <1>4, <2>1, <2>2, <2>4, <2>5 DEF RegistryInv
<1>8. CallInv(p)'
  <2>1. \A k \in DOMAIN registry[p] : registry'[p][k].id = registry[p][k].id
    BY <1>2, <1>3
  <2>2. CallInv(p)
    BY DEF IInv, ProcessInv
  <2> QED
    BY <1>0, <1>1, <1>3, <2>1, <2>2 DEF CallInv
<1>9. LiteralInv(p)'
  BY <1>1 DEF IInv, ProcessInv, LiteralInv, Known, InPlace
<1> QED
  BY <1>5, <1>6, <1>7, <1>8, <1>9, Assembled DEF ProcessInv

\* The larger array holds what the smaller one did.
LEMMA RelocatedKeeps ==
  ASSUME IInv, NEW p \in Procs, Relocated(p)
  PROVE  IInv'
PROOF
<1>0. /\ registry[p] \in Seq(Object) /\ storage[p] \in Seq(Object)
      /\ pc[p] = "relocate" /\ Len(storage[p]) = Len(registry[p])
      /\ DOMAIN storage[p] = DOMAIN registry[p]
  BY DEF Relocated, IInv, TypeInv
<1>1. /\ registry'[p] = storage[p] /\ storage'[p] = <<>> /\ pc'[p] = "push_back"
      /\ UNCHANGED <<count, temp, wanted, item, literal>>
  BY DEF Relocated, Goto, IInv, TypeInv
<1>2. TypeInv'
  BY <1>0 DEF Relocated, Goto, IInv, TypeInv
<1>3. Elsewhere(p) /\ CountGrows
  BY DEF Relocated, Goto, Elsewhere, CountGrows, IInv, TypeInv
<1>4. \A k \in DOMAIN registry[p] :
        /\ InPlace(storage[p][k])
        /\ storage[p][k].id = registry[p][k].id
        /\ storage[p][k].prev_seq = registry[p][k].prev_seq
        /\ storage[p][k].has_read_once = registry[p][k].has_read_once
  BY <1>0 DEF IInv, ProcessInv, RegistryInv
<1>5. RegistryInv(p)'
  <2>0. RegistryInv(p)
    BY DEF IInv, ProcessInv
  <2>1. (\A k \in DOMAIN registry[p] : Known(registry[p][k]))'
    BY <1>0, <1>1, <1>4, <2>0 DEF RegistryInv, Known
  <2>2. \A j, k \in DOMAIN registry'[p] : registry'[p][j].id = registry'[p][k].id => j = k
    BY <1>0, <1>1, <1>4, <2>0 DEF RegistryInv
  <2>3. (\A k \in DOMAIN registry[p] : InPlace(registry[p][k]))'
    BY <1>0, <1>1, <1>4 DEF InPlace
  <2> QED
    BY <1>1, <2>1, <2>2, <2>3 DEF RegistryInv
<1>6. CallInv(p)'
  <2>1. CallInv(p)
    BY DEF IInv, ProcessInv
  <2> QED
    BY <1>0, <1>1, <1>4, <2>1 DEF CallInv
<1>7. LiteralInv(p)'
  BY <1>1 DEF IInv, ProcessInv, LiteralInv, Known, InPlace
<1> QED
  BY <1>2, <1>3, <1>5, <1>6, <1>7, Assembled DEF ProcessInv

\* The transport a call has found: it leads to the segment the call is about.
LEMMA FoundTransport ==
  ASSUME IInv, NEW p \in Procs, pc[p] = "found"
  PROVE  /\ registry[p] \in Seq(Object) /\ item[p] \in DOMAIN registry[p]
         /\ registry[p][item[p]] \in Object
         /\ registry[p][item[p]].id = wanted[p]
         /\ registry[p][item[p]].buf = wanted[p]
         /\ wanted[p] \in Names
         /\ \E tp \in Topics : wanted[p] = HashedName(tp)
         /\ Known(registry[p][item[p]])
PROOF
<1>1. registry[p] \in Seq(Object) /\ RegistryInv(p) /\ CallInv(p)
  BY DEF IInv, TypeInv, ProcessInv
<1>2. item[p] \in DOMAIN registry[p] /\ registry[p][item[p]].id = wanted[p]
  BY <1>1 DEF CallInv
<1>3. InPlace(registry[p][item[p]]) /\ Known(registry[p][item[p]])
  BY <1>1, <1>2 DEF RegistryInv
<1> QED
  BY <1>1, <1>2, <1>3, NamesNamed DEF CallInv, InPlace

\* A message more keeps everything that is known of objects.
LEMMA PublishGrows ==
  ASSUME TypeInv, NEW n \in Names, Publish(n)
  PROVE  /\ CountGrows /\ count' \in [Names -> Nat]
         /\ \A o \in Object : Known(o) => Known(o)'
PROOF
<1>1. CountGrows /\ count' \in [Names -> Nat]
  BY DEF Publish, CountGrows, TypeInv
<1> QED
  BY <1>1 DEF CountGrows, Known, Object, TypeInv

\* A write only counts.
LEMMA RuntimeWriteKeeps ==
  ASSUME IInv, NEW p \in Procs, RuntimeWrite(p)
  PROVE  IInv'
PROOF
<1>0. pc[p] = "found"
  BY DEF RuntimeWrite
<1>1. Publish(wanted[p]) /\ wanted[p] \in Names
  BY <1>0, FoundTransport DEF RuntimeWrite
<1>2. CountGrows /\ count' \in [Names -> Nat] /\ \A o \in Object : Known(o) => Known(o)'
  BY <1>1, PublishGrows DEF IInv
<1>3. /\ UNCHANGED <<registry, storage, temp, literal>> /\ pc'[p] = "idle"
      /\ Elsewhere(p)
  BY DEF RuntimeWrite, Leave, Goto, Elsewhere, IInv, TypeInv
<1>4. TypeInv'
  BY <1>2 DEF RuntimeWrite, Leave, Goto, IInv, TypeInv
<1>5. RegistryInv(p)'
  <2>1. /\ \A k \in DOMAIN registry[p] : registry[p][k] \in Object
        /\ storage[p] = <<>> /\ RegistryInv(p)
    BY <1>0 DEF IInv, TypeInv, ProcessInv, RegistryInv
  <2> QED
    BY <1>0, <1>2, <1>3, <2>1 DEF RegistryInv, InPlace, Known
<1>6. CallInv(p)'
  BY <1>3 DEF CallInv
<1>7. LiteralInv(p)'
  <2>1. \A i \in Ids : literal[p][i] \in Object
    BY DEF IInv, TypeInv
  <2> QED
    BY <1>2, <1>3, <2>1 DEF IInv, ProcessInv, LiteralInv, InPlace, Known
<1> QED
  BY <1>2, <1>3, <1>4, <1>5, <1>6, <1>7, Assembled DEF ProcessInv

\* What a read makes of an object.
LEMMA ReadObject ==
  ASSUME TypeInv, NEW o \in Object, Known(o), InPlace(o)
  PROVE  /\ ReadBy(o) \in Object /\ ReadBy(o).id = o.id /\ ReadBy(o).buf = o.buf
         /\ ReadBy(o).prev_seq = count[o.id]
         /\ Known(ReadBy(o)) /\ InPlace(ReadBy(o))
PROOF
<1>1. o.buf = o.id /\ o.id \in Names /\ count[o.id] \in Nat
  BY DEF Known, InPlace, TypeInv
<1>2. /\ ReadBy(o) \in Object /\ ReadBy(o).id = o.id /\ ReadBy(o).buf = o.buf
      /\ ReadBy(o).prev_seq = count[o.id]
      /\ ReadBy(o).has_read_once = (o.has_read_once \/ count[o.id] # o.prev_seq)
  BY <1>1 DEF ReadBy, Object
<1>3. o.prev_seq \in Nat /\ o.prev_seq <= count[o.id] /\ (o.has_read_once => o.prev_seq # 0)
  BY DEF Known, Object
<1>4. ASSUME count[o.id] = 0 PROVE ~ReadBy(o).has_read_once
  <2>1. o.prev_seq = 0
    BY <1>1, <1>3, <1>4
  <2> QED
    BY <1>2, <1>3, <1>4, <2>1
<1>5. ReadBy(o).has_read_once => ReadBy(o).prev_seq # 0
  BY <1>2, <1>4
<1>6. ReadBy(o).prev_seq <= count[o.id]
  BY <1>1, <1>2
<1>7. Known(ReadBy(o))
  BY <1>1, <1>2, <1>5, <1>6 DEF Known
<1> QED
  BY <1>1, <1>2, <1>7 DEF InPlace

\* A read remembers how far it read, in the one item with the id.
LEMMA RuntimeReadKeeps ==
  ASSUME IInv, NEW p \in Procs, RuntimeRead(p)
  PROVE  IInv'
PROOF
<1> DEFINE K == item[p]
           o == registry[p][K]
<1>0. pc[p] = "found"
  BY DEF RuntimeRead
<1>1. /\ registry[p] \in Seq(Object) /\ K \in DOMAIN registry[p] /\ o \in Object
      /\ Known(o) /\ InPlace(o)
  BY <1>0, FoundTransport DEF InPlace
<1>2. /\ registry'[p] = [registry[p] EXCEPT ![K] = ReadBy(o)]
      /\ UNCHANGED <<count, storage, temp, literal>> /\ pc'[p] = "idle"
  BY DEF RuntimeRead, Leave, Goto, IInv, TypeInv
<1>3. ReadBy(o) \in Object /\ ReadBy(o).id = o.id /\ Known(ReadBy(o)) /\ InPlace(ReadBy(o))
  BY <1>1, ReadObject DEF IInv
<1> HIDE DEF o
<1>4. /\ DOMAIN registry'[p] = DOMAIN registry[p]
      /\ \A k \in DOMAIN registry[p] :
           registry'[p][k] = IF k = K THEN ReadBy(o) ELSE registry[p][k]
  BY <1>1, <1>2
<1>5. TypeInv'
  <2>1. registry'[p] \in Seq(Object)
    BY <1>1, <1>2, <1>3
  <2>2. registry' \in [Procs -> Seq(Object)]
    BY <2>1 DEF RuntimeRead, IInv, TypeInv
  <2> QED
    BY <1>2, <2>2 DEF RuntimeRead, Leave, Goto, IInv, TypeInv
<1>6. Elsewhere(p) /\ CountGrows
  BY DEF RuntimeRead, Leave, Goto, Elsewhere, CountGrows, IInv, TypeInv
<1>7. RegistryInv(p)'
  <2>0. RegistryInv(p) /\ storage[p] = <<>>
    BY <1>0 DEF IInv, ProcessInv, RegistryInv
  <2>1. (\A k \in DOMAIN registry[p] : Known(registry[p][k]))'
    BY <1>2, <1>3, <1>4, <2>0 DEF RegistryInv, Known
  <2>2. (\A k \in DOMAIN registry[p] : InPlace(registry[p][k]))'
    BY <1>0, <1>2, <1>3, <1>4, <2>0 DEF RegistryInv, InPlace
  <2>3. \A k \in DOMAIN registry[p] : registry'[p][k].id = registry[p][k].id
    BY <1>3, <1>4 DEF o
  <2>4. \A j, k \in DOMAIN registry'[p] : registry'[p][j].id = registry'[p][k].id => j = k
    BY <1>4, <2>0, <2>3 DEF RegistryInv
  <2> QED
    BY <1>2, <2>0, <2>1, <2>2, <2>4 DEF RegistryInv
<1>8. CallInv(p)'
  BY <1>2 DEF CallInv
<1>9. LiteralInv(p)'
  BY <1>2 DEF IInv, ProcessInv, LiteralInv, Known, InPlace
<1> QED
  BY <1>5, <1>6, <1>7, <1>8, <1>9, Assembled DEF ProcessInv

\* The static object of a spelling, which the first call makes.
LEMMA StaticObject ==
  ASSUME IInv, NEW p \in Procs, NEW i \in Ids
  PROVE  /\ Static(p, i) \in Object /\ Known(Static(p, i)) /\ InPlace(Static(p, i))
         /\ Static(p, i).id = LiteralName(i) /\ LiteralName(i) \in Names
         /\ Static(p, i).prev_seq = literal[p][i].prev_seq
PROOF
<1>1. CASE literal[p][i] = Absent
  BY <1>1, FreshObject, NamesNamed DEF Static, Known, InPlace, Absent, IInv, TypeInv
<1>2. CASE literal[p][i] # Absent
  BY <1>2, NamesNamed DEF Static, IInv, TypeInv, ProcessInv, LiteralInv
<1> QED
  BY <1>1, <1>2

\* A write through a static object only counts, and makes the object.
LEMMA LiteralWriteKeeps ==
  ASSUME IInv, NEW p \in Procs, NEW i \in Ids, LiteralWrite(p, i)
  PROVE  IInv'
PROOF
<1>1. /\ Static(p, i) \in Object /\ Known(Static(p, i)) /\ InPlace(Static(p, i))
      /\ Static(p, i).id = LiteralName(i) /\ LiteralName(i) \in Names
  BY StaticObject
<1>2. Publish(LiteralName(i))
  BY <1>1 DEF LiteralWrite, InPlace
<1>3. CountGrows /\ count' \in [Names -> Nat] /\ \A o \in Object : Known(o) => Known(o)'
  BY <1>1, <1>2, PublishGrows DEF IInv
<1>4. /\ literal'[p] = [literal[p] EXCEPT ![i] = Static(p, i)]
      /\ UNCHANGED <<registry, storage, temp, pc, wanted, item>>
      /\ Elsewhere(p)
  BY DEF LiteralWrite, Elsewhere, IInv, TypeInv
<1>5. TypeInv'
  <2>1. literal' \in [Procs -> [Ids -> Object]]
    BY <1>1 DEF LiteralWrite, IInv, TypeInv
  <2> QED
    BY <1>3, <1>4, <2>1 DEF IInv, TypeInv
<1>6. RegistryInv(p)' /\ CallInv(p)'
  <2>1. pc[p] = "idle" /\ storage[p] = <<>>
    BY DEF LiteralWrite, IInv, ProcessInv, RegistryInv
  <2>2. \A k \in DOMAIN registry[p] : registry[p][k] \in Object
    BY DEF IInv, TypeInv
  <2> QED
    BY <1>3, <1>4, <2>1, <2>2 DEF IInv, ProcessInv, RegistryInv, CallInv, InPlace, Known
<1>7. LiteralInv(p)'
  <2>1. \A j \in Ids : literal'[p][j] = IF j = i THEN Static(p, i) ELSE literal[p][j]
    BY <1>4 DEF IInv, TypeInv
  <2>2. \A j \in Ids : literal[p][j] \in Object
    BY DEF IInv, TypeInv
  <2> QED
    BY <1>1, <1>3, <2>1, <2>2 DEF IInv, ProcessInv, LiteralInv, InPlace, Known
<1> QED
  BY <1>3, <1>4, <1>5, <1>6, <1>7, Assembled DEF ProcessInv

\* A read through a static object remembers how far it read.
LEMMA LiteralReadKeeps ==
  ASSUME IInv, NEW p \in Procs, NEW i \in Ids, LiteralRead(p, i)
  PROVE  IInv'
PROOF
<1> DEFINE o == Static(p, i)
<1>1. /\ o \in Object /\ Known(o) /\ InPlace(o) /\ o.id = LiteralName(i)
  BY StaticObject
<1>2. /\ ReadBy(o) \in Object /\ ReadBy(o).id = LiteralName(i)
      /\ Known(ReadBy(o)) /\ InPlace(ReadBy(o))
  BY <1>1, ReadObject DEF IInv
<1>3. /\ literal'[p] = [literal[p] EXCEPT ![i] = ReadBy(o)]
      /\ UNCHANGED <<count, registry, storage, temp, pc, wanted, item>>
      /\ Elsewhere(p) /\ CountGrows
  BY DEF LiteralRead, Elsewhere, CountGrows, IInv, TypeInv
<1>4. TypeInv'
  <2>1. literal' \in [Procs -> [Ids -> Object]]
    BY <1>2 DEF LiteralRead, IInv, TypeInv
  <2> QED
    BY <1>3, <2>1 DEF IInv, TypeInv
<1>5. RegistryInv(p)' /\ CallInv(p)'
  BY <1>3 DEF IInv, ProcessInv, RegistryInv, CallInv, InPlace, Known
<1>6. LiteralInv(p)'
  <2>1. \A j \in Ids : literal'[p][j] = IF j = i THEN ReadBy(o) ELSE literal[p][j]
    BY <1>3 DEF IInv, TypeInv
  <2> QED
    BY <1>2, <1>3, <2>1 DEF IInv, ProcessInv, LiteralInv, InPlace, Known
<1> QED
  BY <1>3, <1>4, <1>5, <1>6, Assembled DEF ProcessInv

\* Every step keeps the invariant.
LEMMA NextKeeps == IInv /\ [Next]_vars => IInv'
PROOF
<1> SUFFICES ASSUME IInv, [Next]_vars PROVE IInv'
  OBVIOUS
<1>1. ASSUME NEW p \in Procs, RuntimeStep(p) PROVE IInv'
  BY <1>1, LookupKeeps, ConstructKeeps, PushBackKeeps, GrowKeeps, RelocateKeeps,
     RelocatedKeeps, RuntimeWriteKeeps, RuntimeReadKeeps DEF RuntimeStep
<1>2. ASSUME NEW p \in Procs, NEW i \in Runtime[p], Call(p, i) PROVE IInv'
  BY <1>2, CallKeeps, ProgramsAssumption
<1>3. ASSUME NEW p \in Procs, NEW i \in Literals[p], LiteralWrite(p, i) \/ LiteralRead(p, i)
      PROVE  IInv'
  BY <1>3, LiteralWriteKeeps, LiteralReadKeeps, ProgramsAssumption
<1>4. CASE UNCHANGED vars
  BY <1>4 DEF vars, IInv, TypeInv, ProcessInv, RegistryInv, CallInv, LiteralInv, Known, InPlace
<1> QED
  BY <1>1, <1>2, <1>3, <1>4 DEF Next

(* The inductive invariant of registries and static objects, with any number *)
(* of processes, ids and messages.                                          *)
THEOREM Invariance == Spec => []IInv
PROOF
<1> QED
  BY InitInv, NextKeeps, PTL DEF Spec

-----------------------------------------------------------------------------
(* The refinement                                                           *)

\* Items with different ids.
Distinct(items) == \A j, k \in DOMAIN items : items[j].id = items[k].id => j = k

\* What has been seen of an id is what its item remembers,
LEMMA SeenAt ==
  ASSUME NEW items \in Seq(Object), Distinct(items),
         NEW k \in DOMAIN items
  PROVE  SeenIn(items, items[k].id) = items[k].prev_seq
PROOF
<1> DEFINE At == {j \in DOMAIN items : items[j].id = items[k].id}
<1>1. k \in At /\ \A j \in At : j = k
  BY DEF Distinct
<1>2. (CHOOSE j \in At : TRUE) \in At
  BY <1>1
<1> QED
  BY <1>1, <1>2 DEF SeenIn

\* and nothing of an id without item.
LEMMA NotSeen ==
  ASSUME NEW items, NEW n, \A k \in DOMAIN items : items[k].id # n
  PROVE  SeenIn(items, n) = 0
BY DEF SeenIn

\* Registries with the same ids, and the same memory of them, have seen the same.
LEMMA SeenAlike ==
  ASSUME NEW items \in Seq(Object), NEW others \in Seq(Object),
         Distinct(items), DOMAIN others = DOMAIN items,
         \A k \in DOMAIN items :
           others[k].id = items[k].id /\ others[k].prev_seq = items[k].prev_seq,
         NEW n
  PROVE  SeenIn(others, n) = SeenIn(items, n)
PROOF
<1>0. Distinct(others)
  BY DEF Distinct
<1>1. CASE \E k \in DOMAIN items : items[k].id = n
  BY <1>0, <1>1, SeenAt
<1>2. CASE ~\E k \in DOMAIN items : items[k].id = n
  BY <1>2, NotSeen
<1> QED
  BY <1>1, <1>2

\* All of this for the registries of the model.
LEMMA RegistryDistinct ==
  ASSUME IInv, NEW p \in Procs
  PROVE  registry[p] \in Seq(Object) /\ Distinct(registry[p])
BY DEF IInv, TypeInv, ProcessInv, RegistryInv, Distinct

\* The steps of a call that TopicMap does not see.
SeenKept ==
  \A p \in Procs : \A n \in Names : SeenIn(registry'[p], n) = SeenIn(registry[p], n)

\* A new item has seen nothing, as had its id before.
LEMMA PushBackSeen ==
  ASSUME IInv, NEW p \in Procs, PushBack(p)
  PROVE  SeenKept
PROOF
<1>0. /\ registry[p] \in Seq(Object) /\ temp[p] \in Object /\ wanted[p] \in Names
      /\ temp[p].id = wanted[p] /\ temp[p].prev_seq = 0
      /\ \A k \in DOMAIN registry[p] : registry[p][k].id # wanted[p]
      /\ Distinct(registry[p])
  <2>1. /\ temp[p] \in Object /\ temp[p] = Fresh(wanted[p])
        /\ \E tp \in Topics : wanted[p] = HashedName(tp)
        /\ \A k \in DOMAIN registry[p] : registry[p][k].id # wanted[p]
    BY DEF PushBack, IInv, TypeInv, ProcessInv, CallInv
  <2>2. wanted[p] \in Names
    BY <2>1, NamesNamed
  <2> QED
    BY <2>1, <2>2, FreshObject, RegistryDistinct
<1>1. /\ registry'[p] = Append(registry[p], temp[p])
      /\ \A q \in Procs \ {p} : registry'[q] = registry[q]
  BY DEF PushBack, Moved, IInv, TypeInv
<1>2. /\ registry'[p] \in Seq(Object)
      /\ DOMAIN registry'[p] = DOMAIN registry[p] \cup {Len(registry[p]) + 1}
      /\ \A k \in DOMAIN registry[p] : registry'[p][k] = registry[p][k]
      /\ registry'[p][Len(registry[p]) + 1] = temp[p]
  BY <1>0, <1>1
<1>3. Distinct(registry'[p])
  BY <1>0, <1>2 DEF Distinct
<1>4. ASSUME NEW n \in Names PROVE SeenIn(registry'[p], n) = SeenIn(registry[p], n)
  <2>1. CASE n = wanted[p]
    <3>1. SeenIn(registry[p], n) = 0
      BY <1>0, <2>1, NotSeen
    <3>2. SeenIn(registry'[p], temp[p].id) = temp[p].prev_seq
      BY <1>2, <1>3, SeenAt
    <3> QED
      BY <1>0, <2>1, <3>1, <3>2
  <2>2. CASE n # wanted[p] /\ \E k \in DOMAIN registry[p] : registry[p][k].id = n
    <3>1. PICK k \in DOMAIN registry[p] : registry[p][k].id = n
      BY <2>2
    <3>2. SeenIn(registry[p], n) = registry[p][k].prev_seq
      BY <1>0, <3>1, SeenAt
    <3>3. SeenIn(registry'[p], n) = registry'[p][k].prev_seq
      BY <1>2, <1>3, <3>1, SeenAt
    <3> QED
      BY <1>2, <3>2, <3>3
  <2>3. CASE n # wanted[p] /\ ~\E k \in DOMAIN registry[p] : registry[p][k].id = n
    <3>1. SeenIn(registry[p], n) = 0
      BY <2>3, NotSeen
    <3>2. \A k \in DOMAIN registry'[p] : registry'[p][k].id # n
      BY <1>0, <1>2, <2>3
    <3> QED
      BY <3>1, <3>2, NotSeen
  <2> QED
    BY <2>1, <2>2, <2>3
<1> QED
  BY <1>1, <1>4 DEF SeenKept

\* What an item was moved from still has its prev_seq, which nobody reads.
LEMMA RelocateSeen ==
  ASSUME IInv, IInv', NEW p \in Procs, Relocate(p)
  PROVE  SeenKept
PROOF
<1> DEFINE K == Len(storage[p]) + 1
<1>0. /\ registry[p] \in Seq(Object) /\ storage[p] \in Seq(Object)
      /\ Distinct(registry[p]) /\ K \in DOMAIN registry[p]
      /\ registry[p][K] \in Object
  BY RegistryDistinct DEF Relocate, IInv, TypeInv
<1>1. /\ registry'[p] = [registry[p] EXCEPT ![K] = MovedFrom(registry[p][K])]
      /\ registry'[p] \in Seq(Object)
      /\ \A q \in Procs \ {p} : registry'[q] = registry[q]
  BY DEF Relocate, IInv, TypeInv
<1>2. /\ MovedFrom(registry[p][K]).id = registry[p][K].id
      /\ MovedFrom(registry[p][K]).prev_seq = registry[p][K].prev_seq
  BY <1>0 DEF MovedFrom, Object
<1>3. /\ DOMAIN registry'[p] = DOMAIN registry[p]
      /\ \A k \in DOMAIN registry[p] :
           /\ registry'[p][k].id = registry[p][k].id
           /\ registry'[p][k].prev_seq = registry[p][k].prev_seq
  BY <1>0, <1>1, <1>2
<1>4. \A n \in Names : SeenIn(registry'[p], n) = SeenIn(registry[p], n)
  BY <1>0, <1>1, <1>3, SeenAlike
<1> QED
  BY <1>1, <1>4 DEF SeenKept

\* The larger array remembers what the smaller one did.
LEMMA RelocatedSeen ==
  ASSUME IInv, NEW p \in Procs, Relocated(p)
  PROVE  SeenKept
PROOF
<1>0. /\ registry[p] \in Seq(Object) /\ storage[p] \in Seq(Object)
      /\ Distinct(registry[p]) /\ DOMAIN storage[p] = DOMAIN registry[p]
      /\ \A k \in DOMAIN registry[p] :
           /\ storage[p][k].id = registry[p][k].id
           /\ storage[p][k].prev_seq = registry[p][k].prev_seq
  BY RegistryDistinct DEF Relocated, IInv, TypeInv, ProcessInv, RegistryInv
<1>1. /\ registry'[p] = storage[p]
      /\ \A q \in Procs \ {p} : registry'[q] = registry[q]
  BY DEF Relocated, IInv, TypeInv
<1> QED
  BY <1>0, <1>1, SeenAlike DEF SeenKept

-----------------------------------------------------------------------------
Seen == [r \in TopicReaders |-> [tp \in Topics |-> SeenBy(r, tp)]]
PublishedAll == [tp \in Topics |-> Published(tp)]

\* A reader of TopicMap is a registry or a static object.
LEMMA ReaderForms ==
  /\ \A p \in Readers : <<p>> \in TopicReaders
  /\ \A p \in Readers, i \in Ids : <<p, i>> \in TopicReaders
  /\ \A r \in TopicReaders :
       \/ \E p \in Readers : r = <<p>>
       \/ \E p \in Readers, i \in Ids : r = <<p, i>>
BY DEF TopicReaders

\* Nothing is seen anew when registries and static objects remember the same.
LEMMA SeenUnchanged ==
  ASSUME SeenKept,
         \A p \in Procs, i \in Ids : literal'[p][i].prev_seq = literal[p][i].prev_seq
  PROVE  Seen' = Seen
PROOF
<1>1. ASSUME NEW r \in TopicReaders, NEW tp \in Topics PROVE SeenBy(r, tp)' = SeenBy(r, tp)
  <2>1. CASE \E p \in Readers : r = <<p>>
    <3>1. PICK p \in Readers : r = <<p>>
      BY <2>1
    <3>2. SeenIn(registry'[p], HashedName(tp)) = SeenIn(registry[p], HashedName(tp))
      BY NamesNamed DEF SeenKept, Procs
    <3>3. Len(r) = 1 /\ r[1] = p
      BY <3>1
    <3> QED
      BY <3>2, <3>3 DEF SeenBy
  <2>2. CASE \E p \in Readers, i \in Ids : r = <<p, i>>
    <3>1. PICK p \in Readers, i \in Ids : r = <<p, i>>
      BY <2>2
    <3>2. literal'[p][i].prev_seq = literal[p][i].prev_seq
      BY DEF Procs
    <3>3. Len(r) = 2 /\ r[1] = p /\ r[2] = i
      BY <3>1
    <3> QED
      BY <3>2, <3>3 DEF SeenBy
  <2> QED
    BY <2>1, <2>2, ReaderForms
<1> QED
  BY <1>1 DEF Seen

\* What one reader reads of one topic.
LEMMA SeenUpdated ==
  ASSUME NEW r \in TopicReaders, NEW tp \in Topics, NEW c,
         \A q \in TopicReaders, s \in Topics :
           SeenBy(q, s)' = IF q = r /\ s = tp THEN c ELSE SeenBy(q, s)
  PROVE  Seen' = [Seen EXCEPT ![r][tp] = c]
PROOF
<1> DEFINE f == [q \in TopicReaders |-> [s \in Topics |->
                   IF q = r /\ s = tp THEN c ELSE SeenBy(q, s)]]
<1>1. Seen' = f
  BY DEF Seen
<1>2. [Seen EXCEPT ![r][tp] = c] = f
  BY DEF Seen
<1> QED
  BY <1>1, <1>2

\* What TopicMap does not see is a stutter of it.
LEMMA Unseen ==
  ASSUME SeenKept, UNCHANGED <<count, literal, answer>>
  PROVE  UNCHANGED Promise!vars
PROOF
<1>1. Seen' = Seen
  BY SeenUnchanged
<1>2. PublishedAll' = PublishedAll
  BY DEF PublishedAll, Published
<1> QED
  BY <1>1, <1>2 DEF Promise!vars, Seen, PublishedAll

\* A message on the segment of a topic is published to that topic alone.
LEMMA WriteRefined ==
  ASSUME IInv, NamesDiffer, NEW tp \in Topics, Publish(HashedName(tp)), SeenKept,
         \A p \in Procs, i \in Ids : literal'[p][i].prev_seq = literal[p][i].prev_seq,
         UNCHANGED answer
  PROVE  Promise!Write(tp)
PROOF
<1>1. Seen' = Seen
  BY SeenUnchanged
<1>2. PublishedAll[tp] = count[HashedName(tp)] /\ count[HashedName(tp)] < MaxWrites
  BY DEF PublishedAll, Published, Publish
<1>3. PublishedAll' = [PublishedAll EXCEPT ![tp] = @ + 1]
  <2>1. \A s \in Topics :
          count'[HashedName(s)] = IF s = tp THEN count[HashedName(s)] + 1
                                  ELSE count[HashedName(s)]
    BY NamesNamed DEF Publish, NamesDiffer, IInv, TypeInv
  <2> QED
    BY <2>1 DEF PublishedAll, Published
<1> QED
  BY <1>1, <1>2, <1>3 DEF Promise!Write, Seen, PublishedAll

\* A read of an object that has seen what TopicMap says it has.
LEMMA ReadRefined ==
  ASSUME IInv, NEW tp \in Topics, NEW r \in TopicReaders, NEW o \in Object,
         Known(o), InPlace(o), o.id = HashedName(tp),
         SeenBy(r, tp) = o.prev_seq,
         answer' = Return(r, o), UNCHANGED count,
         Seen' = [Seen EXCEPT ![r][tp] = count[o.id]]
  PROVE  Promise!Read(r, tp)
PROOF
<1>1. /\ PublishedAll' = PublishedAll /\ PublishedAll[tp] = count[o.id]
      /\ Seen[r][tp] = o.prev_seq
  BY DEF PublishedAll, Published, Seen
<1>2. o.buf = o.id /\ count[o.id] \in Nat /\ o.prev_seq \in Nat
  BY DEF InPlace, Known, Object, IInv, TypeInv
<1>3. count[o.id] = 0 /\ o.prev_seq = 0 => ~o.has_read_once
  BY DEF Known
<1>4. Return(r, o) =
        [reader |-> r,
         rc |-> IF o.prev_seq # count[o.id] THEN "ok"
                ELSE IF count[o.id] = 0 THEN "ENOMSG" ELSE "EAGAIN",
         message |-> count[o.id]]
  BY <1>2, <1>3 DEF Return
<1> QED
  BY <1>1, <1>4 DEF Promise!Read, Promise!Verdict, Seen, PublishedAll

\* A write through the registry goes to the topic of the call.
LEMMA RuntimeWriteRefined ==
  ASSUME IInv, NamesDiffer, NEW p \in Procs, RuntimeWrite(p)
  PROVE  \E tp \in Topics : Promise!Write(tp)
PROOF
<1>1. PICK tp \in Topics : wanted[p] = HashedName(tp)
  BY FoundTransport DEF RuntimeWrite
<1>2. Publish(HashedName(tp))
  BY <1>1, FoundTransport DEF RuntimeWrite
<1>3. SeenKept /\ UNCHANGED <<literal, answer>>
  BY DEF RuntimeWrite, SeenKept
<1> QED
  BY <1>2, <1>3, WriteRefined

\* A read through the registry is of the topic of the call.
LEMMA RuntimeReadRefined ==
  ASSUME IInv, IInv', NamesDiffer, NEW p \in Procs, RuntimeRead(p)
  PROVE  \E r \in TopicReaders, tp \in Topics : Promise!Read(r, tp)
PROOF
<1> DEFINE K == item[p]
           o == registry[p][K]
           r == <<p>>
<1>1. /\ registry[p] \in Seq(Object) /\ Distinct(registry[p]) /\ K \in DOMAIN registry[p]
      /\ o \in Object /\ Known(o) /\ InPlace(o) /\ o.id = wanted[p]
  BY FoundTransport, RegistryDistinct DEF RuntimeRead, InPlace
<1>2. PICK tp \in Topics : wanted[p] = HashedName(tp)
  BY FoundTransport DEF RuntimeRead
<1>3. /\ registry'[p] = [registry[p] EXCEPT ![K] = ReadBy(o)]
      /\ \A q \in Procs \ {p} : registry'[q] = registry[q]
      /\ UNCHANGED <<count, literal>> /\ answer' = Return(r, o)
      /\ r \in TopicReaders
  BY ReaderForms DEF RuntimeRead, IInv, TypeInv
<1>4. ReadBy(o).id = o.id /\ ReadBy(o).prev_seq = count[o.id]
  BY <1>1, ReadObject DEF IInv
<1>5. SeenBy(r, tp) = o.prev_seq
  <2>1. SeenIn(registry[p], o.id) = o.prev_seq
    BY <1>1, SeenAt
  <2> QED
    BY <1>1, <1>2, <2>1 DEF SeenBy
<1> HIDE DEF o
<1>6. /\ registry'[p] \in Seq(Object) /\ Distinct(registry'[p])
      /\ DOMAIN registry'[p] = DOMAIN registry[p]
      /\ registry'[p][K] = ReadBy(o)
      /\ \A k \in DOMAIN registry[p] : k # K => registry'[p][k] = registry[p][k]
  BY <1>1, <1>3 DEF Distinct, IInv, TypeInv, ProcessInv, RegistryInv
<1>7. SeenIn(registry'[p], o.id) = count[o.id]
  BY <1>1, <1>4, <1>6, SeenAt
<1>8. ASSUME NEW n \in Names, n # o.id
      PROVE  SeenIn(registry'[p], n) = SeenIn(registry[p], n)
  <2>1. CASE \E k \in DOMAIN registry[p] : registry[p][k].id = n
    <3>1. PICK k \in DOMAIN registry[p] : registry[p][k].id = n
      BY <2>1
    <3>2. k # K
      BY <1>8, <3>1 DEF o
    <3> QED
      BY <1>1, <1>6, <3>1, <3>2, SeenAt
  <2>2. CASE ~\E k \in DOMAIN registry[p] : registry[p][k].id = n
    <3>1. \A k \in DOMAIN registry'[p] : registry'[p][k].id # n
      BY <1>4, <1>6, <1>8, <2>2
    <3> QED
      BY <2>2, <3>1, NotSeen
  <2> QED
    BY <2>1, <2>2
<1>9. Seen' = [Seen EXCEPT ![r][tp] = count[o.id]]
  <2>1. ASSUME NEW q \in TopicReaders, NEW s \in Topics
        PROVE  SeenBy(q, s)' = IF q = r /\ s = tp THEN count[o.id] ELSE SeenBy(q, s)
    <3>1. CASE q = r /\ s = tp
      BY <1>1, <1>2, <1>7, <3>1 DEF SeenBy
    <3>2. CASE q = r /\ s # tp
      <4>1. HashedName(s) \in Names /\ HashedName(s) # o.id
        BY <1>1, <1>2, <3>2, NamesNamed DEF NamesDiffer
      <4>2. Len(q) = 1 /\ q[1] = p
        BY <3>2
      <4> QED
        BY <1>8, <3>2, <4>1, <4>2 DEF SeenBy
    <3>3. CASE q # r
      <4>1. CASE \E u \in Readers : q = <<u>>
        <5>1. PICK u \in Readers : q = <<u>>
          BY <4>1
        <5>2. Len(q) = 1 /\ q[1] = u /\ u \in Procs \ {p}
          BY <3>3, <5>1 DEF Procs
        <5> QED
          BY <1>3, <3>3, <5>2 DEF SeenBy
      <4>2. CASE \E u \in Readers, i \in Ids : q = <<u, i>>
        <5>1. Len(q) = 2
          BY <4>2
        <5> QED
          BY <1>3, <3>3, <5>1 DEF SeenBy
      <4> QED
        BY <4>1, <4>2, ReaderForms
    <3> QED
      BY <3>1, <3>2, <3>3
  <2> QED
    BY <1>3, <2>1, SeenUpdated
<1>10. o.id = HashedName(tp)
  BY <1>1, <1>2
<1> HIDE DEF r
<1>11. Promise!Read(r, tp)
  BY <1>1, <1>3, <1>5, <1>9, <1>10, ReadRefined
<1> QED
  BY <1>3, <1>11

\* A literal id leads to the segment of its topic.
LEMMA LiteralWriteRefined ==
  ASSUME IInv, NamesAgree, NamesDiffer,
         NEW p \in Procs, NEW i \in Ids, LiteralWrite(p, i)
  PROVE  \E tp \in Topics : Promise!Write(tp)
PROOF
<1>1. /\ Topic(i) \in Topics /\ LiteralName(i) = HashedName(Topic(i))
      /\ Static(p, i).buf = LiteralName(i)
      /\ Static(p, i).prev_seq = literal[p][i].prev_seq
  BY StaticObject, NamesNamed DEF NamesAgree, InPlace
<1>2. Publish(HashedName(Topic(i)))
  BY <1>1 DEF LiteralWrite
<1>3. SeenKept /\ UNCHANGED answer
  BY DEF LiteralWrite, SeenKept
<1>4. \A q \in Procs, j \in Ids : literal'[q][j].prev_seq = literal[q][j].prev_seq
  <2>1. \A q \in Procs, j \in Ids :
          literal'[q][j] = IF q = p /\ j = i THEN Static(p, i) ELSE literal[q][j]
    BY DEF LiteralWrite, IInv, TypeInv
  <2> QED
    BY <1>1, <2>1
<1>5. Promise!Write(Topic(i))
  BY <1>1, <1>2, <1>3, <1>4, WriteRefined
<1> QED
  BY <1>1, <1>5

\* The static object of a spelling is a reader of its own.
LEMMA LiteralReadRefined ==
  ASSUME IInv, NamesAgree, NEW p \in Procs, NEW i \in Ids, LiteralRead(p, i)
  PROVE  \E r \in TopicReaders, tp \in Topics : Promise!Read(r, tp)
PROOF
<1> DEFINE o == Static(p, i)
           r == <<p, i>>
           tp == Topic(i)
<1>1. /\ o \in Object /\ Known(o) /\ InPlace(o) /\ o.id = HashedName(tp)
      /\ o.prev_seq = literal[p][i].prev_seq /\ tp \in Topics
  BY StaticObject, NamesNamed DEF NamesAgree
<1>2. /\ r \in TopicReaders /\ answer' = Return(r, o)
      /\ UNCHANGED <<count, registry>>
  BY ReaderForms DEF LiteralRead
<1>3. /\ literal'[p][i].prev_seq = count[o.id]
      /\ \A q \in Procs, j \in Ids : q # p \/ j # i => literal'[q][j] = literal[q][j]
  <2>1. \A q \in Procs, j \in Ids :
          literal'[q][j] = IF q = p /\ j = i THEN ReadBy(o) ELSE literal[q][j]
    BY DEF LiteralRead, IInv, TypeInv
  <2>2. ReadBy(o).prev_seq = count[o.id]
    BY <1>1, ReadObject DEF IInv
  <2> QED
    BY <2>1, <2>2
<1>4. Len(r) = 2 /\ r[1] = p /\ r[2] = i
  OBVIOUS
<1>5. SeenBy(r, tp) = o.prev_seq
  BY <1>1, <1>4 DEF SeenBy
<1> HIDE DEF o
<1>6. ASSUME NEW q \in TopicReaders, NEW s \in Topics
      PROVE  SeenBy(q, s)' = IF q = r /\ s = tp THEN count[o.id] ELSE SeenBy(q, s)
  <2>1. CASE \E u \in Readers : q = <<u>>
    <3>1. Len(q) = 1 /\ q # r
      BY <1>4, <2>1
    <3> QED
      BY <1>2, <3>1 DEF SeenBy
  <2>2. CASE \E u \in Readers, j \in Ids : q = <<u, j>>
    <3>1. PICK u \in Readers, j \in Ids : q = <<u, j>>
      BY <2>2
    <3>2. Len(q) = 2 /\ q[1] = u /\ q[2] = j /\ u \in Procs
      BY <3>1 DEF Procs
    <3>3. q = r <=> u = p /\ j = i
      BY <3>1
    <3>4. CASE q = r
      <4>1. Len(q) = 2 /\ q[1] = p /\ q[2] = i
        BY <1>4, <3>4
      <4> QED
        BY <1>3, <3>4, <4>1 DEF SeenBy
    <3>5. CASE q # r
      BY <1>3, <3>2, <3>3, <3>5 DEF SeenBy
    <3> QED
      BY <3>4, <3>5
  <2> QED
    BY <2>1, <2>2, ReaderForms
<1>7. Seen' = [Seen EXCEPT ![r][tp] = count[o.id]]
  <2> HIDE DEF r, tp
  <2> QED
    BY <1>1, <1>2, <1>6, SeenUpdated
<1> HIDE DEF r, tp
<1>8. Promise!Read(r, tp)
  BY <1>1, <1>2, <1>5, <1>7, ReadRefined
<1> QED
  BY <1>1, <1>2, <1>8

\* Before any call nothing has been read, nor written.
LEMMA InitRefined == Init => Promise!Init
PROOF
<1> SUFFICES ASSUME Init PROVE Promise!Init
  OBVIOUS
<1>1. PublishedAll = [tp \in Topics |-> 0]
  BY NamesNamed DEF Init, PublishedAll, Published
<1>2. ASSUME NEW r \in TopicReaders, NEW tp \in Topics PROVE SeenBy(r, tp) = 0
  <2>1. CASE \E p \in Readers : r = <<p>>
    <3>1. PICK p \in Readers : r = <<p>>
      BY <2>1
    <3>2. Len(r) = 1 /\ r[1] = p /\ registry[p] = <<>>
      BY <3>1 DEF Init, Procs
    <3>3. SeenIn(<<>>, HashedName(tp)) = 0
      BY NotSeen
    <3> QED
      BY <3>2, <3>3 DEF SeenBy
  <2>2. CASE \E p \in Readers, i \in Ids : r = <<p, i>>
    <3>1. PICK p \in Readers, i \in Ids : r = <<p, i>>
      BY <2>2
    <3>2. Len(r) = 2 /\ r[1] = p /\ r[2] = i /\ literal[p][i].prev_seq = 0
      BY <3>1 DEF Init, Procs, Absent
    <3> QED
      BY <3>2 DEF SeenBy
  <2> QED
    BY <2>1, <2>2, ReaderForms
<1>3. Seen = [r \in TopicReaders |-> [tp \in Topics |-> 0]]
  BY <1>2 DEF Seen
<1> QED
  BY <1>1, <1>3 DEF Promise!Init, Promise!NoAnswer, Init, NoAnswer, Seen, PublishedAll

\* The steps of a call up to the read or write are not seen by TopicMap.
LEMMA RuntimeRefined ==
  ASSUME IInv, IInv', NamesDiffer, NEW p \in Procs, RuntimeStep(p)
  PROVE  [Promise!Next]_(Promise!vars)
PROOF
<1>1. CASE Lookup(p) \/ Construct(p) \/ Grow(p)
  <2>1. SeenKept /\ UNCHANGED <<count, literal, answer>>
    BY <1>1 DEF Lookup, Construct, Grow, SeenKept
  <2> QED
    BY <2>1, Unseen
<1>2. CASE PushBack(p)
  <2>1. UNCHANGED <<count, literal, answer>>
    BY <1>2 DEF PushBack
  <2> QED
    BY <1>2, <2>1, PushBackSeen, Unseen
<1>3. CASE Relocate(p)
  <2>1. UNCHANGED <<count, literal, answer>>
    BY <1>3 DEF Relocate
  <2> QED
    BY <1>3, <2>1, RelocateSeen, Unseen
<1>4. CASE Relocated(p)
  <2>1. UNCHANGED <<count, literal, answer>>
    BY <1>4 DEF Relocated
  <2> QED
    BY <1>4, <2>1, RelocatedSeen, Unseen
<1>5. CASE RuntimeWrite(p)
  BY <1>5, RuntimeWriteRefined DEF Promise!Next
<1>6. CASE RuntimeRead(p)
  BY <1>6, RuntimeReadRefined DEF Promise!Next
<1> QED
  BY <1>1, <1>2, <1>3, <1>4, <1>5, <1>6 DEF RuntimeStep

\* Every step is a step of TopicMap, or none.
LEMMA NextRefined ==
  ASSUME IInv, IInv', NamesAgree, NamesDiffer, [Next]_vars
  PROVE  [Promise!Next]_(Promise!vars)
PROOF
<1>1. ASSUME NEW p \in Procs, RuntimeStep(p) PROVE [Promise!Next]_(Promise!vars)
  BY <1>1, RuntimeRefined
<1>2. ASSUME NEW p \in Procs, NEW i \in Runtime[p], Call(p, i)
      PROVE  [Promise!Next]_(Promise!vars)
  <2>1. SeenKept /\ UNCHANGED <<count, literal, answer>>
    BY <1>2 DEF Call, SeenKept
  <2> QED
    BY <2>1, Unseen
<1>3. ASSUME NEW p \in Procs, NEW i \in Literals[p], LiteralWrite(p, i)
      PROVE  [Promise!Next]_(Promise!vars)
  <2>1. i \in Ids
    BY ProgramsAssumption
  <2> QED
    BY <1>3, <2>1, LiteralWriteRefined DEF Promise!Next
<1>4. ASSUME NEW p \in Procs, NEW i \in Literals[p], LiteralRead(p, i)
      PROVE  [Promise!Next]_(Promise!vars)
  <2>1. i \in Ids
    BY ProgramsAssumption
  <2> QED
    BY <1>4, <2>1, LiteralReadRefined DEF Promise!Next
<1>5. CASE UNCHANGED vars
  <2>1. SeenKept /\ UNCHANGED <<count, literal, answer>>
    BY <1>5 DEF vars, SeenKept
  <2> QED
    BY <2>1, Unseen
<1> QED
  BY <1>1, <1>2, <1>3, <1>4, <1>5 DEF Next

(* Whatever the processes, ids and the hash, as long as both ways of making *)
(* a name agree and topics have names of their own: what is written to a    *)
(* topic is read from it under every spelling, and every reader is told     *)
(* each message is new exactly once, whenever its registry grew.            *)
THEOREM ImplementsTopics ==
  ASSUME NamesAgree, NamesDiffer
  PROVE  Spec => ImplementsTopicMap
PROOF
<1>1. Init => Promise!Init
  BY InitRefined
<1>2. IInv /\ IInv' /\ [Next]_vars => [Promise!Next]_(Promise!vars)
  BY NextRefined
<1> QED
  BY <1>1, <1>2, Invariance, PTL DEF Spec, ImplementsTopicMap, Promise!Spec
=============================================================================
