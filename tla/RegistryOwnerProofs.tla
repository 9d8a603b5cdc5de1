------------------------ MODULE RegistryOwnerProofs ------------------------
(* That every mapping of a process has one owner, however registries grow.   *)
EXTENDS RegistryProofs, FiniteSetTheorems

-----------------------------------------------------------------------------
(* The inductive invariant                                                  *)

\* The four kinds of places Holders counts.
InRegistry(p, n) == {k \in DOMAIN registry[p] : registry[p][k].buf = n}
InStorage(p, n) == {k \in DOMAIN storage[p] : storage[p][k].buf = n}
InTemp(p, n) == {k \in {1} : temp[p].buf = n}
InLiterals(p, n) == {i \in Ids : literal[p][i].buf = n}

Held(p, n) ==
  Cardinality(InRegistry(p, n)) + Cardinality(InStorage(p, n))
  + Cardinality(InTemp(p, n)) + Cardinality(InLiterals(p, n))

Counted(p) == \A n \in Names : mapped[p][n] = Held(p, n)

\* The temporary is there from its construction to the end of push_back, and
\* what an item was moved from owns nothing.
Emptied(p) ==
  /\ pc[p] \notin {"push_back", "relocate"} => temp[p] = Absent
  /\ pc[p] = "relocate" =>
       \A k \in DOMAIN registry[p] : k <= Len(storage[p]) => registry[p][k].buf = NULL

OwnInv ==
  /\ mapped \in [Procs -> [Names -> Int]]
  /\ \A p \in Procs : Counted(p) /\ Emptied(p)

-----------------------------------------------------------------------------
(* Counting                                                                 *)

\* Marking the elements of a set does not change their number.
LEMMA Tagged ==
  ASSUME NEW S, IsFiniteSet(S), NEW tag
  PROVE  /\ IsFiniteSet({<<tag, x>> : x \in S})
         /\ Cardinality({<<tag, x>> : x \in S}) = Cardinality(S)
PROOF
<1> DEFINE T == {<<tag, x>> : x \in S}
           f == [x \in S |-> <<tag, x>>]
<1>1. f \in Bijection(S, T)
  BY DEF Bijection, Injection, Surjection, IsInjective
<1> QED
  BY <1>1, FS_Bijection DEF ExistsBijection

\* The number of elements in sets that have none in common.
LEMMA Apart ==
  ASSUME NEW S, IsFiniteSet(S), NEW T, IsFiniteSet(T), S \cap T = {}
  PROVE  /\ IsFiniteSet(S \cup T)
         /\ Cardinality(S \cup T) = Cardinality(S) + Cardinality(T)
PROOF
<1>1. Cardinality(S) \in Nat /\ Cardinality(T) \in Nat /\ Cardinality(S \cap T) = 0
  BY FS_CardinalityType, FS_EmptySet
<1>2. /\ IsFiniteSet(S \cup T)
      /\ Cardinality(S \cup T) = Cardinality(S) + Cardinality(T) - Cardinality(S \cap T)
  BY FS_Union
<1> QED
  BY <1>1, <1>2

\* There are finitely many places.
LEMMA PlacesFinite ==
  ASSUME TypeInv, IsFiniteSet(Ids), NEW p \in Procs, NEW n
  PROVE  /\ IsFiniteSet(InRegistry(p, n)) /\ IsFiniteSet(InStorage(p, n))
         /\ IsFiniteSet(InTemp(p, n)) /\ IsFiniteSet(InLiterals(p, n))
         /\ Cardinality(InRegistry(p, n)) \in Nat /\ Cardinality(InStorage(p, n)) \in Nat
         /\ Cardinality(InTemp(p, n)) \in Nat /\ Cardinality(InLiterals(p, n)) \in Nat
PROOF
<1>1. ASSUME NEW items \in Seq(Object) PROVE IsFiniteSet(DOMAIN items)
  <2>1. DOMAIN items = 1..Len(items) /\ Len(items) \in Nat
    OBVIOUS
  <2> QED
    BY <2>1, FS_Interval
<1>2. IsFiniteSet(InRegistry(p, n)) /\ IsFiniteSet(InStorage(p, n))
  <2>1. IsFiniteSet(DOMAIN registry[p]) /\ IsFiniteSet(DOMAIN storage[p])
    BY <1>1 DEF TypeInv
  <2> QED
    BY <2>1, FS_Subset DEF InRegistry, InStorage
<1>3. IsFiniteSet(InTemp(p, n)) /\ IsFiniteSet(InLiterals(p, n))
  BY FS_Subset, FS_Singleton DEF InTemp, InLiterals
<1> QED
  BY <1>2, <1>3, FS_CardinalityType

\* Holders are what is held.
LEMMA HoldersHeld ==
  ASSUME TypeInv, IsFiniteSet(Ids), NEW p \in Procs, NEW n
  PROVE  Cardinality(Holders(p, n)) = Held(p, n)
PROOF
<1> DEFINE R == {<<"registry", k>> : k \in InRegistry(p, n)}
           S == {<<"storage", k>> : k \in InStorage(p, n)}
           T == {<<"temp", k>> : k \in InTemp(p, n)}
           L == {<<"literal", i>> : i \in InLiterals(p, n)}
<1>1. Holders(p, n) = ((R \cup S) \cup T) \cup L
  BY DEF Holders, InRegistry, InStorage, InTemp, InLiterals
<1>2. /\ IsFiniteSet(R) /\ Cardinality(R) = Cardinality(InRegistry(p, n))
      /\ IsFiniteSet(S) /\ Cardinality(S) = Cardinality(InStorage(p, n))
      /\ IsFiniteSet(T) /\ Cardinality(T) = Cardinality(InTemp(p, n))
      /\ IsFiniteSet(L) /\ Cardinality(L) = Cardinality(InLiterals(p, n))
  BY PlacesFinite, Tagged
<1>3. R \cap S = {} /\ (R \cup S) \cap T = {} /\ ((R \cup S) \cup T) \cap L = {}
  OBVIOUS
<1> HIDE DEF R, S, T, L
<1>4. IsFiniteSet(R \cup S) /\ Cardinality(R \cup S) = Cardinality(R) + Cardinality(S)
  BY <1>2, <1>3, Apart
<1>5. /\ IsFiniteSet((R \cup S) \cup T)
      /\ Cardinality((R \cup S) \cup T) = Cardinality(R \cup S) + Cardinality(T)
  BY <1>2, <1>3, <1>4, Apart
<1>6. Cardinality(((R \cup S) \cup T) \cup L) = Cardinality((R \cup S) \cup T) + Cardinality(L)
  BY <1>2, <1>3, <1>5, Apart
<1> QED
  BY <1>1, <1>2, <1>4, <1>5, <1>6 DEF Held
-----------------------------------------------------------------------------
(* The invariant holds                                                      *)

\* At the start nothing is mapped and nothing held.
LEMMA OwnInit == Init => OwnInv
PROOF
<1> SUFFICES ASSUME Init PROVE OwnInv
  OBVIOUS
<1>1. ASSUME NEW p \in Procs, NEW n \in Names PROVE mapped[p][n] = Held(p, n)
  <2>1. /\ InRegistry(p, n) = {} /\ InStorage(p, n) = {}
        /\ InTemp(p, n) = {} /\ InLiterals(p, n) = {}
    BY NamesNamed DEF Init, Absent, InRegistry, InStorage, InTemp, InLiterals
  <2> QED
    BY <2>1, FS_EmptySet DEF Init, Held
<1> QED
  BY <1>1 DEF Init, OwnInv, Counted, Emptied

\* What an action of p has to keep.
LEMMA OwnAssembled ==
  ASSUME OwnInv, NEW p \in Procs, Elsewhere(p),
         mapped' \in [Procs -> [Names -> Int]],
         \A q \in Procs \ {p} : mapped'[q] = mapped[q],
         Counted(p)', Emptied(p)'
  PROVE  OwnInv'
PROOF
<1>1. ASSUME NEW q \in Procs \ {p} PROVE Counted(q)' /\ Emptied(q)'
  <2>1. ASSUME NEW n \in Names PROVE mapped'[q][n] = Held(q, n)'
    <3>1. Held(q, n)' = Held(q, n)
      BY DEF Elsewhere, Held, InRegistry, InStorage, InTemp, InLiterals
    <3> QED
      BY <3>1 DEF OwnInv, Counted
  <2>2. Emptied(q)'
    <3>1. Emptied(q)
      BY DEF OwnInv
    <3>2. /\ pc'[q] = pc[q] /\ temp'[q] = temp[q]
          /\ registry'[q] = registry[q] /\ storage'[q] = storage[q]
      BY DEF Elsewhere
    <3> QED
      BY <3>1, <3>2 DEF Emptied
  <2> QED
    BY <2>1, <2>2 DEF Counted
<1> QED
  BY <1>1 DEF OwnInv

\* Objects that stay where they are, on the segments they are on.
LEMMA StillCounted ==
  ASSUME OwnInv, NEW p \in Procs,
         DOMAIN registry'[p] = DOMAIN registry[p],
         \A k \in DOMAIN registry[p] : registry'[p][k].buf = registry[p][k].buf,
         UNCHANGED <<storage, temp, literal, mapped>>
  PROVE  Counted(p)'
PROOF
<1>1. ASSUME NEW n \in Names PROVE mapped'[p][n] = Held(p, n)'
  <2>1. InRegistry(p, n)' = InRegistry(p, n)
    BY DEF InRegistry
  <2>2. Held(p, n)' = Held(p, n)
    BY <2>1 DEF Held, InStorage, InTemp, InLiterals
  <2> QED
    BY <2>2 DEF OwnInv, Counted
<1> QED
  BY <1>1 DEF Counted

\* Steps that touch no object: the begin of a call,
LEMMA CallOwns ==
  ASSUME IInv, OwnInv, NEW p \in Procs, NEW i \in Ids, Call(p, i)
  PROVE  OwnInv'
PROOF
<1>1. Elsewhere(p) /\ UNCHANGED <<registry, storage, temp, literal, mapped>>
  BY DEF Call, Goto, Elsewhere, IInv, TypeInv
<1>2. Emptied(p)'
  BY <1>1 DEF Call, Goto, Emptied, OwnInv, IInv, TypeInv
<1> QED
  BY <1>1, <1>2, StillCounted, OwnAssembled DEF OwnInv

\* a round of the loop,
LEMMA LookupOwns ==
  ASSUME IInv, OwnInv, NEW p \in Procs, Lookup(p)
  PROVE  OwnInv'
PROOF
<1>1. Elsewhere(p) /\ UNCHANGED <<registry, storage, temp, literal, mapped>>
  BY DEF Lookup, Goto, Elsewhere, IInv, TypeInv
<1>2. Emptied(p)'
  BY <1>1 DEF Lookup, Goto, Emptied, OwnInv, IInv, TypeInv
<1> QED
  BY <1>1, <1>2, StillCounted, OwnAssembled DEF OwnInv

\* the allocation of the larger array,
LEMMA GrowOwns ==
  ASSUME IInv, OwnInv, NEW p \in Procs, Grow(p)
  PROVE  OwnInv'
PROOF
<1>1. Elsewhere(p) /\ UNCHANGED <<registry, storage, temp, literal, mapped>>
  BY DEF Grow, Goto, Elsewhere, IInv, TypeInv
<1>2. Emptied(p)'
  <2>1. pc'[p] = "relocate" /\ storage[p] = <<>> /\ registry[p] \in Seq(Object)
    BY DEF Grow, Goto, IInv, TypeInv, ProcessInv, RegistryInv
  <2> QED
    BY <1>1, <2>1 DEF Emptied
<1> QED
  BY <1>1, <1>2, StillCounted, OwnAssembled DEF OwnInv

\* and a write.
LEMMA RuntimeWriteOwns ==
  ASSUME IInv, OwnInv, NEW p \in Procs, RuntimeWrite(p)
  PROVE  OwnInv'
PROOF
<1>1. Elsewhere(p) /\ UNCHANGED <<registry, storage, temp, literal, mapped>>
  BY DEF RuntimeWrite, Leave, Goto, Elsewhere, IInv, TypeInv
<1>2. Emptied(p)'
  BY <1>1 DEF RuntimeWrite, Leave, Goto, Emptied, OwnInv, IInv, TypeInv
<1> QED
  BY <1>1, <1>2, StillCounted, OwnAssembled DEF OwnInv

\* A read changes what an item remembers, and not where it is mapped.
LEMMA RuntimeReadOwns ==
  ASSUME IInv, OwnInv, NEW p \in Procs, RuntimeRead(p)
  PROVE  OwnInv'
PROOF
<1> DEFINE o == registry[p][item[p]]
<1>1. /\ registry[p] \in Seq(Object) /\ item[p] \in DOMAIN registry[p]
      /\ o \in Object /\ Known(o) /\ InPlace(o)
  BY FoundTransport DEF RuntimeRead, InPlace
<1>2. ReadBy(o).buf = o.buf
  BY <1>1, ReadObject DEF IInv
<1>3. /\ registry'[p] = [registry[p] EXCEPT ![item[p]] = ReadBy(o)]
      /\ Elsewhere(p) /\ UNCHANGED <<storage, temp, literal, mapped>>
  BY DEF RuntimeRead, Leave, Goto, Elsewhere, IInv, TypeInv
<1>4. Emptied(p)'
  BY <1>3 DEF RuntimeRead, Leave, Goto, Emptied, OwnInv, IInv, TypeInv
<1>5. Counted(p)'
  BY <1>1, <1>2, <1>3, StillCounted
<1> QED
  BY <1>3, <1>4, <1>5, OwnAssembled DEF OwnInv
\* The new object is mapped, and is the temporary of the call.
LEMMA ConstructOwns ==
  ASSUME IInv, IInv', IsFiniteSet(Ids), OwnInv, NEW p \in Procs, Construct(p)
  PROVE  OwnInv'
PROOF
<1>1. /\ Elsewhere(p) /\ UNCHANGED <<registry, storage, literal>>
      /\ mapped' = [mapped EXCEPT ![p][wanted[p]] = @ + 1]
      /\ temp'[p] = Fresh(wanted[p]) /\ pc'[p] = "push_back" /\ pc[p] = "lookup"
  BY DEF Construct, Mapped, Goto, Elsewhere, IInv, TypeInv
<1>2. /\ wanted[p] \in Names /\ temp[p] = Absent
      /\ Fresh(wanted[p]).buf = wanted[p] /\ Absent.buf = NULL
  BY <1>1, FreshObject, NamesNamed DEF IInv, ProcessInv, CallInv, OwnInv, Emptied, Absent
<1>3. /\ mapped' \in [Procs -> [Names -> Int]]
      /\ \A q \in Procs \ {p} : mapped'[q] = mapped[q]
      /\ \A n \in Names :
           mapped'[p][n] = IF n = wanted[p] THEN mapped[p][n] + 1 ELSE mapped[p][n]
  BY <1>1, <1>2 DEF OwnInv
<1>4. ASSUME NEW n \in Names PROVE mapped'[p][n] = Held(p, n)'
  <2>1. /\ InRegistry(p, n)' = InRegistry(p, n) /\ InStorage(p, n)' = InStorage(p, n)
        /\ InLiterals(p, n)' = InLiterals(p, n)
    BY <1>1 DEF InRegistry, InStorage, InLiterals
  <2>2. /\ InTemp(p, n) = {}
        /\ InTemp(p, n)' = IF n = wanted[p] THEN {1} ELSE {}
    BY <1>1, <1>2, NamesNamed DEF InTemp
  <2>3. /\ Cardinality(InTemp(p, n)) = 0
        /\ Cardinality(InTemp(p, n)') = IF n = wanted[p] THEN 1 ELSE 0
    BY <2>2, FS_EmptySet, FS_Singleton
  <2>4. mapped[p][n] = Held(p, n)
    BY DEF OwnInv, Counted
  <2> QED
    BY <1>3, <2>1, <2>3, <2>4, PlacesFinite DEF Held, IInv
<1>5. Emptied(p)'
  BY <1>1 DEF Emptied
<1> QED
  BY <1>1, <1>3, <1>4, <1>5, OwnAssembled DEF Counted

\* The mapping goes from the temporary to the item at the end.
LEMMA PushBackOwns ==
  ASSUME IInv, IInv', IsFiniteSet(Ids), OwnInv, NEW p \in Procs, PushBack(p)
  PROVE  OwnInv'
PROOF
<1> DEFINE K == Len(registry[p]) + 1
<1>0. /\ registry[p] \in Seq(Object) /\ wanted[p] \in Names
      /\ temp[p] \in Object /\ temp[p].buf = wanted[p]
  <2>1. pc[p] = "push_back" /\ registry[p] \in Seq(Object) /\ temp[p] \in Object
    BY DEF PushBack, IInv, TypeInv
  <2>2. temp[p] = Fresh(wanted[p]) /\ wanted[p] \in Names
    BY <2>1, NamesNamed DEF IInv, ProcessInv, CallInv
  <2> QED
    BY <2>1, <2>2, FreshObject
<1>1. /\ registry'[p] = Append(registry[p], temp[p])
      /\ temp'[p] = Absent /\ pc'[p] = "found"
      /\ Elsewhere(p) /\ UNCHANGED <<storage, literal>>
  BY DEF PushBack, Moved, Goto, Elsewhere, IInv, TypeInv
<1>2. mapped' = mapped
  <2>1. MovedFrom(temp[p]).buf = NULL
    BY <1>0 DEF MovedFrom, Object
  <2> QED
    BY <2>1 DEF PushBack, Destroyed
<1>3. /\ DOMAIN registry'[p] = DOMAIN registry[p] \cup {K}
      /\ K \notin DOMAIN registry[p]
      /\ \A k \in DOMAIN registry[p] : registry'[p][k] = registry[p][k]
      /\ registry'[p][K] = temp[p]
  BY <1>0, <1>1
<1>4. ASSUME NEW n \in Names PROVE mapped'[p][n] = Held(p, n)'
  <2>1. InStorage(p, n)' = InStorage(p, n) /\ InLiterals(p, n)' = InLiterals(p, n)
    BY <1>1 DEF InStorage, InLiterals
  <2>2. /\ InTemp(p, n) = IF n = wanted[p] THEN {1} ELSE {}
        /\ InTemp(p, n)' = {}
    BY <1>0, <1>1, NamesNamed DEF InTemp, Absent
  <2>3. /\ InRegistry(p, n)' = IF n = wanted[p] THEN InRegistry(p, n) \cup {K}
                               ELSE InRegistry(p, n)
        /\ K \notin InRegistry(p, n)
    <3>1. \A k : k \in InRegistry(p, n)'
                   <=> k \in InRegistry(p, n) \/ (k = K /\ n = wanted[p])
      BY <1>0, <1>3 DEF InRegistry
    <3>2. K \notin InRegistry(p, n)
      BY <1>3 DEF InRegistry
    <3> QED
      BY <3>1, <3>2
  <2>4. /\ Cardinality(InTemp(p, n)) = IF n = wanted[p] THEN 1 ELSE 0
        /\ Cardinality(InTemp(p, n)') = 0
    BY <2>2, FS_EmptySet, FS_Singleton
  <2>5. Cardinality(InRegistry(p, n)') = IF n = wanted[p] THEN Cardinality(InRegistry(p, n)) + 1
                                         ELSE Cardinality(InRegistry(p, n))
    <3>1. IsFiniteSet(InRegistry(p, n))
      BY PlacesFinite DEF IInv
    <3> QED
      BY <2>3, <3>1, FS_AddElement
  <2>6. mapped[p][n] = Held(p, n)
    BY DEF OwnInv, Counted
  <2> QED
    BY <1>2, <2>1, <2>4, <2>5, <2>6, PlacesFinite DEF Held, IInv
<1>5. Emptied(p)'
  BY <1>1 DEF Emptied
<1> QED
  BY <1>1, <1>2, <1>4, <1>5, OwnAssembled DEF Counted, OwnInv

\* The mapping of an item goes with it to the larger array.
LEMMA RelocateOwns ==
  ASSUME IInv, IInv', IsFiniteSet(Ids), OwnInv, NEW p \in Procs, Relocate(p)
  PROVE  OwnInv'
PROOF
<1> DEFINE K == Len(storage[p]) + 1
           first == registry[p][K]
<1>0. /\ registry[p] \in Seq(Object) /\ storage[p] \in Seq(Object)
      /\ K \in DOMAIN registry[p] /\ first \in Object /\ pc[p] = "relocate"
  BY DEF Relocate, IInv, TypeInv
<1>1. /\ registry'[p] = [registry[p] EXCEPT ![K] = MovedFrom(first)]
      /\ storage'[p] = Append(storage[p], first)
      /\ Elsewhere(p) /\ UNCHANGED <<temp, pc, literal>>
  BY DEF Relocate, Moved, Elsewhere, IInv, TypeInv
<1>2. MovedFrom(first).buf = NULL /\ mapped' = mapped
  <2>1. MovedFrom(first).buf = NULL
    BY <1>0 DEF MovedFrom, Object
  <2> QED
    BY <2>1 DEF Relocate, Destroyed
<1> HIDE DEF first
<1>3. /\ DOMAIN registry'[p] = DOMAIN registry[p]
      /\ \A k \in DOMAIN registry[p] : k # K => registry'[p][k] = registry[p][k]
      /\ registry'[p][K].buf = NULL
      /\ Len(storage'[p]) = K
      /\ DOMAIN storage'[p] = DOMAIN storage[p] \cup {K} /\ K \notin DOMAIN storage[p]
      /\ \A k \in DOMAIN storage[p] : storage'[p][k] = storage[p][k]
      /\ storage'[p][K] = first
  BY <1>0, <1>1, <1>2
<1>4. ASSUME NEW n \in Names PROVE mapped'[p][n] = Held(p, n)'
  <2>1. InTemp(p, n)' = InTemp(p, n) /\ InLiterals(p, n)' = InLiterals(p, n)
    BY <1>1 DEF InTemp, InLiterals
  <2>2. /\ InRegistry(p, n)' = InRegistry(p, n) \ {K}
        /\ K \in InRegistry(p, n) <=> n = first.buf
    <3>1. \A k : k \in InRegistry(p, n)' <=> k \in InRegistry(p, n) /\ k # K
      BY <1>0, <1>3, NamesNamed DEF InRegistry
    <3> QED
      BY <1>0, <3>1 DEF InRegistry, first
  <2>3. /\ InStorage(p, n)' = IF n = first.buf THEN InStorage(p, n) \cup {K}
                              ELSE InStorage(p, n)
        /\ K \notin InStorage(p, n)
    <3>1. \A k : k \in InStorage(p, n)'
                   <=> k \in InStorage(p, n) \/ (k = K /\ n = first.buf)
      BY <1>3 DEF InStorage
    <3>2. K \notin InStorage(p, n)
      BY <1>3 DEF InStorage
    <3> QED
      BY <3>1, <3>2
  <2>4. IsFiniteSet(InRegistry(p, n)) /\ IsFiniteSet(InStorage(p, n))
    BY PlacesFinite DEF IInv
  <2>5. Cardinality(InRegistry(p, n)') = IF n = first.buf THEN Cardinality(InRegistry(p, n)) - 1
                                         ELSE Cardinality(InRegistry(p, n))
    <3>1. Cardinality(InRegistry(p, n) \ {K}) =
            IF K \in InRegistry(p, n) THEN Cardinality(InRegistry(p, n)) - 1
            ELSE Cardinality(InRegistry(p, n))
      BY <2>4, FS_RemoveElement
    <3> QED
      BY <2>2, <3>1
  <2>6. Cardinality(InStorage(p, n)') = IF n = first.buf THEN Cardinality(InStorage(p, n)) + 1
                                        ELSE Cardinality(InStorage(p, n))
    BY <2>3, <2>4, FS_AddElement
  <2>7. mapped[p][n] = Held(p, n)
    BY DEF OwnInv, Counted
  <2> QED
    BY <1>2, <2>1, <2>5, <2>6, <2>7, PlacesFinite DEF Held, IInv
<1>5. Emptied(p)'
  <2>1. \A k \in DOMAIN registry[p] : k <= Len(storage[p]) => registry[p][k].buf = NULL
    BY <1>0 DEF OwnInv, Emptied
  <2>2. \A k \in DOMAIN registry[p] : k <= K => k = K \/ k <= Len(storage[p])
    BY <1>0
  <2>3. \A k \in DOMAIN registry'[p] : k <= Len(storage'[p]) => registry'[p][k].buf = NULL
    BY <1>3, <2>1, <2>2
  <2> QED
    BY <1>0, <1>1, <2>3 DEF Emptied
<1> QED
  BY <1>1, <1>2, <1>4, <1>5, OwnAssembled DEF Counted, OwnInv

\* The larger array takes the place of the other, which owns nothing any more.
LEMMA RelocatedOwns ==
  ASSUME IInv, IInv', IsFiniteSet(Ids), OwnInv, NEW p \in Procs, Relocated(p)
  PROVE  OwnInv'
PROOF
<1>0. /\ registry[p] \in Seq(Object) /\ storage[p] \in Seq(Object)
      /\ Len(storage[p]) = Len(registry[p]) /\ pc[p] = "relocate"
  BY DEF Relocated, IInv, TypeInv
<1>1. /\ registry'[p] = storage[p] /\ storage'[p] = <<>> /\ pc'[p] = "push_back"
      /\ Elsewhere(p) /\ UNCHANGED <<temp, literal, mapped>>
  BY DEF Relocated, Goto, Elsewhere, IInv, TypeInv
<1>2. \A k \in DOMAIN registry[p] : registry[p][k].buf = NULL
  BY <1>0 DEF OwnInv, Emptied
<1>3. ASSUME NEW n \in Names PROVE mapped'[p][n] = Held(p, n)'
  <2>1. /\ InTemp(p, n)' = InTemp(p, n) /\ InLiterals(p, n)' = InLiterals(p, n)
        /\ InRegistry(p, n)' = InStorage(p, n)
        /\ InRegistry(p, n) = {} /\ InStorage(p, n)' = {}
    BY <1>1, <1>2, NamesNamed DEF InTemp, InLiterals, InRegistry, InStorage
  <2>2. mapped[p][n] = Held(p, n)
    BY DEF OwnInv, Counted
  <2> QED
    BY <1>1, <2>1, <2>2, FS_EmptySet, PlacesFinite DEF Held, IInv
<1>4. Emptied(p)'
  BY <1>1 DEF Emptied
<1> QED
  BY <1>1, <1>3, <1>4, OwnAssembled DEF Counted, OwnInv
\* A static object is mapped by the first call, and by no other.
LEMMA LiteralOwns ==
  ASSUME IInv, IInv', IsFiniteSet(Ids), OwnInv, NEW p \in Procs, NEW i \in Ids,
         NEW o, o.buf = LiteralName(i),
         literal' = [literal EXCEPT ![p][i] = o],
         mapped' = MappedStatic(p, i),
         UNCHANGED <<registry, storage, temp, pc, wanted, item>>
  PROVE  OwnInv'
PROOF
<1> DEFINE new == literal[p][i] = Absent
           name == LiteralName(i)
<1>0. name \in Names /\ Absent.buf = NULL /\ NULL \notin Names
  BY NamesNamed DEF Absent
<1>1. ~new => literal[p][i].buf = name
  BY DEF IInv, ProcessInv, LiteralInv, InPlace
<1>2. \A q \in Procs, j \in Ids :
        literal'[q][j] = IF q = p /\ j = i THEN o ELSE literal[q][j]
  BY DEF IInv, TypeInv
<1>3. Elsewhere(p)
  BY DEF Elsewhere, IInv, TypeInv
<1>4. /\ mapped' \in [Procs -> [Names -> Int]]
      /\ \A q \in Procs \ {p} : mapped'[q] = mapped[q]
      /\ \A n \in Names :
           mapped'[p][n] = IF new /\ n = name THEN mapped[p][n] + 1 ELSE mapped[p][n]
  BY <1>0 DEF MappedStatic, Mapped, OwnInv
<1> HIDE DEF new, name
<1>5. ASSUME NEW n \in Names PROVE mapped'[p][n] = Held(p, n)'
  <2>1. /\ InRegistry(p, n)' = InRegistry(p, n) /\ InStorage(p, n)' = InStorage(p, n)
        /\ InTemp(p, n)' = InTemp(p, n)
    BY DEF InRegistry, InStorage, InTemp
  <2>2. InLiterals(p, n)' = IF n = name THEN InLiterals(p, n) \cup {i} ELSE InLiterals(p, n)
    <3>1. \A j : j \in InLiterals(p, n)' <=> j \in InLiterals(p, n) \/ (j = i /\ n = name)
      BY <1>0, <1>1, <1>2 DEF InLiterals, new, name
    <3> QED
      BY <3>1
  <2>3. n = name => (i \in InLiterals(p, n) <=> ~new)
    BY <1>0, <1>1 DEF InLiterals, new
  <2>4. Cardinality(InLiterals(p, n)') =
          IF new /\ n = name THEN Cardinality(InLiterals(p, n)) + 1
          ELSE Cardinality(InLiterals(p, n))
    <3>1. IsFiniteSet(InLiterals(p, n))
      BY PlacesFinite DEF IInv
    <3>2. Cardinality(InLiterals(p, n) \cup {i}) =
            IF i \in InLiterals(p, n) THEN Cardinality(InLiterals(p, n))
            ELSE Cardinality(InLiterals(p, n)) + 1
      BY <3>1, FS_AddElement
    <3> QED
      BY <2>2, <2>3, <3>2
  <2>5. mapped[p][n] = Held(p, n)
    BY DEF OwnInv, Counted
  <2> QED
    BY <1>4, <2>1, <2>4, <2>5, PlacesFinite DEF Held, IInv
<1>6. Emptied(p)'
  BY DEF OwnInv, Emptied
<1> QED
  BY <1>3, <1>4, <1>5, <1>6, OwnAssembled DEF Counted

\* A write may make the static object,
LEMMA LiteralWriteOwns ==
  ASSUME IInv, IInv', IsFiniteSet(Ids), OwnInv, NEW p \in Procs, NEW i \in Ids,
         LiteralWrite(p, i)
  PROVE  OwnInv'
PROOF
<1>1. Static(p, i).buf = LiteralName(i)
  BY StaticObject DEF InPlace
<1> QED
  BY <1>1, LiteralOwns DEF LiteralWrite

\* and so may a read.
LEMMA LiteralReadOwns ==
  ASSUME IInv, IInv', IsFiniteSet(Ids), OwnInv, NEW p \in Procs, NEW i \in Ids,
         LiteralRead(p, i)
  PROVE  OwnInv'
PROOF
<1>1. ReadBy(Static(p, i)).buf = LiteralName(i)
  BY StaticObject, ReadObject DEF InPlace, IInv
<1> QED
  BY <1>1, LiteralOwns DEF LiteralRead

\* Every step keeps one owner to a mapping.
LEMMA NextOwns ==
  ASSUME IsFiniteSet(Ids), IInv, IInv', OwnInv, [Next]_vars
  PROVE  OwnInv'
PROOF
<1>1. ASSUME NEW p \in Procs, RuntimeStep(p) PROVE OwnInv'
  BY <1>1, LookupOwns, ConstructOwns, PushBackOwns, GrowOwns, RelocateOwns,
     RelocatedOwns, RuntimeWriteOwns, RuntimeReadOwns DEF RuntimeStep
<1>2. ASSUME NEW p \in Procs, NEW i \in Runtime[p], Call(p, i) PROVE OwnInv'
  BY <1>2, CallOwns, ProgramsAssumption
<1>3. ASSUME NEW p \in Procs, NEW i \in Literals[p], LiteralWrite(p, i) \/ LiteralRead(p, i)
      PROVE  OwnInv'
  BY <1>3, LiteralWriteOwns, LiteralReadOwns, ProgramsAssumption
<1>4. CASE UNCHANGED vars
  BY <1>4 DEF vars, OwnInv, Counted, Emptied, Held, InRegistry, InStorage, InTemp, InLiterals
<1> QED
  BY <1>1, <1>2, <1>3, <1>4 DEF Next

(* For any number of processes and finitely many ids: every mapping has     *)
(* exactly one owner, through every growth of a registry.                   *)
THEOREM Owned ==
  ASSUME IsFiniteSet(Ids)
  PROVE  Spec => []MappingsOwned
PROOF
<1>1. Init => OwnInv
  BY OwnInit
<1>2. IInv /\ IInv' /\ OwnInv /\ [Next]_vars => OwnInv'
  BY NextOwns
<1>3. IInv /\ OwnInv => MappingsOwned
  BY HoldersHeld DEF IInv, OwnInv, Counted, MappingsOwned
<1> QED
  BY <1>1, <1>2, <1>3, Invariance, PTL DEF Spec
=============================================================================
