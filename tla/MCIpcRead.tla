----------------------------- MODULE MCIpcRead -----------------------------
(* Types with padding at every place it can be, structs in structs, an       *)
(* std::array, types that are refused, and types without a format; one of    *)
(* them ends at a cache line.  The formats are those of README.md:290-300    *)
(* and others that do not fit the type.                                      *)
EXTENDS IpcRead, TLC

Sizes == ("c" :> 1) @@ ("s" :> 2) @@ ("i" :> 4) @@ ("f" :> 4) @@ ("d" :> 8) @@ ("pointer" :> 8)

Contents ==
     "padded"  :> <<"c", "d", "s", "i">>
  @@ "packed"  :> <<"i", "s", "s">>
  @@ "array"   :> <<"s", "s", "s">>
  @@ "nested"  :> <<"c", "array", "i">>
  @@ "deep"    :> <<"nested", "packed", "c">>
  @@ "linked"  :> <<"i", "pointer">>
  @@ "large"   :> <<"c", "c", "c", "c", "c">>
  @@ "wrapped" :> <<"padded">>
  @@ "opaque"  :> <<"i", "c", "f", "f">>
  @@ "line"    :> [k \in 1..8 |-> "d"]
  @@ "tail"    :> <<"line7", "array", "s">>
  @@ "line7"   :> [k \in 1..7 |-> "d"]

MCOthers == {"opaque", "line", "tail", "line7"}
MCStructs == DOMAIN Contents \ MCOthers
MCScalars == DOMAIN Sizes

MCalignof[T \in Types] ==
  IF T \in Scalars THEN Sizes[T]
  ELSE Largest({MCalignof[Contents[T][k]] : k \in DOMAIN Contents[T]})

MCsizeof[T \in Types] ==
  IF T \in Scalars THEN Sizes[T]
  ELSE LET end[k \in 0..Len(Contents[T])] ==
             IF k = 0 THEN 0
             ELSE RoundUp(end[k - 1], MCalignof[Contents[T][k]]) + MCsizeof[Contents[T][k]]
       IN  RoundUp(end[Len(Contents[T])], MCalignof[T])

MCoffsetof ==
  [T \in Classes |->
     LET start[k \in DOMAIN Contents[T]] ==
           IF k = 1 THEN 0
           ELSE RoundUp(start[k - 1] + MCsizeof[Contents[T][k - 1]], MCalignof[Contents[T][k]])
     IN  start]

MClayout[T \in Types] ==
  IF T \in Scalars THEN <<[id |-> T, at |-> 0]>>
  ELSE LET upto[k \in 0..Len(Contents[T])] ==
             IF k = 0 THEN <<>>
             ELSE upto[k - 1] \o
                    [i \in DOMAIN MClayout[Contents[T][k]] |->
                       [MClayout[Contents[T][k]][i] EXCEPT !.at = @ + MCoffsetof[T][k]]]
       IN  upto[Len(Contents[T])]

MCbefore ==
  [T \in Classes |->
     LET upto[k \in 1..(Len(Contents[T]) + 1)] ==
           IF k = 1 THEN 0 ELSE upto[k - 1] + Len(MClayout[Contents[T][k - 1]])
     IN  upto]

MCdepth[T \in Types] ==
  IF T \in Scalars THEN 0 ELSE 1 + Largest({MCdepth[Contents[T][k]] : k \in DOMAIN Contents[T]})

MCNumber == "8" :> 8

MCFormats == {<<"i", "c", "f", "f">>, <<"i", "8", "f">>, <<"8">>, <<"i", "?", "i">>,
              [k \in 1..12 |-> "d"], [k \in 1..11 |-> IF k < 8 THEN "d" ELSE "s"]}
=============================================================================
