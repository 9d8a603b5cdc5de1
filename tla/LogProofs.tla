----------------------------- MODULE LogProofs -----------------------------
(* That the loops of log_level() compute what log.h describes, for every     *)
(* LOG_LEVEL and every category, and that threads use no other result.      *)
EXTENDS LogSite, WellFoundedInduction, TLAPS

-----------------------------------------------------------------------------
(* The first place of a token                                               *)

\* A set of numbers that is not empty has a least one.
LEMMA LeastOf ==
  ASSUME NEW S, S \subseteq Nat, S # {}
  PROVE  Least(S) \in S /\ \A j \in S : Least(S) <= j
PROOF
<1> DEFINE R == OpToRel(<, Nat)
<1>1. IsWellFoundedOn(R, Nat)
  BY NatLessThanWellFounded
<1>2. \A j, k \in Nat : j < k => <<j, k>> \in R
  BY DEF OpToRel
<1> HIDE DEF R
<1>3. PICK k \in S : \A j \in S : ~(<<j, k>> \in R)
  BY <1>1, WFMin
<1>4. ASSUME NEW j \in S PROVE k <= j
  <2>1. k \in Nat /\ j \in Nat /\ ~(<<j, k>> \in R)
    BY <1>3
  <2>2. ~(j < k)
    BY <1>2, <2>1
  <2> QED
    BY <2>1, <2>2
<1> QED
  BY <1>4 DEF Least

Texts == env \in Seq(STRING) /\ cat \in Seq(STRING)

\* strchr finds the first place of a token, or the end.
LEMMA StrchrFinds ==
  ASSUME Texts, NEW from \in Nat \ {0}, NEW tok
  PROVE  /\ NULL = Len(env) + 1 /\ NULL \in Nat
         /\ strchr(from, tok) \in Nat \ {0} /\ strchr(from, tok) <= NULL
         /\ strchr(from, tok) # NULL =>
              strchr(from, tok) \in from..Len(env) /\ env[strchr(from, tok)] = tok
         /\ \A j \in from..Len(env) : env[j] = tok => strchr(from, tok) <= j
PROOF
<1> DEFINE At == {k \in from..Len(env) : env[k] = tok}
<1>1. Len(env) \in Nat /\ NULL = Len(env) + 1
  BY DEF Texts, NULL
<1>2. strchr(from, tok) = IF At = {} THEN NULL ELSE Least(At)
  BY DEF strchr
<1>3. CASE At = {}
  BY <1>1, <1>2, <1>3
<1>4. CASE At # {}
  <2>1. At \subseteq Nat
    OBVIOUS
  <2>2. Least(At) \in At /\ \A j \in At : Least(At) <= j
    BY <1>4, <2>1, LeastOf
  <2>3. Least(At) \in from..Len(env) /\ env[Least(At)] = tok
    BY <2>2
  <2> QED
    BY <1>1, <1>2, <1>4, <2>2, <2>3
<1> QED
  BY <1>3, <1>4

-----------------------------------------------------------------------------
(* The glob loop                                                            *)

InEntry == Texts /\ e \in 1..Len(env) /\ IsKeyed(e)

Pieces == PieceStarts(e, Colon)

\* A keyed entry has a colon, and something behind it.
LEMMA ColonAt ==
  ASSUME InEntry
  PROVE  /\ e \in Nat \ {0} /\ Len(env) \in Nat
         /\ Colon \in Nat \ {0} /\ e <= Colon /\ Colon < Len(env) /\ env[Colon] = ":"
PROOF
<1>1. e \in Nat \ {0} /\ Len(env) \in Nat
  BY DEF InEntry, Texts
<1>2. strchr(e, ":") < Len(env)
  BY DEF InEntry, IsKeyed
<1>3. /\ NULL = Len(env) + 1 /\ strchr(e, ":") \in Nat \ {0}
      /\ strchr(e, ":") # NULL => strchr(e, ":") \in e..Len(env) /\ env[strchr(e, ":")] = ":"
  BY <1>1, StrchrFinds DEF InEntry
<1> QED
  BY <1>1, <1>2, <1>3 DEF Colon

\* A piece ends before the next one begins.
LEMMA PieceEnds ==
  ASSUME InEntry, NEW P \in Pieces
  PROVE  /\ P \in Nat \ {0} /\ e <= P /\ P <= Colon
         /\ PatEnd(P) \in Nat /\ P <= PatEnd(P) /\ PatEnd(P) <= Colon
         /\ Size(P) \in Nat /\ Size(P) = PatEnd(P) - P /\ PieceSize(P, Colon) = Size(P)
         /\ env[PatEnd(P)] = "*" => PatEnd(P) + 1 \in Pieces
         /\ \A q \in Pieces : P < q => env[PatEnd(P)] = "*" /\ PatEnd(P) + 1 <= q
PROOF
<1>1. /\ e \in Nat \ {0} /\ Len(env) \in Nat /\ Colon \in Nat \ {0}
      /\ e <= Colon /\ Colon < Len(env) /\ env[Colon] = ":"
  BY ColonAt
<1>2. \A q : q \in Pieces <=> q = e \/ \E k \in e..(Colon - 1) : env[k] = "*" /\ q = k + 1
  BY DEF Pieces, PieceStarts
<1>3. P \in Nat \ {0} /\ e <= P /\ P <= Colon
  BY <1>1, <1>2
<1> DEFINE star == strchr(P, "*")
<1>4. /\ NULL = Len(env) + 1 /\ star \in Nat \ {0} /\ star <= NULL
      /\ star # NULL => star \in P..Len(env) /\ env[star] = "*"
      /\ \A j \in P..Len(env) : env[j] = "*" => star <= j
  BY <1>3, StrchrFinds DEF InEntry
<1>5. /\ PatEnd(P) = IF star > Colon THEN Colon ELSE star
      /\ Size(P) = PatEnd(P) - P /\ PieceSize(P, Colon) = Size(P)
  BY DEF PatEnd, Size, PieceSize
<1> HIDE DEF star
<1>6. PatEnd(P) \in Nat /\ P <= PatEnd(P) /\ PatEnd(P) <= Colon
  BY <1>1, <1>3, <1>4, <1>5
<1>7. env[PatEnd(P)] = "*" => PatEnd(P) + 1 \in Pieces
  <2>1. env[PatEnd(P)] = "*" => PatEnd(P) \in e..(Colon - 1)
    BY <1>1, <1>3, <1>6
  <2> QED
    BY <1>2, <2>1
<1>8. ASSUME NEW q \in Pieces, P < q
      PROVE  env[PatEnd(P)] = "*" /\ PatEnd(P) + 1 <= q
  <2>1. q # e
    BY <1>1, <1>3, <1>8
  <2>2. PICK k \in e..(Colon - 1) : env[k] = "*" /\ q = k + 1
    BY <1>2, <2>1
  <2>3. k \in P..Len(env) /\ k < Colon
    BY <1>1, <1>3, <1>8, <2>2
  <2>4. star <= k
    BY <1>4, <2>2, <2>3
  <2>5. star # NULL /\ PatEnd(P) = star
    BY <1>1, <1>4, <1>5, <2>3, <2>4
  <2> QED
    BY <1>1, <1>4, <2>2, <2>3, <2>4, <2>5
<1> QED
  BY <1>3, <1>5, <1>6, <1>7, <1>8

\* Piece p is found at place s.
Placed(p, s) ==
  \A k \in 1..Size(p) : s + k - 1 <= Len(cat) /\ cat[s + k - 1] = env[p + k - 1]

\* The pieces before P lie in cat one behind the other, up to str_index.
LaidOut(f, P) ==
  /\ \A p \in Pieces : p < P => Placed(p, f[p]) /\ f[p] + Size(p) <= str_index
  /\ \A p, q \in Pieces : p < q /\ q < P => f[p] + Size(p) <= f[q]

GlobInv ==
  /\ phase \in {"glob", "value"} => InEntry
  /\ phase = "glob" =>
       /\ pat_start \in Pieces /\ str_index \in Nat \ {0} /\ ret \in BOOLEAN
       /\ ret => \E f \in [{p \in Pieces : p < pat_start} -> 1..Len(cat)] : LaidOut(f, pat_start)
       /\ \A f \in [Pieces -> 1..Len(cat)] :
            IsLayout(f, e, Colon) => ret /\ str_index <= f[pat_start]
  /\ phase = "value" => ret = HasLayout(e, Colon)

\* A layout, in the words of the loop.
LEMMA Layouts ==
  ASSUME InEntry, NEW f \in [Pieces -> 1..Len(cat)]
  PROVE  IsLayout(f, e, Colon) <=>
           /\ \A p \in Pieces : Placed(p, f[p])
           /\ \A p, q \in Pieces : p < q => f[p] + Size(p) <= f[q]
PROOF
<1>1. \A p \in Pieces : PieceSize(p, Colon) = Size(p)
  BY PieceEnds
<1>2. Pieces = PieceStarts(e, Colon)
  BY DEF Pieces
<1> QED
  BY <1>1, <1>2 DEF IsLayout, Placed

\* Where the loop finds a piece.
LEMMA FoundWhere ==
  ASSUME InEntry, NEW P \in Pieces, NEW s \in 1..Len(cat)
  PROVE  FoundAt(P, s) <=> Placed(P, s)
PROOF
<1>1. Size(P) \in Nat /\ Len(cat) \in Nat /\ s \in Nat
  BY PieceEnds DEF InEntry, Texts
<1>2. ASSUME Placed(P, s) PROVE s + Size(P) <= Len(cat) + 1
  <2>1. CASE Size(P) = 0
    BY <1>1, <2>1
  <2>2. CASE Size(P) # 0
    <3>1. Size(P) \in 1..Size(P)
      BY <1>1, <2>2
    <3>2. s + Size(P) - 1 <= Len(cat)
      BY <1>2, <3>1 DEF Placed
    <3> QED
      BY <1>1, <3>2
  <2> QED
    BY <2>1, <2>2
<1>3. ASSUME s + Size(P) <= Len(cat) + 1, NEW k \in 1..Size(P) PROVE s + k - 1 <= Len(cat)
  BY <1>1, <1>3
<1> QED
  BY <1>2, <1>3 DEF FoundAt, Placed

\* No piece comes before the first.
LEMMA FirstPiece ==
  InEntry => e \in Pieces /\ \A p \in Pieces : ~(p < e)
PROOF
<1>1. ASSUME InEntry, NEW p \in Pieces PROVE ~(p < e)
  <2>1. e \in Nat /\ p \in Nat /\ e <= p
    BY <1>1, ColonAt, PieceEnds
  <2> QED
    BY <2>1
<1> QED
  BY <1>1 DEF Pieces, PieceStarts

\* An entry begins with nothing found and everything possible.
LEMMA GlobBegins ==
  ASSUME Texts, e \in 1..Len(env), ReadEntry
  PROVE  GlobInv'
PROOF
<1> DEFINE E == EntryStart
<1>1. UNCHANGED <<env, cat>>
  BY DEF ReadEntry
<1>2. CASE ~IsKeyed(E)
  BY <1>2 DEF ReadEntry, GlobInv
<1>3. CASE IsKeyed(E)
  <2>1. phase' = "glob" /\ e' = E /\ pat_start' = E /\ str_index' = 1 /\ ret' = TRUE
    BY <1>3 DEF ReadEntry
  <2>2. E \in 1..Len(env)
    <3>1. E \in Nat \ {0} /\ Len(env) \in Nat
      <4>1. Len(env) \in Nat /\ e \in Nat \ {0}
        BY DEF Texts
      <4>2. E = e + 1 \/ E = e
        BY DEF EntryStart
      <4> QED
        BY <4>1, <4>2
    <3>2. /\ NULL = Len(env) + 1
          /\ strchr(E, ":") # NULL => strchr(E, ":") \in E..Len(env)
      BY <3>1, StrchrFinds
    <3>3. strchr(E, ":") < Len(env)
      BY <1>3 DEF IsKeyed
    <3> QED
      BY <3>1, <3>2, <3>3
  <2>3. InEntry'
    BY <1>1, <1>3, <2>1, <2>2 DEF InEntry, Texts, IsKeyed, strchr, NULL
  <2>4. (e \in Pieces /\ \A p \in Pieces : ~(p < e))'
    BY <2>3, FirstPiece, PTL
  <2>5. {p \in Pieces' : p < pat_start'} = {}
    BY <2>1, <2>4
  <2>6. \E f : f \in [{} -> 1..Len(cat')]
    <3>1. [x \in {} |-> 1] \in [{} -> 1..Len(cat')]
      OBVIOUS
    <3> QED
      BY <3>1
  <2>7. \E f \in [{p \in Pieces' : p < pat_start'} -> 1..Len(cat')] : LaidOut(f, pat_start)'
    <3>1. \A f : LaidOut(f, pat_start)'
      BY <2>1, <2>4 DEF LaidOut
    <3> QED
      BY <2>5, <2>6, <3>1
  <2>8. \A f \in [Pieces' -> 1..Len(cat')] : str_index' <= f[pat_start']
    <3>1. Len(cat') \in Nat
      BY <1>1 DEF Texts
    <3> QED
      BY <2>1, <2>4, <3>1
  <2>9. (phase \in {"glob", "value"} => InEntry)' /\ (phase = "value" => ret = HasLayout(e, Colon))'
    BY <2>1, <2>3
  <2>10. /\ pat_start' \in Pieces' /\ str_index' \in Nat \ {0} /\ ret' \in BOOLEAN
    BY <2>1, <2>4
  <2>11. \A f \in [Pieces' -> 1..Len(cat')] :
           IsLayout(f, e, Colon)' => ret' /\ str_index' <= f[pat_start']
    BY <2>1, <2>8
  <2> QED
    BY <2>7, <2>9, <2>10, <2>11 DEF GlobInv
<1> QED
  BY <1>2, <1>3

\* A round keeps the place of the last piece least: whatever layout there is,
\* the rest of the pieces is not before it.
LEMMA GlobGoesOn ==
  ASSUME GlobInv, MatchPiece
  PROVE  GlobInv'
PROOF
<1> DEFINE P == pat_start
           Found == {s \in SearchFrom : FoundAt(P, s)}
           at == Least(Found)
           Before == {p \in Pieces : p < P}
           Full == [Pieces -> 1..Len(cat)]
<1>1. /\ InEntry /\ P \in Pieces /\ str_index \in Nat \ {0} /\ ret \in BOOLEAN
      /\ ret => \E f \in [Before -> 1..Len(cat)] : LaidOut(f, P)
      /\ \A f \in Full : IsLayout(f, e, Colon) => ret /\ str_index <= f[P]
  BY DEF GlobInv, MatchPiece
<1>2. /\ ret' = (ret /\ Found # {})
      /\ str_index' = (IF Found # {} THEN at ELSE str_index) + Size(P)
      /\ pat_start' = PatEnd(P) + 1
      /\ phase' = IF env[PatEnd(P)] = "*" THEN "glob" ELSE "value"
      /\ UNCHANGED <<env, cat, e>>
  BY DEF MatchPiece, NextPiece
<1>3. /\ P \in Nat \ {0} /\ PatEnd(P) \in Nat /\ P <= PatEnd(P)
      /\ Size(P) \in Nat
      /\ env[PatEnd(P)] = "*" => PatEnd(P) + 1 \in Pieces
      /\ \A q \in Pieces : P < q => env[PatEnd(P)] = "*" /\ PatEnd(P) + 1 <= q
  BY <1>1, PieceEnds
<1>4. Len(cat) \in Nat /\ \A p \in Pieces : p \in Nat /\ Size(p) \in Nat
  BY <1>1, PieceEnds DEF InEntry, Texts
<1>5. \A s : s \in Found <=> s \in 1..Len(cat) /\ str_index <= s /\ Placed(P, s)
  <2>1. SearchFrom = {s \in 1..Len(cat) : str_index <= s}
    BY <1>1, <1>4 DEF SearchFrom
  <2> QED
    BY <1>1, <2>1, FoundWhere
<1> HIDE DEF Found
<1>6. Found # {} => /\ at \in 1..Len(cat) /\ str_index <= at /\ Placed(P, at)
                    /\ \A s \in Found : at <= s
  <2>1. Found \subseteq Nat
    BY <1>5
  <2> QED
    BY <1>5, <2>1, LeastOf
<1> HIDE DEF at
<1>7. InEntry' /\ Pieces' = Pieces
  BY <1>1, <1>2 DEF InEntry, Texts, IsKeyed, strchr, NULL, Pieces, PieceStarts, Colon
<1>8. ASSUME NEW f \in Full, IsLayout(f, e, Colon)
      PROVE  /\ ret /\ Found # {} /\ at <= f[P]
             /\ \A q \in Pieces : P < q => at + Size(P) <= f[q]
  <2>1. /\ ret /\ str_index <= f[P] /\ f[P] \in 1..Len(cat)
    BY <1>1, <1>8
  <2>2. /\ Placed(P, f[P])
        /\ \A q \in Pieces : P < q => f[P] + Size(P) <= f[q]
    BY <1>1, <1>8, Layouts
  <2>3. f[P] \in Found
    BY <1>5, <2>1, <2>2
  <2>4. at \in Nat /\ at <= f[P]
    BY <1>6, <2>3
  <2>5. ASSUME NEW q \in Pieces, P < q PROVE at + Size(P) <= f[q]
    <3>1. f[P] + Size(P) <= f[q] /\ f[q] \in Nat /\ f[P] \in Nat
      BY <2>1, <2>2, <2>5
    <3> QED
      BY <1>3, <2>4, <3>1
  <2> QED
    BY <2>1, <2>3, <2>4, <2>5
<1>9. ASSUME ret, Found # {}
      PROVE  \E f \in [{p \in Pieces : p <= P} -> 1..Len(cat)] :
               /\ \A p \in Pieces : p <= P => Placed(p, f[p]) /\ f[p] + Size(p) <= at + Size(P)
               /\ \A p, q \in Pieces : p < q /\ q <= P => f[p] + Size(p) <= f[q]
  <2>1. PICK g \in [Before -> 1..Len(cat)] : LaidOut(g, P)
    BY <1>1, <1>9
  <2> DEFINE f == [p \in {p \in Pieces : p <= P} |-> IF p = P THEN at ELSE g[p]]
  <2>2. at \in 1..Len(cat) /\ str_index <= at /\ Placed(P, at) /\ at \in Nat
    BY <1>6, <1>9
  <2>3. /\ f[P] = at
        /\ \A p \in Pieces : p < P => f[p] = g[p] /\ g[p] \in 1..Len(cat) /\ g[p] \in Nat
    BY <1>1, <1>3, <1>4
  <2>4. \A p \in Pieces : p <= P => p = P \/ p < P
    BY <1>3, <1>4
  <2>5. f \in [{p \in Pieces : p <= P} -> 1..Len(cat)]
    BY <2>2, <2>3, <2>4
  <2> HIDE DEF f
  <2>6. ASSUME NEW p \in Pieces, p <= P
        PROVE  Placed(p, f[p]) /\ f[p] + Size(p) <= at + Size(P)
    <3>1. CASE p = P
      BY <1>3, <2>2, <2>3, <3>1
    <3>2. CASE p < P
      <4>1. Placed(p, g[p]) /\ g[p] + Size(p) <= str_index
        BY <2>1, <3>2 DEF LaidOut
      <4> QED
        BY <1>1, <1>3, <1>4, <2>2, <2>3, <3>2, <4>1
    <3> QED
      BY <2>4, <2>6, <3>1, <3>2
  <2>7. ASSUME NEW p \in Pieces, NEW q \in Pieces, p < q, q <= P
        PROVE  f[p] + Size(p) <= f[q]
    <3>0. p < P
      BY <1>3, <1>4, <2>7
    <3>1. CASE q = P
      <4>1. g[p] + Size(p) <= str_index
        BY <2>1, <3>0 DEF LaidOut
      <4> QED
        BY <1>1, <1>4, <2>2, <2>3, <3>0, <3>1, <4>1
    <3>2. CASE q < P
      <4>1. g[p] + Size(p) <= g[q]
        BY <2>1, <2>7, <3>2 DEF LaidOut
      <4> QED
        BY <2>3, <3>0, <3>2, <4>1
    <3> QED
      BY <2>4, <2>7, <3>1, <3>2
  <2> QED
    BY <2>5, <2>6, <2>7
<1>10. /\ \A p, s : Placed(p, s)' <=> Placed(p, s)
       /\ \A p : Size(p)' = Size(p)
       /\ \A f : IsLayout(f, e, Colon)' <=> IsLayout(f, e, Colon)
       /\ HasLayout(e, Colon)' <=> HasLayout(e, Colon)
  BY <1>2 DEF Placed, Size, PatEnd, Colon, strchr, NULL, IsLayout, HasLayout, PieceStarts, PieceSize
<1>11. Found # {} => str_index' = at + Size(P) /\ at \in Nat
  BY <1>2, <1>6
<1>12. CASE env[PatEnd(P)] = "*"
  <2> DEFINE Q == PatEnd(P) + 1
  <2>1. /\ phase' = "glob" /\ pat_start' = Q /\ Q \in Pieces
        /\ P < Q /\ \A p \in Pieces : p < Q <=> p <= P
    BY <1>2, <1>3, <1>4, <1>12
  <2> HIDE DEF Q
  <2>2. str_index' \in Nat \ {0} /\ ret' \in BOOLEAN
    BY <1>1, <1>2, <1>3, <1>6
  <2>3. ASSUME ret'
        PROVE  \E f \in [{p \in Pieces' : p < pat_start'} -> 1..Len(cat')] :
                 LaidOut(f, pat_start)'
    <3>1. PICK f \in [{p \in Pieces : p <= P} -> 1..Len(cat)] :
               /\ \A p \in Pieces : p <= P => Placed(p, f[p]) /\ f[p] + Size(p) <= at + Size(P)
               /\ \A p, q \in Pieces : p < q /\ q <= P => f[p] + Size(p) <= f[q]
      BY <1>2, <1>9, <2>3
    <3>2. {p \in Pieces' : p < pat_start'} = {p \in Pieces : p <= P}
      BY <1>7, <2>1
    <3>3. str_index' = at + Size(P)
      BY <1>2, <1>11, <2>3
    <3>4. LaidOut(f, pat_start)'
      BY <1>7, <1>10, <2>1, <3>1, <3>3 DEF LaidOut
    <3> QED
      BY <1>2, <3>2, <3>4
  <2>4. ASSUME NEW f \in Full, IsLayout(f, e, Colon)
        PROVE  ret' /\ str_index' <= f[Q]
    BY <1>2, <1>8, <1>11, <2>1, <2>4
  <2>5. (phase \in {"glob", "value"} => InEntry)' /\ (phase = "value" => ret = HasLayout(e, Colon))'
    BY <1>7, <2>1
  <2>6. \A f \in [Pieces' -> 1..Len(cat')] :
          IsLayout(f, e, Colon)' => ret' /\ str_index' <= f[pat_start']
    BY <1>2, <1>7, <1>10, <2>1, <2>4
  <2> QED
    BY <1>7, <2>1, <2>2, <2>3, <2>5, <2>6 DEF GlobInv
<1>13. CASE env[PatEnd(P)] # "*"
  <2>1. phase' = "value" /\ \A p \in Pieces : p <= P
    BY <1>2, <1>3, <1>4, <1>13
  <2>2. HasLayout(e, Colon) <=> \E f \in Full : IsLayout(f, e, Colon)
    BY DEF HasLayout, Pieces
  <2>3. HasLayout(e, Colon) => ret'
    BY <1>2, <1>8, <2>2
  <2>4. ASSUME ret' PROVE HasLayout(e, Colon)
    <3>1. PICK f \in [{p \in Pieces : p <= P} -> 1..Len(cat)] :
               /\ \A p \in Pieces : p <= P => Placed(p, f[p]) /\ f[p] + Size(p) <= at + Size(P)
               /\ \A p, q \in Pieces : p < q /\ q <= P => f[p] + Size(p) <= f[q]
      BY <1>2, <1>9, <2>4
    <3>2. f \in Full
      <4>1. {p \in Pieces : p <= P} = Pieces
        BY <2>1
      <4> QED
        BY <3>1, <4>1
    <3>3. IsLayout(f, e, Colon)
      BY <1>1, <2>1, <3>1, <3>2, Layouts
    <3> QED
      BY <2>2, <3>2, <3>3
  <2>5. ret' \in BOOLEAN /\ HasLayout(e, Colon) \in BOOLEAN
    BY <1>1, <1>2 DEF HasLayout
  <2>6. ret' = HasLayout(e, Colon)'
    BY <1>10, <2>3, <2>4, <2>5 DEF HasLayout
  <2> QED
    BY <1>7, <2>1, <2>6 DEF GlobInv
<1> QED
  BY <1>12, <1>13

-----------------------------------------------------------------------------
(* The entries                                                              *)

Clean == Documented /\ ~Misread

\* Colons, commas and stars are no levels, and levels are small numbers.
LEMMA LevelsAre ==
  /\ \A tok : IsIn(tok, LevelNames) => IndexIn(tok, LevelNames) \in 0..6
  /\ \A tok : IsIn(tok, Digits) => IndexIn(tok, Digits) \in 0..9
  /\ \A tok \in {":", comma} : ~IsIn(tok, LevelNames) /\ ~IsIn(tok, Digits)
  /\ ~IsIn("0", LevelNames)
PROOF
<1> DEFINE Words == {"fatal", "error", "alarm", "warning", "info", "debug", "trace"}
           Signs == {"0", "1", "2", "3", "4", "5", "6", "7", "8", "9"}
<1>1. /\ DOMAIN LevelNames = 1..7 /\ \A i \in 1..7 : LevelNames[i] \in Words
      /\ DOMAIN Digits = 1..10 /\ \A i \in 1..10 : Digits[i] \in Signs
  BY DEF LevelNames, Digits
<1>2. \A tok : IsIn(tok, LevelNames) => IndexIn(tok, LevelNames) \in 0..6
  BY <1>1 DEF IsIn, IndexIn
<1>3. \A tok : IsIn(tok, Digits) => IndexIn(tok, Digits) \in 0..9
  BY <1>1 DEF IsIn, IndexIn
<1>4. "0" \notin Words /\ \A tok \in {":", comma} : tok \notin Words /\ tok \notin Signs
  BY Zenon DEF comma
<1> HIDE DEF Words, Signs
<1>5. \A tok \in {":", comma} : ~IsIn(tok, LevelNames) /\ ~IsIn(tok, Digits)
  BY <1>1, <1>4 DEF IsIn
<1>6. ~IsIn("0", LevelNames)
  BY <1>1, <1>4 DEF IsIn
<1> QED
  BY <1>2, <1>3, <1>5, <1>6

\* What the code reads of a level, and what it means.
LEMMA LevelRead ==
  ASSUME NEW k
  PROVE  /\ IsLevel(k) => Meaning(k) \in 0..9 /\ Meaning(k) # invalid
         /\ IsLevel(k) /\ (env[k] = "0" => k = Len(env)) => log_level_from_string(k) = Meaning(k)
         /\ ~IsLevel(k) => log_level_from_string(k) = invalid
PROOF
<1>1. IsLevel(k) => Meaning(k) \in 0..9 /\ Meaning(k) # invalid
  BY LevelsAre DEF IsLevel, Meaning, invalid
<1>2. ~IsLevel(k) => log_level_from_string(k) = invalid
  BY DEF IsLevel, log_level_from_string
<1>3. IsLevel(k) /\ (env[k] = "0" => k = Len(env)) => log_level_from_string(k) = Meaning(k)
  BY DEF IsLevel, Meaning, log_level_from_string
<1> QED
  BY <1>1, <1>2, <1>3

\* Where entries begin.
LEMMA StartsAre ==
  ASSUME Texts
  PROVE  /\ Len(env) \in Nat /\ NULL = Len(env) + 1
         /\ 1 \in Starts
         /\ \A k \in 1..Len(env) : env[k] = comma => k + 1 \in Starts
         /\ \A o \in Starts : o \in 1..NULL /\ (o # 1 => o - 1 \in 1..Len(env) /\ env[o - 1] = comma)
PROOF
<1>1. Len(env) \in Nat /\ NULL = Len(env) + 1
  BY DEF Texts, NULL
<1>2. \A o : o \in Starts <=> o = 1 \/ \E k \in 1..Len(env) : env[k] = comma /\ o = k + 1
  BY DEF Starts
<1>3. \A k \in 1..Len(env) : env[k] = comma => k + 1 \in Starts
  BY <1>2
<1>4. ASSUME NEW o \in Starts
      PROVE  o \in 1..NULL /\ (o # 1 => o - 1 \in 1..Len(env) /\ env[o - 1] = comma)
  <2>1. CASE o = 1
    BY <1>1, <2>1
  <2>2. CASE o # 1
    <3>1. PICK k \in 1..Len(env) : env[k] = comma /\ o = k + 1
      BY <1>2, <2>2
    <3>2. k = o - 1 /\ o \in 1..NULL
      BY <1>1, <3>1
    <3> QED
      BY <3>1, <3>2
  <2> QED
    BY <2>1, <2>2
<1> QED
  BY <1>1, <1>2, <1>3, <1>4

\* An entry of the described form ends before its comma, and the next begins
\* behind it.
LEMMA EntryIs ==
  ASSUME Texts, Clean, NEW E \in Starts
  PROVE  /\ E \in 1..Len(env) /\ env[E] # comma
         /\ strchr(E, comma) \in Nat /\ E < strchr(E, comma) /\ strchr(E, comma) <= NULL
         /\ strchr(E + 1, comma) = strchr(E, comma)
         /\ strchr(E, comma) # NULL => env[strchr(E, comma)] = comma /\ strchr(E, comma) < Len(env)
         /\ \A o \in Starts : o <= strchr(E, comma) => o <= E
         /\ EndOf(E) = strchr(E, comma) - 1
PROOF
<1> DEFINE D == strchr(E, comma)
<1>0. /\ Len(env) \in Nat /\ NULL = Len(env) + 1 /\ E \in 1..NULL /\ E \in Nat \ {0}
      /\ \A o \in Starts : DocumentedPair(o) \/ (o = 1 /\ DocumentedLevel(1))
  BY StartsAre DEF Clean, Documented
<1>1. \A o \in Starts : \A tok :
        /\ strchr(o, tok) \in Nat /\ strchr(o, tok) <= NULL
        /\ strchr(o, tok) # NULL => strchr(o, tok) \in o..Len(env) /\ env[strchr(o, tok)] = tok
        /\ \A j \in o..Len(env) : env[j] = tok => strchr(o, tok) <= j
  <2>1. \A o \in Starts : o \in Nat \ {0}
    BY <1>0, StartsAre
  <2> QED
    BY <2>1, StrchrFinds
<1>2. \A o \in Starts : EndOf(o) = strchr(o, comma) - 1 /\ o < strchr(o, comma)
  <2>1. ASSUME NEW o \in Starts PROVE EndOf(o) = strchr(o, comma) - 1 /\ o < strchr(o, comma)
    <3>1. EndOf(o) = strchr(o, comma) - 1 /\ o \in Nat /\ strchr(o, comma) \in Nat /\ strchr(o, ":") \in Nat
      BY <1>0, <1>1, StartsAre DEF EndOf
    <3>2. CASE DocumentedPair(o)
      BY <3>1, <3>2 DEF DocumentedPair, ColonOf
    <3>3. CASE o = 1 /\ DocumentedLevel(1)
      BY <3>1, <3>3 DEF DocumentedLevel
    <3> QED
      BY <1>0, <3>2, <3>3
  <2> QED
    BY <2>1
<1>3. E < D /\ D \in Nat /\ D <= NULL /\ E \in 1..Len(env)
  BY <1>0, <1>1, <1>2
<1>4. env[E] # comma
  <2>1. env[E] = comma => D <= E
    BY <1>1, <1>3
  <2> QED
    BY <1>0, <1>3, <2>1
<1>5. NULL \notin Starts
  BY <1>0, <1>1, <1>2
<1>6. D # NULL => env[D] = comma /\ D < Len(env)
  <2>1. D # NULL => D \in 1..Len(env) /\ env[D] = comma
    BY <1>0, <1>1
  <2>2. D # NULL => D + 1 \in Starts
    BY <2>1, StartsAre
  <2> QED
    BY <1>0, <1>5, <2>1, <2>2
<1>7. ASSUME NEW o \in Starts, o <= D PROVE o <= E
  <2>1. CASE o = 1
    BY <1>0, <2>1
  <2>2. CASE o # 1
    <3>1. o \in Nat /\ o - 1 \in 1..Len(env) /\ env[o - 1] = comma
      BY <2>2, <1>0, StartsAre
    <3>2. o - 1 \in E..Len(env) => D <= o - 1
      BY <1>1, <3>1
    <3> QED
      BY <1>0, <1>3, <1>7, <3>1, <3>2
  <2> QED
    BY <2>1, <2>2
<1>8. strchr(E + 1, comma) = D
  <2> DEFINE F == strchr(E + 1, comma)
  <2>1. /\ F \in Nat /\ F <= NULL
        /\ F # NULL => F \in (E + 1)..Len(env) /\ env[F] = comma
        /\ \A j \in (E + 1)..Len(env) : env[j] = comma => F <= j
    <3>1. E + 1 \in Nat \ {0}
      BY <1>0
    <3> QED
      BY <3>1, StrchrFinds
  <2>2. F # NULL => D <= F
    BY <1>0, <1>1, <2>1
  <2>3. D # NULL => F <= D
    BY <1>0, <1>3, <1>6, <2>1
  <2> QED
    BY <1>0, <1>3, <2>1, <2>2, <2>3
<1> QED
  BY <1>2, <1>3, <1>4, <1>6, <1>7, <1>8

-----------------------------------------------------------------------------
(* The result                                                               *)

\* That r is what the entries before u amount to: nothing if there are none, or if
\* none in the whole text concerns cat, and what the entry that decides says if it
\* is one of them.
Says(u, r) ==
  /\ u = 1 => r = invalid
  /\ Applying = {} => r = invalid
  /\ Applying # {} /\ Deciding < u => r = Meaning(EndOf(Deciding))

Upto == IF e = NULL THEN NULL ELSE EntryStart

EntryInv ==
  phase \in {"off", "entries"} => e \in 1..NULL /\ (e = 1 \/ e = NULL \/ env[e] = comma)

ResultInv ==
  Clean =>
    /\ phase = "entries" => Says(Upto, ref_lvl)
    /\ phase \in {"glob", "value"} => e \in Starts /\ DocumentedPair(e) /\ Says(e, ref_lvl)
    /\ phase = "done" => ref_lvl = DocumentedResult

ParseInv == Texts /\ EntryInv /\ GlobInv /\ ResultInv

\* The texts stay what they are.
LEMMA SameTexts ==
  ASSUME UNCHANGED <<env, cat>>
  PROVE  /\ NULL' = NULL /\ Starts' = Starts /\ (Texts <=> Texts') /\ (Clean' <=> Clean)
         /\ \A u, r : Says(u, r)' <=> Says(u, r)
         /\ \A k : DocumentedPair(k)' <=> DocumentedPair(k)
         /\ DocumentedResult' = DocumentedResult
BY DEF Texts, Clean, Documented, Misread, OneCharacter, Starts, DocumentedPair, DocumentedLevel,
       ColonOf, EndOf, IsLevel, Meaning, Says, Applying, Applies, Deciding, IsPair, HasLayout,
       IsLayout, PieceStarts, PieceSize, strchr, NULL, DocumentedResult

\* A set of numbers up to n that is not empty has a greatest one.
LEMMA GreatestOf ==
  ASSUME NEW n \in Nat, NEW S, S \subseteq 1..n, S # {}
  PROVE  \E k \in S : \A j \in S : j <= k
PROOF
<1> DEFINE D == {n - k : k \in S}
<1>1. D \subseteq Nat /\ D # {}
  <2>1. \A k \in S : k \in 1..n
    OBVIOUS
  <2>2. \A k \in S : n - k \in Nat
    BY <2>1
  <2> QED
    BY <2>2
<1>2. Least(D) \in D /\ \A d \in D : Least(D) <= d
  BY <1>1, LeastOf
<1>3. PICK k \in S : Least(D) = n - k
  BY <1>2
<1>4. ASSUME NEW j \in S PROVE j <= k
  <2>1. n - j \in D
    OBVIOUS
  <2>2. n - k <= n - j
    BY <1>2, <1>3, <2>1
  <2> QED
    BY <2>2
<1> QED
  BY <1>4

\* The entry that decides is the last that concerns the category.
LEMMA DecidingIs ==
  ASSUME Texts, Applying # {}
  PROVE  /\ Deciding \in Applying /\ Deciding \in Nat
         /\ \A o \in Applying : o <= Deciding
PROOF
<1>1. NULL \in Nat /\ Applying \subseteq 1..NULL
  BY StartsAre DEF Applying
<1>2. \E k \in Applying : \A o \in Applying : o <= k
  BY <1>1, GreatestOf
<1>3. Deciding \in Applying /\ \A o \in Applying : o <= Deciding
  BY <1>2, Zenon DEF Deciding
<1> QED
  BY <1>1, <1>3

\* Its level is read for what it means.
LEMMA DecidedLevel ==
  ASSUME Texts, Clean, Applying # {}
  PROVE  /\ Deciding \in Starts /\ Meaning(EndOf(Deciding)) # invalid
         /\ log_level_from_string(EndOf(Deciding)) = Meaning(EndOf(Deciding))
PROOF
<1>1. Deciding \in Starts
  BY DecidingIs DEF Applying
<1>2. DocumentedPair(Deciding) \/ (Deciding = 1 /\ DocumentedLevel(1))
  BY <1>1 DEF Clean, Documented
<1>3. IsLevel(EndOf(Deciding))
  BY <1>2 DEF DocumentedPair, DocumentedLevel
<1>4. env[EndOf(Deciding)] = "0" => EndOf(Deciding) = Len(env)
  BY DEF Clean, Misread
<1> QED
  BY <1>1, <1>3, <1>4, LevelRead

\* A described pair is read as a pair.  Where no entry concerns the category its
\* key is read as no level; elsewhere it may be, and the level is already there.
LEMMA PairIs ==
  ASSUME Texts, Clean, NEW E \in Starts, DocumentedPair(E)
  PROVE  /\ IsKeyed(E)
         /\ E \in Applying <=> HasLayout(E, ColonOf(E))
         /\ ColonOf(E) + 1 = EndOf(E)
         /\ Applying = {} => log_level_from_string(E) = invalid
         /\ E = 1 => ~DocumentedLevel(1)
PROOF
<1> DEFINE C == ColonOf(E)
           D == strchr(E, comma)
<1>1. /\ Len(env) \in Nat /\ NULL = Len(env) + 1 /\ E \in Nat
      /\ D \in Nat /\ E < D /\ D <= NULL /\ EndOf(E) = D - 1
  BY EntryIs, StartsAre
<1>2. C = strchr(E, ":") /\ C = D - 2 /\ C > E /\ C \in Int
  BY <1>1 DEF DocumentedPair, ColonOf
<1>3. IsKeyed(E)
  BY <1>1, <1>2 DEF IsKeyed
<1>4. E = 1 => ~DocumentedLevel(1)
  BY <1>1, <1>2 DEF DocumentedLevel
<1>5. E \in Applying <=> HasLayout(E, C)
  BY <1>1, <1>2, <1>4 DEF Applying, Applies, IsPair
<1>6. ASSUME Applying = {} PROVE log_level_from_string(E) = invalid
  <2>1. ~IsLevel(E) \/ env[E] = "0"
    BY <1>6 DEF Clean, Misread
  <2>2. env[E] = "0" => log_level_from_string(E) = invalid
    BY <1>1, <1>2, LevelsAre DEF log_level_from_string
  <2> QED
    BY <2>1, <2>2, LevelRead
<1> QED
  BY <1>1, <1>2, <1>3, <1>4, <1>5, <1>6

\* A level for all comes first, and is not read as a pair.
LEMMA LevelIs ==
  ASSUME Texts, Clean, DocumentedLevel(1)
  PROVE  ~IsKeyed(1) /\ 1 \in Applying /\ EndOf(1) = 1
PROOF
<1>1. /\ Len(env) \in Nat /\ NULL = Len(env) + 1 /\ 1 \in Starts /\ 1 \in 1..Len(env)
      /\ strchr(1, comma) = 2 /\ EndOf(1) = 1 /\ IsLevel(1)
  BY EntryIs, StartsAre DEF DocumentedLevel
<1>2. env[1] # ":"
  BY <1>1, LevelsAre DEF IsLevel
<1>3. strchr(1, ":") \in Nat /\ strchr(1, ":") > 1
  <2>1. /\ strchr(1, ":") \in Nat \ {0}
        /\ strchr(1, ":") # NULL => strchr(1, ":") \in 1..Len(env) /\ env[strchr(1, ":")] = ":"
    BY StrchrFinds
  <2> QED
    BY <1>1, <1>2, <2>1
<1> QED
  BY <1>1, <1>3 DEF IsKeyed, Applying, Applies

\* The place the loop goes on from, once the entry at E has been read.
Behind(E) == IF strchr(E, comma) = NULL THEN NULL ELSE strchr(E, comma) + 1

\* Only the entry at E is added.
LEMMA BehindIs ==
  ASSUME Texts, Clean, NEW E \in Starts
  PROVE  /\ E \in Nat /\ 1 <= E /\ Behind(E) \in Nat /\ E < Behind(E)
         /\ \A o \in Starts : o \in Nat /\ (o < Behind(E) <=> o <= E)
PROOF
<1>1. /\ Len(env) \in Nat /\ NULL = Len(env) + 1 /\ E \in 1..Len(env)
      /\ strchr(E, comma) \in Nat /\ E < strchr(E, comma) /\ strchr(E, comma) <= NULL
      /\ \A o \in Starts : o <= strchr(E, comma) => o <= E
  BY EntryIs, StartsAre
<1>2. \A o \in Starts : o \in 1..Len(env)
  BY EntryIs
<1>3. Behind(E) \in Nat /\ E < Behind(E)
  BY <1>1 DEF Behind
<1>4. ASSUME NEW o \in Starts PROVE o < Behind(E) <=> o <= E
  <2>1. o \in 1..Len(env)
    BY <1>2
  <2>2. o < Behind(E) => o <= strchr(E, comma)
    BY <1>1, <2>1 DEF Behind
  <2> QED
    BY <1>1, <1>3, <2>1, <2>2
<1> QED
  BY <1>1, <1>2, <1>3, <1>4

\* An entry that concerns the category and is read right says what it means ...
LEMMA SaysOwn ==
  ASSUME Texts, Clean, NEW E \in Applying, NEW r, E = Deciding => r = Meaning(EndOf(E))
  PROVE  Says(Behind(E), r)
PROOF
<1>1. Applying # {} /\ E \in Starts
  BY DEF Applying
<1>2. Deciding \in Starts /\ Deciding \in Nat /\ E <= Deciding
  BY <1>1, DecidingIs DEF Applying
<1>3. Behind(E) # 1 /\ E \in Nat /\ (Deciding < Behind(E) <=> Deciding <= E)
  BY <1>1, <1>2, BehindIs
<1>4. Deciding < Behind(E) => Deciding = E
  BY <1>2, <1>3
<1> QED
  BY <1>1, <1>3, <1>4 DEF Says

\* ... and one that does not leaves what there was.
LEMMA SaysOther ==
  ASSUME Texts, Clean, NEW E \in Starts, E \notin Applying, NEW r, Says(E, r)
  PROVE  Says(Behind(E), r)
PROOF
<1>1. Behind(E) # 1 /\ E \in Nat
  BY BehindIs
<1>2. ASSUME Applying # {}, Deciding < Behind(E) PROVE Deciding < E
  <2>1. Deciding \in Applying /\ Deciding \in Starts /\ Deciding \in Nat
    BY <1>2, DecidingIs DEF Applying
  <2>2. Deciding <= E /\ Deciding # E
    BY <1>2, <2>1, BehindIs
  <2> QED
    BY <1>1, <2>1, <2>2
<1> QED
  BY <1>1, <1>2 DEF Says

\* The loop goes on behind a comma, or ends.
LEMMA GoesOn ==
  ASSUME Texts, NEW k \in Nat \ {0}, UNCHANGED env, phase' = "entries",
         e' = strchr(k, comma)
  PROVE  /\ EntryInv'
         /\ Clean => \A E \in Starts : strchr(k, comma) = strchr(E, comma) => Upto' = Behind(E)
PROOF
<1>1. /\ NULL' = NULL /\ NULL = Len(env) + 1 /\ Len(env) \in Nat
      /\ strchr(k, comma) \in 1..NULL
      /\ strchr(k, comma) # NULL => env[strchr(k, comma)] = comma
  <2>1. NULL' = NULL /\ Len(env) \in Nat
    BY DEF NULL, Texts
  <2> QED
    BY <2>1, StrchrFinds
<1>2. EntryInv'
  BY <1>1 DEF EntryInv
<1>3. \A E \in Starts : strchr(k, comma) = strchr(E, comma) => Upto' = Behind(E)
  BY <1>1 DEF Upto, EntryStart, Behind
<1> QED
  BY <1>2, <1>3

\* One entry is looked at.
LEMMA ReadEntryKeeps ==
  ASSUME ParseInv, ReadEntry
  PROVE  ParseInv'
PROOF
<1> DEFINE E == EntryStart
<1>1. /\ Texts /\ UNCHANGED <<env, cat>> /\ e # NULL
      /\ e \in 1..NULL /\ (e = 1 \/ env[e] = comma)
      /\ Len(env) \in Nat /\ NULL = Len(env) + 1 /\ e \in 1..Len(env)
  BY StartsAre DEF ParseInv, EntryInv, ReadEntry, MoreEntries
<1>2. GlobInv' /\ Texts'
  BY <1>1, GlobBegins, SameTexts
<1>3. E \in Nat \ {0} /\ E \in Starts
  <2>1. (E = e + 1 /\ env[e] = comma) \/ (E = e /\ e = 1)
    BY <1>1 DEF EntryStart
  <2> QED
    BY <1>1, <2>1, StartsAre
<1>4. Clean => Says(E, ref_lvl)
  BY <1>1 DEF ParseInv, ResultInv, ReadEntry, Upto
<1>5. Clean => DocumentedPair(E) \/ (E = 1 /\ DocumentedLevel(1))
  BY <1>3 DEF Clean, Documented
<1>6. CASE IsKeyed(E)
  <2>1. phase' = "glob" /\ e' = E /\ UNCHANGED ref_lvl
    BY <1>6 DEF ReadEntry
  <2>2. Clean => DocumentedPair(E)
    BY <1>1, <1>5, <1>6, LevelIs
  <2>3. ResultInv'
    BY <1>1, <1>3, <1>4, <2>1, <2>2, SameTexts DEF ResultInv
  <2> QED
    BY <1>2, <2>1, <2>3 DEF ParseInv, EntryInv
<1>7. CASE ~IsKeyed(E)
  <2>1. phase' = "entries" /\ e' = strchr(E + 1, comma) /\ ref_lvl' = Fallback(E)
    BY <1>7 DEF ReadEntry
  <2>2. /\ EntryInv'
        /\ Clean => \A o \in Starts : strchr(E + 1, comma) = strchr(o, comma) => Upto' = Behind(o)
    BY <1>1, <1>3, <2>1, GoesOn
  <2>3. ASSUME Clean PROVE Says(Upto', ref_lvl')
    <3>1. E = 1 /\ DocumentedLevel(1)
      BY <1>1, <1>3, <1>5, <1>7, <2>3, PairIs
    <3>2. Upto' = Behind(E)
      BY <1>1, <1>3, <2>2, <2>3, EntryIs
    <3>3. ref_lvl = invalid
      BY <1>4, <2>3, <3>1 DEF Says
    <3>4. ref_lvl' = log_level_from_string(1)
      BY <2>1, <3>1, <3>3 DEF Fallback
    <3>5. 1 \in Applying /\ EndOf(1) = 1
      BY <1>1, <2>3, <3>1, LevelIs
    <3>6. 1 = Deciding => ref_lvl' = Meaning(EndOf(1))
      BY <1>1, <2>3, <3>4, <3>5, DecidedLevel
    <3>7. Says(Behind(1), ref_lvl')
      BY <1>1, <2>3, <3>5, <3>6, SaysOwn
    <3> QED
      BY <3>1, <3>2, <3>7
  <2>4. ResultInv'
    BY <1>1, <2>1, <2>3, SameTexts DEF ResultInv
  <2> QED
    BY <1>2, <2>2, <2>4 DEF ParseInv
<1> QED
  BY <1>6, <1>7

\* A round of the glob loop changes neither the level nor the place.
LEMMA MatchPieceKeeps ==
  ASSUME ParseInv, MatchPiece
  PROVE  ParseInv'
PROOF
<1>1. /\ UNCHANGED <<env, cat, e, ref_lvl>> /\ phase = "glob" /\ phase' \in {"glob", "value"}
  BY DEF MatchPiece
<1>2. GlobInv'
  BY GlobGoesOn DEF ParseInv
<1>3. Texts' /\ EntryInv'
  BY <1>1, SameTexts DEF ParseInv, EntryInv
<1>4. ResultInv'
  BY <1>1, SameTexts DEF ParseInv, ResultInv
<1> QED
  BY <1>2, <1>3, <1>4 DEF ParseInv

\* The level of a pair counts if, and only if, its pattern matches.
LEMMA ReadValueKeeps ==
  ASSUME ParseInv, ReadValue
  PROVE  ParseInv'
PROOF
<1>1. /\ Texts /\ UNCHANGED <<env, cat>> /\ phase = "value" /\ phase' = "entries"
      /\ ret = HasLayout(e, Colon) /\ e' = strchr(e + 1, comma)
      /\ ref_lvl' = IF ret THEN log_level_from_string(Colon + 1) ELSE Fallback(e)
      /\ e \in Nat \ {0}
  BY ColonAt DEF ParseInv, GlobInv, ReadValue
<1>2. /\ EntryInv'
      /\ Clean => \A o \in Starts : strchr(e + 1, comma) = strchr(o, comma) => Upto' = Behind(o)
  BY <1>1, GoesOn
<1>3. ASSUME Clean PROVE Says(Upto', ref_lvl')
  <2>1. e \in Starts /\ DocumentedPair(e) /\ Says(e, ref_lvl)
    BY <1>1, <1>3 DEF ParseInv, ResultInv
  <2>2. Upto' = Behind(e)
    BY <1>1, <1>2, <1>3, <2>1, EntryIs
  <2>3. Colon = ColonOf(e)
    BY DEF Colon, ColonOf
  <2>4. /\ e \in Applying <=> ret
        /\ Colon + 1 = EndOf(e)
        /\ Applying = {} => log_level_from_string(e) = invalid
    BY <1>1, <1>3, <2>1, <2>3, PairIs
  <2>5. CASE ret
    <3>1. e \in Applying /\ ref_lvl' = log_level_from_string(EndOf(e))
      BY <1>1, <2>4, <2>5
    <3>2. e = Deciding => ref_lvl' = Meaning(EndOf(e))
      BY <1>1, <1>3, <3>1, DecidedLevel
    <3>3. Says(Behind(e), ref_lvl')
      BY <1>1, <1>3, <3>1, <3>2, SaysOwn
    <3> QED
      BY <2>2, <3>3
  <2>6. CASE ~ret
    <3>1. e \notin Applying /\ ref_lvl' = Fallback(e)
      BY <1>1, <2>4, <2>6
    <3>2. Says(Behind(e), ref_lvl)
      BY <1>1, <1>3, <2>1, <3>1, SaysOther
    <3>3. CASE Applying = {}
      <4>1. ref_lvl' = invalid /\ ref_lvl = invalid
        BY <2>1, <2>4, <3>1, <3>3 DEF Says, Fallback
      <4> QED
        BY <2>2, <3>2, <4>1
    <3>4. CASE Applying # {}
      <4>1. ASSUME Deciding < Behind(e) PROVE ref_lvl' = ref_lvl
        <5>1. ref_lvl = Meaning(EndOf(Deciding)) /\ Meaning(EndOf(Deciding)) # invalid
          BY <1>1, <1>3, <3>2, <3>4, <4>1, DecidedLevel DEF Says
        <5> QED
          BY <3>1, <5>1 DEF Fallback
      <4>2. Behind(e) # 1
        BY <1>1, <1>3, <2>1, BehindIs
      <4>3. Says(Behind(e), ref_lvl')
        BY <3>2, <3>4, <4>1, <4>2 DEF Says
      <4> QED
        BY <2>2, <4>3
    <3> QED
      BY <3>3, <3>4
  <2> QED
    BY <2>5, <2>6
<1>4. ResultInv'
  BY <1>1, <1>3, SameTexts DEF ResultInv
<1>5. GlobInv' /\ Texts'
  BY <1>1, SameTexts DEF GlobInv
<1> QED
  BY <1>2, <1>4, <1>5 DEF ParseInv

\* At the end all entries have been read.
LEMMA FinishKeeps ==
  ASSUME ParseInv, Finish
  PROVE  ParseInv'
PROOF
<1>1. /\ Texts /\ UNCHANGED <<env, cat>> /\ phase = "entries" /\ phase' = "done"
      /\ ref_lvl' = IF ref_lvl = invalid THEN log_level_default ELSE ref_lvl
      /\ e \in 1..NULL /\ (e = 1 \/ e = NULL \/ env[e] = comma)
      /\ Len(env) \in Nat /\ NULL = Len(env) + 1
      /\ e = NULL \/ OneCharacter(e)
  BY StartsAre DEF ParseInv, EntryInv, Finish, MoreEntries
<1>2. ASSUME Clean PROVE ref_lvl' = DocumentedResult
  <2>1. e = NULL
    <3>1. CASE OneCharacter(e) /\ e # NULL
      <4>1. e = Len(env) /\ e # 1 /\ e \in 1..Len(env) /\ env[e] = comma
        BY <1>1, <1>2, <3>1 DEF OneCharacter, Clean, Misread
      <4>2. e + 1 \in Starts /\ ~(e + 1 \in 1..Len(env))
        BY <1>1, <4>1, StartsAre
      <4> QED
        BY <1>1, <1>2, <4>2, EntryIs
    <3> QED
      BY <1>1, <3>1
  <2>2. Says(NULL, ref_lvl)
    BY <1>1, <1>2, <2>1 DEF ParseInv, ResultInv, Upto
  <2>3. CASE Applying = {}
    BY <1>1, <2>2, <2>3 DEF Says, DocumentedResult
  <2>4. CASE Applying # {}
    <3>1. Deciding \in Starts /\ Meaning(EndOf(Deciding)) # invalid
      BY <1>1, <1>2, <2>4, DecidedLevel
    <3>2. Deciding < NULL
      BY <1>1, <1>2, <3>1, EntryIs
    <3>3. ref_lvl = Meaning(EndOf(Deciding))
      BY <2>2, <2>4, <3>2 DEF Says
    <3> QED
      BY <1>1, <2>4, <3>1, <3>3 DEF DocumentedResult
  <2> QED
    BY <2>3, <2>4
<1>3. ResultInv'
  BY <1>1, <1>2, SameTexts DEF ResultInv
<1>4. GlobInv' /\ Texts' /\ EntryInv'
  BY <1>1, SameTexts DEF GlobInv, EntryInv
<1> QED
  BY <1>3, <1>4 DEF ParseInv

-----------------------------------------------------------------------------
(* The place that logs                                                      *)

\* Every step of log_level() keeps what it is about.
LEMMA ParseKeeps == ParseInv /\ ParseStep => ParseInv'
BY ReadEntryKeeps, MatchPieceKeeps, ReadValueKeeps, FinishKeeps DEF ParseStep

\* Nobody else touches it.
LEMMA ParseLeft ==
  ASSUME ParseInv, UNCHANGED <<env, cat, parse>>
  PROVE  ParseInv'
PROOF
<1>1. UNCHANGED <<env, cat, phase, e, pat_start, str_index, ret, ref_lvl>>
  BY DEF parse
<1>2. GlobInv'
  <2>1. (InEntry' <=> InEntry) /\ Pieces' = Pieces
    BY <1>1 DEF InEntry, Texts, IsKeyed, strchr, NULL, Pieces, PieceStarts, Colon
  <2>2. /\ \A p, s : Placed(p, s)' <=> Placed(p, s)
        /\ \A p : Size(p)' = Size(p)
        /\ \A f : IsLayout(f, e, Colon)' <=> IsLayout(f, e, Colon)
    BY <1>1 DEF Placed, Size, PatEnd, Colon, strchr, NULL, IsLayout, PieceStarts, PieceSize
  <2>3. HasLayout(e, Colon)' = HasLayout(e, Colon)
    BY <1>1 DEF HasLayout, Colon, strchr, NULL, IsLayout, PieceStarts, PieceSize
  <2>4. \A f : LaidOut(f, pat_start)' <=> LaidOut(f, pat_start)
    BY <1>1, <2>1, <2>2 DEF LaidOut
  <2>5. GlobInv
    BY DEF ParseInv
  <2>6. (phase \in {"glob", "value"} => InEntry)' /\ (phase = "value" => ret = HasLayout(e, Colon))'
    BY <1>1, <2>1, <2>3, <2>5 DEF GlobInv
  <2>7. ASSUME phase' = "glob"
        PROVE  /\ pat_start' \in Pieces' /\ str_index' \in Nat \ {0} /\ ret' \in BOOLEAN
               /\ ret' => \E f \in [{p \in Pieces' : p < pat_start'} -> 1..Len(cat')] :
                            LaidOut(f, pat_start)'
               /\ \A f \in [Pieces' -> 1..Len(cat')] :
                    IsLayout(f, e, Colon)' => ret' /\ str_index' <= f[pat_start']
    <3>1. /\ pat_start \in Pieces /\ str_index \in Nat \ {0} /\ ret \in BOOLEAN
          /\ ret => \E f \in [{p \in Pieces : p < pat_start} -> 1..Len(cat)] :
                      LaidOut(f, pat_start)
          /\ \A f \in [Pieces -> 1..Len(cat)] :
               IsLayout(f, e, Colon) => ret /\ str_index <= f[pat_start]
      BY <1>1, <2>5, <2>7 DEF GlobInv
    <3>2. {p \in Pieces' : p < pat_start'} = {p \in Pieces : p < pat_start}
      BY <1>1, <2>1
    <3>3. \A f \in [Pieces' -> 1..Len(cat')] :
            IsLayout(f, e, Colon)' => ret' /\ str_index' <= f[pat_start']
      BY <1>1, <2>1, <2>2, <3>1
    <3> QED
      BY <1>1, <2>1, <2>4, <3>1, <3>2, <3>3
  <2> QED
    BY <2>6, <2>7 DEF GlobInv
<1>3. Texts' /\ EntryInv'
  BY <1>1, SameTexts DEF ParseInv, EntryInv
<1>4. ResultInv'
  <2>1. Upto' = Upto
    BY <1>1 DEF Upto, EntryStart, NULL
  <2> QED
    BY <1>1, <2>1, SameTexts DEF ParseInv, ResultInv
<1> QED
  BY <1>2, <1>3, <1>4 DEF ParseInv

\* log_level() begins at the first entry, with nothing said.
LEMMA ParseBegins ==
  Texts /\ phase = "entries" /\ e = 1 /\ ref_lvl = invalid => ParseInv
PROOF
<1> SUFFICES ASSUME Texts, phase = "entries", e = 1, ref_lvl = invalid PROVE ParseInv
  OBVIOUS
<1>1. 1 \in Starts /\ Len(env) \in Nat /\ NULL = Len(env) + 1
  BY StartsAre
<1>2. EntryInv /\ GlobInv
  BY <1>1 DEF EntryInv, GlobInv
<1>3. ASSUME Clean PROVE Says(Upto, ref_lvl)
  <2>1. Upto = 1
    BY <1>1, <1>3, EntryIs DEF Upto, EntryStart
  <2>2. Applying # {} => ~(Deciding < 1)
    <3>1. \A o \in Applying : o \in 1..NULL /\ NULL \in Nat
      BY <1>1, StartsAre DEF Applying
    <3> QED
      BY <1>1, <3>1, DecidingIs
  <2> QED
    BY <2>1, <2>2 DEF Says
<1> QED
  BY <1>2, <1>3 DEF ParseInv, ResultInv

\* The static is initialised by one thread, and used when it has its value.
GuardInv ==
  /\ guard \in {"unset", "busy", "set"}
  /\ guard = "unset" => Start
  /\ guard = "set" => phase = "done" /\ should_log = (lvl <= ref_lvl)
  /\ \A s, t \in Threads : pc[s] = "init" /\ pc[t] = "init" => s = t

ThreadInv(t) ==
  /\ pc[t] = "init" => guard = "busy"
  /\ pc[t] = "use" => guard = "set"
  /\ printed[t] # "nothing yet" =>
       guard = "set" /\ printed[t] = IF should_log THEN "printed" ELSE "silent"

SiteInv ==
  /\ ParseInv
  /\ arg \in [Threads -> Seq(STRING)]
  /\ pc \in [Threads -> {"idle", "log", "init", "use"}]
  /\ printed \in [Threads -> {"nothing yet", "printed", "silent"}]
  /\ GuardInv
  /\ \A t \in Threads : ThreadInv(t)

\* A program starts with nothing read.
LEMMA SiteInit == Init => SiteInv
PROOF
<1> SUFFICES ASSUME Init PROVE SiteInv
  OBVIOUS
<1>0. <<>> \in Seq(STRING)
  OBVIOUS
<1>1. Texts
  BY <1>0, TextsAssumption DEF Init, Texts
<1>2. ParseInv
  BY <1>1, StartsAre DEF Init, Start, ParseInv, EntryInv, GlobInv, ResultInv
<1>3. arg \in [Threads -> Seq(STRING)]
  BY <1>0 DEF Init
<1> QED
  BY <1>2, <1>3 DEF Init, SiteInv, GuardInv, ThreadInv

\* Every step of a thread keeps the invariant.
LEMMA SiteNext == SiteInv /\ [Next]_vars => SiteInv'
PROOF
<1> SUFFICES ASSUME SiteInv, [Next]_vars PROVE SiteInv'
  OBVIOUS
<1>1. ASSUME NEW t \in Threads, NEW c \in Categories, Call(t, c) PROVE SiteInv'
  <2>1. ParseInv'
    BY <1>1, ParseLeft DEF Call, SiteInv
  <2>2. arg' \in [Threads -> Seq(STRING)]
    BY <1>1, TextsAssumption DEF Call, SiteInv
  <2> QED
    BY <1>1, <2>1, <2>2 DEF Call, Goto, SiteInv, GuardInv, ThreadInv, Start, parse
<1>2. ASSUME NEW t \in Threads, Acquire(t) PROVE SiteInv'
  <2>1. ParseInv'
    <3>1. Start /\ Texts /\ arg[t] \in Seq(STRING)
      BY <1>2 DEF Acquire, SiteInv, GuardInv, ParseInv
    <3>2. (Texts /\ phase = "entries" /\ e = 1 /\ ref_lvl = invalid)'
      BY <1>2, <3>1 DEF Acquire, Start, Texts, invalid
    <3> QED
      BY <3>2, ParseBegins, PTL
  <2> QED
    BY <1>2, <2>1 DEF Acquire, Goto, SiteInv, GuardInv, ThreadInv
<1>3. ASSUME NEW t \in Threads, Parse(t) PROVE SiteInv'
  <2>1. ParseInv'
    BY <1>3, ParseKeeps DEF Parse, SiteInv
  <2>2. guard = "busy"
    BY <1>3 DEF Parse, SiteInv, ThreadInv
  <2> QED
    BY <1>3, <2>1, <2>2 DEF Parse, SiteInv, GuardInv, ThreadInv
<1>4. ASSUME NEW t \in Threads, Release(t) PROVE SiteInv'
  <2>1. ParseInv'
    BY <1>4, ParseLeft DEF Release, SiteInv
  <2>2. guard = "busy" /\ \A s \in Threads : s # t => pc[s] # "init"
    BY <1>4 DEF Release, SiteInv, ThreadInv, GuardInv
  <2> QED
    BY <1>4, <2>1, <2>2 DEF Release, Goto, SiteInv, GuardInv, ThreadInv, parse
<1>5. ASSUME NEW t \in Threads, Pass(t) PROVE SiteInv'
  <2>1. ParseInv'
    BY <1>5, ParseLeft DEF Pass, SiteInv
  <2> QED
    BY <1>5, <2>1 DEF Pass, MayPass, Goto, SiteInv, GuardInv, ThreadInv, Start, parse
<1>6. ASSUME NEW t \in Threads, Use(t) PROVE SiteInv'
  <2>1. ParseInv'
    BY <1>6, ParseLeft DEF Use, SiteInv
  <2> QED
    BY <1>6, <2>1 DEF Use, Goto, SiteInv, GuardInv, ThreadInv, Start, parse
<1>7. CASE UNCHANGED vars
  <2>1. ParseInv'
    BY <1>7, ParseLeft DEF vars, SiteInv
  <2> QED
    BY <1>7, <2>1 DEF vars, SiteInv, GuardInv, ThreadInv, Start, parse
<1> QED
  BY <1>1, <1>2, <1>3, <1>4, <1>5, <1>6, <1>7 DEF Next, ThreadStep

(* The inductive invariant of the parse, its static and the threads.        *)
THEOREM Invariance == Spec => []SiteInv
BY SiteInit, SiteNext, PTL DEF Spec

(* For every pattern and every category, the glob loop finds a match if and *)
(* only if the pieces of the pattern can be laid out in the category in      *)
(* order: taking the first place for every piece misses nothing.            *)
THEOREM GlobFindsLayouts == Spec => []GlobIsLayout
PROOF
<1>1. SiteInv => GlobIsLayout
  BY DEF SiteInv, ParseInv, GlobInv, GlobIsLayout
<1> QED
  BY <1>1, Invariance, PTL

(* Every LOG_LEVEL of the described form gives every category the level     *)
(* log.h describes, but for the cases that Misread names.                    *)
THEOREM ReadsWhatIsDocumented == Spec => []ReadAsDocumented
PROOF
<1>1. SiteInv => ReadAsDocumented
  BY DEF SiteInv, ParseInv, ResultInv, Clean, ReadAsDocumented
<1> QED
  BY <1>1, Invariance, PTL

(* Any number of threads print what LOG_LEVEL says for the category of the  *)
(* first call, whoever makes it.                                            *)
THEOREM PrintsWhatIsConfigured == Spec => []PrintedAsConfigured
PROOF
<1>1. ASSUME SiteInv PROVE PrintedAsConfigured
  <2> SUFFICES ASSUME Documented, ~Misread, NEW t \in Threads, printed[t] # "nothing yet"
               PROVE  printed[t] = "printed" <=> lvl <= DocumentedResult
    BY DEF PrintedAsConfigured
  <2>1. /\ guard = "set" /\ printed[t] = IF should_log THEN "printed" ELSE "silent"
        /\ should_log = (lvl <= ref_lvl) /\ phase = "done"
    BY <1>1 DEF SiteInv, ThreadInv, GuardInv
  <2>2. ref_lvl = DocumentedResult
    BY <1>1, <2>1 DEF SiteInv, ParseInv, ResultInv, Clean
  <2> QED
    BY <2>1, <2>2
<1> QED
  BY <1>1, Invariance, PTL
=============================================================================
