------------------------------- MODULE MCShmem -------------------------------
(* Small instances of Shmem.                                                *)
EXTENDS Shmem, TLC

CONSTANTS p1, p2, n1, s1, s2, wr, rd, rd2, alien, A, B

OneName == {n1}
TwoProcs == {p1, p2}
TwoTypes == {A, B}
TheWriter == {wr}
TwoSegments == {s1, s2}
Symmetric == Permutations(TwoSegments)

\* Process 1 has a writer, and an object of another type under the same name;
\* process 2 has two readers.
AllObjects == {wr, rd, rd2, alien}
AllProcs == (wr :> p1) @@ (rd :> p2) @@ (rd2 :> p2) @@ (alien :> p1)
AllTypes == (wr :> A) @@ (rd :> A) @@ (rd2 :> A) @@ (alien :> B)

\* Bound: the second reader and the object of another type do not exist at once.
NotBoth == pc[rd2] = "none" \/ pc[alien] = "none"

\* Without the second reader.
Mixed == {wr, rd, alien}
MixedProcs == (wr :> p1) @@ (rd :> p2) @@ (alien :> p1)
MixedTypes == (wr :> A) @@ (rd :> A) @@ (alien :> B)

SameData == (A :> 2) @@ (B :> 2)
OtherData == (A :> 4) @@ (B :> 2)
Formats == (A :> 1) @@ (B :> 2)
\* B is compiled without debug data (IPC_NO_DEBUG_DATA).
FormatSizes == (A :> 1) @@ (B :> 0)
Hashes == (A :> 1) @@ (B :> 2)
=============================================================================
