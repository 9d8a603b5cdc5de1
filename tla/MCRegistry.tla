----------------------------- MODULE MCRegistry -----------------------------
(* A reader and a writer, and ids that differ in a leading slash, in a       *)
(* slash for an underscore, and altogether.  The reader asks for all of them *)
(* at run time, so its registry grows three times.                          *)
EXTENDS Registry, TLC

CONSTANTS r, w

MCPrefix == <<"ipc">>

ab == <<"a", "/", "b">>
slash_ab == <<"/">> \o ab
a_b == <<"a", "_", "b">>
c == <<"c">>

MCIds == {slash_ab, ab, a_b, c}
MCRuntime == (r :> MCIds) @@ (w :> {a_b})
MCLiterals == (r :> {slash_ab}) @@ (w :> {ab})

MCHash == (ab :> 12) @@ (a_b :> 7) @@ (c :> 10)
=============================================================================
