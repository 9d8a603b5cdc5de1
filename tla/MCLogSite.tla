----------------------------- MODULE MCLogSite -----------------------------
(* Two threads, and every LOG_LEVEL of up to two entries (levels, numbers,     *)
(* pairs with and without stars, something that is neither, and nothing) or  *)
(* of three of some of them.                                                *)
EXTENDS LogSite, SequencesExt

MCCategories == {<<"error", "a">>, <<"c", "a", "a", "c">>}

Patterns == {<<"a">>, <<"a", "*", "c">>, <<"c", "*">>, <<"error", "a">>, <<"1", "a">>}
Pairs == {p \o <<":", v>> : p \in Patterns, v \in {"debug", "1", "0"}}
Entries == Pairs \cup {<<"error">>, <<"1">>, <<"0">>, <<"a">>, <<>>}

\* The entries, with commas between them.
Joined(entries) ==
  FlattenSeq([k \in DOMAIN entries |-> IF k = 1 THEN entries[k] ELSE <<",">> \o entries[k]])

Some == {<<"error">>, <<"a", ":", "debug">>, <<"c", "*", ":", "1">>,
         <<"a", "*", "a", "*", "c", ":", "0">>, <<>>}

MCEnvs == {Joined(entries) : entries \in SeqOf(Entries, 2) \cup SeqOf(Some, 3)}

\* Pairs alone, for debug, with keys that begin with no digit.
DebugPairs == {p \in Pairs : p[1] # "1" /\ Last(p) = "debug"}
PairEnvs == {Joined(entries) : entries \in SeqOf(DebugPairs, 2)}
=============================================================================
