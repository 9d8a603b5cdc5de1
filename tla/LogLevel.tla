------------------------------ MODULE LogLevel ------------------------------
(***************************************************************************)
(* log_level(): the level LOG_LEVEL gives to a category (log.cpp).          *)
(*                                                                         *)
(* A text is a sequence of tokens: the names of the levels, and single      *)
(* characters.  A name is one token wherever it stands, in a pattern and in *)
(* a category too: what cuts through a name is left out.  Numbers have one  *)
(* digit, and nothing that strtol skips stands before one.  A position one  *)
(* beyond the text stands for NULL, and the empty text for a LOG_LEVEL that *)
(* is not set.                                                              *)
(***************************************************************************)
EXTENDS Integers, Sequences

CONSTANTS
  Envs,       \* values of LOG_LEVEL
  Categories  \* names of categories: never empty, by log_cat_log

ASSUME TextsAssumption ==
  /\ Envs \subseteq Seq(STRING)
  /\ Categories \subseteq Seq(STRING)

VARIABLES
  env,
  cat,
  phase,      \* where log_level() is: "off", "entries", "glob", "value", "done"
  e,          \* the loop over entries
  pat_start,  \* log_glob_match: the piece of the pattern to look for,
  str_index,  \* where in cat to look for it,
  ret,        \* and whether all pieces so far were found
  ref_lvl

parse == <<phase, e, pat_start, str_index, ret, ref_lvl>>

\* What separates entries.
comma == ","

LevelNames == <<"fatal", "error", "alarm", "warning", "info", "debug", "trace">>
Digits == <<"0", "1", "2", "3", "4", "5", "6", "7", "8", "9">>

invalid == 1000
log_level_default == 4

Start ==
  /\ phase = "off"
  /\ e = 1
  /\ pat_start = 1
  /\ str_index = 1
  /\ ret = TRUE
  /\ ref_lvl = invalid

-----------------------------------------------------------------------------
(* The C library on texts                                                   *)

IndexIn(tok, table) == (CHOOSE i \in DOMAIN table : table[i] = tok) - 1
IsIn(tok, table) == \E i \in DOMAIN table : table[i] = tok

Least(S) == CHOOSE k \in S : \A j \in S : k <= j

NULL == Len(env) + 1

strchr(from, tok) ==
  LET At == {k \in from..Len(env) : env[k] = tok}
  IN  IF At = {} THEN NULL ELSE Least(At)

\* text[1] = '\0': it consists of one character.
OneCharacter(from) == from = Len(env) /\ ~IsIn(env[from], LevelNames)

-----------------------------------------------------------------------------
\* A name counts when the text begins with it, a number other than 0 likewise;
\* "0", which strtol does not tell from no number, when nothing follows.
log_level_from_string(from) ==
  IF IsIn(env[from], LevelNames) THEN IndexIn(env[from], LevelNames)
  ELSE IF /\ IsIn(env[from], Digits)
          /\ env[from] = "0" => from = Len(env)
       THEN IndexIn(env[from], Digits) ELSE invalid

\* Where the entry at e begins: e is on the comma before it, but for the first.
EntryStart == IF env[e] = comma THEN e + 1 ELSE e

IsKeyed(from) ==
  /\ strchr(from, ":") < Len(env)
  /\ strchr(from, comma) > strchr(from, ":")

\* Seeded fault: an entry for another category undoes the level before it.
FallbackAlways(from) == log_level_from_string(from)

\* An entry that is not for this category is read as a level for all, unless
\* there is one.
Fallback(from) ==
  IF ref_lvl = invalid THEN log_level_from_string(from) ELSE ref_lvl

\* The loop over the entries goes on.
MoreEntries == e # NULL /\ ~OneCharacter(e)

ReadEntry ==
  /\ phase = "entries"
  /\ MoreEntries
  /\ IF IsKeyed(EntryStart)
     THEN /\ phase' = "glob"
          /\ e' = EntryStart
          /\ pat_start' = EntryStart
          /\ str_index' = 1
          /\ ret' = TRUE
          /\ UNCHANGED ref_lvl
     ELSE /\ e' = strchr(EntryStart + 1, comma)
          /\ ref_lvl' = Fallback(EntryStart)
          /\ UNCHANGED <<phase, pat_start, str_index, ret>>
  /\ UNCHANGED <<env, cat>>

(* One round of log_glob_match: the first place, from str_index on, where   *)
(* the piece of the pattern up to the next star is found.  When it is not,  *)
(* the code moves str_index on all the same, perhaps past the end of cat:   *)
(* what it reads there no longer matters, ret stays false.                  *)
Colon == strchr(e, ":")
PatEnd(from) == IF strchr(from, "*") > Colon THEN Colon ELSE strchr(from, "*")
Size(from) == PatEnd(from) - from

FoundAt(from, s) ==
  /\ s + Size(from) <= Len(cat) + 1
  /\ \A k \in 1..Size(from) : cat[s + k - 1] = env[from + k - 1]

\* Seeded fault: the next piece is looked for one character late.
SearchFromLate == (str_index + 1)..Len(cat)

SearchFrom == str_index..Len(cat)

\* Seeded fault: the star is not stepped over.
NextPieceAtStar(from) == PatEnd(from)

NextPiece(from) == PatEnd(from) + 1

MatchPiece ==
  LET Found == {s \in SearchFrom : FoundAt(pat_start, s)} IN
  /\ phase = "glob"
  /\ ret' = (ret /\ Found # {})
  /\ str_index' = (IF Found # {} THEN Least(Found) ELSE str_index) + Size(pat_start)
  /\ pat_start' = NextPiece(pat_start)
  /\ phase' = IF env[PatEnd(pat_start)] = "*" THEN "glob" ELSE "value"
  /\ UNCHANGED <<env, cat, e, ref_lvl>>

ReadValue ==
  /\ phase = "value"
  /\ ref_lvl' = IF ret THEN log_level_from_string(Colon + 1) ELSE Fallback(e)
  /\ e' = strchr(e + 1, comma)
  /\ phase' = "entries"
  /\ UNCHANGED <<env, cat, pat_start, str_index, ret>>

Finish ==
  /\ phase = "entries"
  /\ ~MoreEntries
  /\ ref_lvl' = IF ref_lvl = invalid THEN log_level_default ELSE ref_lvl
  /\ phase' = "done"
  /\ UNCHANGED <<env, cat, e, pat_start, str_index, ret>>

ParseStep == ReadEntry \/ MatchPiece \/ ReadValue \/ Finish

-----------------------------------------------------------------------------
(* What log.h says of LOG_LEVEL: a level for everything first, then pairs   *)
(* of a category and its level.                                             *)

Starts == {1} \cup {k + 1 : k \in {k \in 1..Len(env) : env[k] = comma}}
EndOf(from) == strchr(from, comma) - 1
ColonOf(from) == strchr(from, ":")

IsLevel(k) == IsIn(env[k], LevelNames) \/ IsIn(env[k], Digits)
Meaning(k) == IF IsIn(env[k], LevelNames) THEN IndexIn(env[k], LevelNames)
              ELSE IndexIn(env[k], Digits)

IsPair(from) == ColonOf(from) <= EndOf(from)

\* Any name will do for a category, also one that begins like a level.
DocumentedPair(from) ==
  /\ ColonOf(from) = EndOf(from) - 1
  /\ ColonOf(from) > from
  /\ IsLevel(EndOf(from))

DocumentedLevel(from) == from = EndOf(from) /\ IsLevel(from)

Documented ==
  /\ env # <<>>
  /\ \A from \in Starts : DocumentedPair(from) \/ (from = 1 /\ DocumentedLevel(1))

\* The pieces of the pattern from..(to - 1) can be laid out in cat, in order.
PieceStarts(from, to) == {from} \cup {k + 1 : k \in {k \in from..(to - 1) : env[k] = "*"}}
PieceSize(from, to) == (IF strchr(from, "*") > to THEN to ELSE strchr(from, "*")) - from

IsLayout(f, from, to) ==
  /\ \A p \in PieceStarts(from, to) :
       \A k \in 1..PieceSize(p, to) :
         /\ f[p] + k - 1 <= Len(cat)
         /\ cat[f[p] + k - 1] = env[p + k - 1]
  /\ \A p, q \in PieceStarts(from, to) : p < q => f[p] + PieceSize(p, to) <= f[q]

HasLayout(from, to) ==
  \E f \in [PieceStarts(from, to) -> 1..Len(cat)] : IsLayout(f, from, to)

\* The entries that concern cat: the last of them decides.
Applies(from) ==
  \/ IsPair(from) /\ HasLayout(from, ColonOf(from))
  \/ from = 1 /\ DocumentedLevel(1)

Applying == {from \in Starts : Applies(from)}
Deciding == CHOOSE from \in Applying : \A other \in Applying : other <= from

DocumentedResult ==
  IF Applying = {} THEN log_level_default ELSE Meaning(EndOf(Deciding))

\* What log_level() gets wrong: a LOG_LEVEL of one character, a 0 that decides
\* and does not stand at the end, and, where no entry concerns the category, the
\* name of another one that begins like a level.
Misread ==
  \/ OneCharacter(1)
  \/ /\ Applying # {}
     /\ env[EndOf(Deciding)] = "0"
     /\ EndOf(Deciding) # Len(env)
  \/ /\ Applying = {}
     /\ \E from \in Starts : IsLevel(from) /\ env[from] # "0"

(* The glob loop takes the first place for every piece and never goes back: *)
(* it finds a match whenever the pieces can be laid out in the category in  *)
(* order at all, and only then.                                             *)
GlobIsLayout == phase = "value" => ret = HasLayout(e, Colon)

(* However entries for categories, stars and a level for everything are     *)
(* combined, the result is what log.h:50-59 describes, in all but the three *)
(* cases of Misread.                                                        *)
ReadAsDocumented ==
  phase = "done" /\ Documented /\ ~Misread => ref_lvl = DocumentedResult

(* An entry that concerns the category decides, whether its level is a name *)
(* or a number: log.h:56 gives LOG_LEVEL=1 as an example, and log.cpp:40    *)
(* says integers are accepted.                                              *)
IntegersAccepted ==
  phase = "done" /\ Documented /\ Applying # {} => ref_lvl = DocumentedResult

(* An entry for one category leaves the others alone: with "key-values of   *)
(* categories" (log.h:52) that concern somebody else, and no "global /      *)
(* fallback level" before them, the default level stays.                    *)
OthersLeftAlone ==
  phase = "done" /\ Documented /\ Applying = {} => ref_lvl = log_level_default

=============================================================================
