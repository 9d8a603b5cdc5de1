--------------------------------- MODULE Ids ---------------------------------
(***************************************************************************)
(* How an id becomes the name of a segment: id.h, with the operations on    *)
(* compile-time strings of strval.h it uses.                                *)
(*                                                                         *)
(* There are two ways: id_prepare at compile time, for the literal ids of   *)
(* ipc_read and ipc_write, and id_rtid_prepare at run time.  A text is a    *)
(* sequence of characters.  The hash function is a parameter: what matters  *)
(* of FNV-1a here is which ids it tells apart and which it maps to 0.       *)
(***************************************************************************)
EXTENDS Integers, Sequences

CONSTANTS
  Prefix,   \* IPC_SHMEM_PREFIX
  Hash      \* hash_fnv1a_32, as a function on the ids without leading slashes

-----------------------------------------------------------------------------
(* strval.h                                                                 *)

\* strval::remove_leading<'/'>, and the loop at the start of id_rtid_prepare.
LeadingSlashes(id) ==
  CHOOSE n \in 0..Len(id) :
    /\ \A i \in 1..n : id[i] = "/"
    /\ n < Len(id) => id[n + 1] # "/"

RemoveLeading(id) == SubSeq(id, LeadingSlashes(id) + 1, Len(id))

\* strval::replace<'/', '_'>, and the loop at the end of id_rtid_prepare.
Replace(text) == [i \in DOMAIN text |-> IF text[i] = "/" THEN "_" ELSE text[i]]

\* to_strval<n>: it takes digits off n until nothing is left of it.
ToStrval[n \in Nat] ==
  LET Digit == <<"0", "1", "2", "3", "4", "5", "6", "7", "8", "9">>
  IN  IF n = 0 THEN <<>> ELSE Append(ToStrval[n \div 10], Digit[(n % 10) + 1])

\* std::to_string
StdToString(n) == IF n = 0 THEN <<"0">> ELSE ToStrval[n]

-----------------------------------------------------------------------------
(* id.h                                                                     *)

\* What an id is about: leading slashes make no difference.
Topic(id) == RemoveLeading(id)

\* Seeded fault: the id is hashed after its slashes have become underscores.
HashedNameLate(tp) ==
  Replace(Prefix \o <<"_">> \o tp \o <<"_">> \o StdToString(Hash[Replace(tp)]))

\* id_rtid_prepare, once the leading slashes are gone
HashedName(tp) ==
  Replace(Prefix \o <<"_">> \o tp \o <<"_">> \o StdToString(Hash[tp]))

\* id_rtid_prepare
RuntimeName(id) == HashedName(Topic(id))

\* id_prepare
LiteralName(id) ==
  Prefix \o <<"_">> \o Replace(Topic(id)) \o <<"_">> \o ToStrval[Hash[Topic(id)]]
=============================================================================
