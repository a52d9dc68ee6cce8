---------------------------- MODULE MCMigration ----------------------------
(***************************************************************************)
(* Three keys in packets of two make a bucket of more than one packet; the *)
(* keys, and the values, may be exchanged.                                 *)
(***************************************************************************)
EXTENDS Migration, MCMigrate, TLC

Symmetries == Permutations(Key) \cup Permutations(Value)
=============================================================================
