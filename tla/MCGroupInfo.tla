---------------------------- MODULE MCGroupInfo ----------------------------
(***************************************************************************)
(* Small instances of GroupInfo: two servers and two buckets with one      *)
(* copy, or three servers and one bucket with two copies.                  *)
(***************************************************************************)
EXTENDS GroupInfo, TLC

ServerSymmetry == Permutations(Server)
BucketSymmetry == Permutations(Bucket)
Symmetry == ServerSymmetry \cup BucketSymmetry
=============================================================================
