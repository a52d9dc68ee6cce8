----------------------------- MODULE MCDupSync -----------------------------
(***************************************************************************)
(* Small instances of DupSync: two or three writes, two slaves, ids modulo *)
(* a number that no instance draws through twice.                          *)
(***************************************************************************)
EXTENDS DupSync, TLC

CONSTANTS p1, p2, h1, l1, b1, b2, s1, s2

MCBucketOf == [r \in Request |-> IF r \in {p1, l1} THEN b1 ELSE b2]
MCKind == [r \in Request |->
             IF r \in {p1, p2} THEN "put" ELSE
             IF r = h1 THEN "hset" ELSE "lrem"]

OneSlave == {<< s1 >>}
AnySlaves == {<< s1, s2 >>, << s1 >>, << >>}
=============================================================================
