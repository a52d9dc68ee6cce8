---------------------------- MODULE MCMemCache ----------------------------
(***************************************************************************)
(* Small caches: three keys in two areas, two of them in one hash chain,   *)
(* slabs of one or two items a page, and fewer pages than the keys need.   *)
(***************************************************************************)
EXTENDS MemCache

MCKey == {"a", "b", "c"}
MCAreaOf == [k \in MCKey |-> IF k = "c" THEN 1 ELSE 0]
MCHashOf == [k \in MCKey |-> IF k = "b" THEN 1 ELSE 0]
MCBucketOf == [k \in MCKey |-> IF k = "b" THEN 1 ELSE 0]
MCTwo == {0, 1}
MCSlab == 1..2
MCSlabSize == <<1, 2>>
MCPerSlab == <<2, 1>>

AnySize == [k \in MCKey |-> {1, 2}]
SmallSize == [k \in MCKey |-> {1}]
TwoSmall == [AnySize EXCEPT !["a"] = {1}, !["b"] = {1}]
OneEach == [AnySize EXCEPT !["a"] = {1}, !["b"] = {2}]

\* Pages taken away by the balance, from a slab of two items a page and from one
\* of one; a quota that changes and is enforced; scans
\* that give the lock back.
MCLoads ==
    {[pages |-> 3, sizes |-> TwoSmall, expires |-> {0}, cares |-> {TRUE}, quotas |-> {9}, evictions |-> {0, 4},
      jobs |-> {"balance"}, until |-> Epoch],
     [pages |-> 3, sizes |-> OneEach, expires |-> {0}, cares |-> {TRUE}, quotas |-> {9}, evictions |-> {0, 4},
      jobs |-> {"balance"}, until |-> Epoch],
     [pages |-> 3, sizes |-> AnySize, expires |-> {0}, cares |-> {TRUE}, quotas |-> {1, 9}, evictions |-> {0},
      jobs |-> {"quota"}, until |-> Epoch],
     [pages |-> 2, sizes |-> SmallSize, expires |-> {0, 1}, cares |-> {TRUE}, quotas |-> {9},
      evictions |-> {0}, jobs |-> {"clear", "expire", "close", "dump"}, until |-> Epoch + 1]}
=============================================================================
