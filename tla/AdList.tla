------------------------------- MODULE AdList -------------------------------
(***************************************************************************)
(* The doubly linked list that a long list is kept in (storage/rdb/redis/  *)
(* adlist.c).  A node is a number, 0 is NULL; node maps each one in use to *)
(* its value and its neighbours.                                           *)
(***************************************************************************)
EXTENDS Integers, Sequences, SequencesExt

listCreate == [head |-> 0, tail |-> 0, len |-> 0, node |-> <<>>]

\* zmalloc: the lowest number that is free.
LOCAL Fresh(l) == CHOOSE n \in 1..(l.len + 1) : n \notin DOMAIN l.node /\ \A m \in 1..(n - 1) : m \in DOMAIN l.node

\* The nodes with n between p and q, either of which may be NULL.
LOCAL Linked(l, n, p, q, v) ==
  [m \in DOMAIN l.node \cup {n} |->
     IF m = n THEN [v |-> v, prev |-> p, next |-> q]
     ELSE [v    |-> l.node[m].v,
           next |-> IF m = p THEN n ELSE l.node[m].next,
           prev |-> IF m = q THEN n ELSE l.node[m].prev]]

listAddNodeHead(l, v) ==
  LET n == Fresh(l)
  IN [head |-> n, tail |-> IF l.len = 0 THEN n ELSE l.tail, len |-> l.len + 1,
      node |-> Linked(l, n, 0, IF l.len = 0 THEN 0 ELSE l.head, v)]

listAddNodeTail(l, v) ==
  LET n == Fresh(l)
  IN [head |-> IF l.len = 0 THEN n ELSE l.head, tail |-> n, len |-> l.len + 1,
      node |-> Linked(l, n, IF l.len = 0 THEN 0 ELSE l.tail, 0, v)]

listInsertNode(l, old, v, after) ==
  LET n == Fresh(l)
      p == IF after THEN old ELSE l.node[old].prev
      q == IF after THEN l.node[old].next ELSE old
  IN [head |-> IF ~after /\ l.head = old THEN n ELSE l.head,
      tail |-> IF after /\ l.tail = old THEN n ELSE l.tail,
      len  |-> l.len + 1,
      node |-> Linked(l, n, p, q, v)]

listDelNode(l, n) ==
  LET p == l.node[n].prev
      q == l.node[n].next
  IN [head |-> IF p = 0 THEN q ELSE l.head,
      tail |-> IF q = 0 THEN p ELSE l.tail,
      len  |-> l.len - 1,
      node |-> [m \in DOMAIN l.node \ {n} |->
                  [v    |-> l.node[m].v,
                   next |-> IF m = p THEN q ELSE l.node[m].next,
                   prev |-> IF m = q THEN p ELSE l.node[m].prev]]]

RECURSIVE Steps(_, _, _, _)
Steps(l, n, k, back) ==
  IF k = 0 \/ n = 0 THEN n
  ELSE Steps(l, IF back THEN l.node[n].prev ELSE l.node[n].next, k - 1, back)

listIndex(l, index) ==
  IF index < 0 THEN Steps(l, l.tail, -index - 1, TRUE) ELSE Steps(l, l.head, index, FALSE)

\* k values from node n on.
RECURSIVE ValuesFrom(_, _, _)
ValuesFrom(l, n, k) ==
  IF n = 0 \/ k = 0 THEN <<>> ELSE <<l.node[n].v>> \o ValuesFrom(l, l.node[n].next, k - 1)

\* What every call leaves: len nodes from head to tail, each the neighbour of
\* its neighbours.
AdListSound(l) ==
  /\ Cardinality(DOMAIN l.node) = l.len
  /\ Len(ValuesFrom(l, l.head, l.len + 1)) = l.len
  /\ l.tail = listIndex(l, l.len - 1)
  /\ l.head = IF l.len = 0 THEN 0 ELSE listIndex(l, -l.len)
  /\ \A n \in DOMAIN l.node :
       /\ l.node[n].next # 0 => l.node[l.node[n].next].prev = n
       /\ l.node[n].prev # 0 => l.node[l.node[n].prev].next = n

=============================================================================
