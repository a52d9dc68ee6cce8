----------------------------- MODULE RedisDict -----------------------------
(***************************************************************************)
(* The hash table of the redis-derived engine (storage/rdb/redis/dict.c):  *)
(* chaining, and growing or shrinking by moving one bucket at a time from  *)
(* the first table to a second one.  A table is the sequence of its chains *)
(* (index i of the code is element i + 1) with its count of entries; an    *)
(* entry is [k, ts, v], ts being the stamp that the key of a hash field    *)
(* carries.  Only rdb.c takes safe iterators, so iterators is always 0.    *)
(***************************************************************************)
EXTENDS Integers, Sequences, SequencesExt

CONSTANTS
  Hash,                   \* dictHashKey, a function of the keys
  DICT_HT_INITIAL_SIZE,
  REDIS_HT_MINFILL

LOCAL NoTable == [table |-> <<>>, used |-> 0]

dictCreate == [ht |-> <<NoTable, NoTable>>, rehashidx |-> -1]

dictIsRehashing(d) == d.rehashidx # -1

dictSize(d) == d.ht[1].used + d.ht[2].used

dictSlots(d) == Len(d.ht[1].table) + Len(d.ht[2].table)

\* The size of a table is a power of two, so the mask is a remainder.
Slot(t, k) == (Hash[k] % Len(t.table)) + 1

RECURSIVE dictNextPower(_, _)
dictNextPower(i, n) == IF i >= n THEN i ELSE dictNextPower(2 * i, n)

dictExpand(d, n) ==
  LET new == [table |-> [i \in 1..dictNextPower(DICT_HT_INITIAL_SIZE, n) |-> <<>>], used |-> 0]
  IN IF dictIsRehashing(d) \/ d.ht[1].used > n THEN d
     ELSE IF d.ht[1].table = <<>> THEN [d EXCEPT !.ht[1] = new]
     ELSE [d EXCEPT !.ht[2] = new, !.rehashidx = 0]

dictResize(d) ==
  IF dictIsRehashing(d) THEN d
  ELSE dictExpand(d, IF d.ht[1].used < DICT_HT_INITIAL_SIZE THEN DICT_HT_INITIAL_SIZE
                     ELSE d.ht[1].used)

htNeedsResize(d) ==
  /\ dictSize(d) > 0
  /\ dictSlots(d) > DICT_HT_INITIAL_SIZE
  /\ (dictSize(d) * 100) \div dictSlots(d) < REDIS_HT_MINFILL

\* The entry becomes the first of its chain.
Link(t, e) == [table |-> [t.table EXCEPT ![Slot(t, e.k)] = <<e>> \o @], used |-> t.used + 1]

RECURSIVE LinkAll(_, _)
LinkAll(t, chain) == IF chain = <<>> THEN t ELSE LinkAll(Link(t, Head(chain)), Tail(chain))

\* One turn of dictRehash: the next bucket that is not empty moves, or the
\* second table takes the place of the empty first one.
Rehash1(d) ==
  IF d.ht[1].used = 0 THEN [ht |-> <<d.ht[2], NoTable>>, rehashidx |-> -1]
  ELSE LET i == CHOOSE j \in d.rehashidx..(Len(d.ht[1].table) - 1) :
                  /\ d.ht[1].table[j + 1] # <<>>
                  /\ \A h \in d.rehashidx..(j - 1) : d.ht[1].table[h + 1] = <<>>
           chain == d.ht[1].table[i + 1]
       IN [ht |-> <<[table |-> [d.ht[1].table EXCEPT ![i + 1] = <<>>],
                     used |-> d.ht[1].used - Len(chain)],
                    LinkAll(d.ht[2], chain)>>,
           rehashidx |-> i + 1]

RECURSIVE dictRehash(_, _)
dictRehash(d, n) ==
  IF n = 0 \/ ~dictIsRehashing(d) THEN d ELSE dictRehash(Rehash1(d), n - 1)

\* A hundred buckets a turn: these tables are done in one.
dictRehashMilliseconds(d) == dictRehash(d, 100)

dictRehashStep(d) == dictRehash(d, 1)

dictExpandIfNeeded(d) ==
  IF dictIsRehashing(d) THEN d
  ELSE IF d.ht[1].table = <<>> THEN dictExpand(d, DICT_HT_INITIAL_SIZE)
  ELSE IF d.ht[1].used >= Len(d.ht[1].table) THEN dictExpand(d, d.ht[1].used * 2)
  ELSE d

LOCAL Place(t, k) ==
  IF t.table = <<>> THEN {}
  ELSE {i \in 1..Len(t.table[Slot(t, k)]) : t.table[Slot(t, k)][i].k = k}

\* Both tables are searched while a rehash goes on.
LOCAL Tables(d) == IF dictIsRehashing(d) THEN {1, 2} ELSE {1}

Holding(d, k) == {n \in Tables(d) : Place(d.ht[n], k) # {}}

\* The entry of k in the first table that has one.
EntryOf(d, k) ==
  LET n == Min(Holding(d, k)) IN d.ht[n].table[Slot(d.ht[n], k)][Min(Place(d.ht[n], k))]

\* A new entry goes to the second table while there is one.
dictAdd(d, e) ==
  LET d1 == dictExpandIfNeeded(dictRehashStep(d))
      n  == IF dictIsRehashing(d1) THEN 2 ELSE 1
  IN IF Holding(d1, e.k) # {} THEN [d |-> d1, ok |-> FALSE]
     ELSE [d |-> [d1 EXCEPT !.ht[n] = Link(@, e)], ok |-> TRUE]

\* The entry found, if any, in the table after its step of rehashing.
dictFind(d, k) ==
  LET d1 == dictRehashStep(d)
      S  == Holding(d1, k)
  IN IF d.ht[1].table = <<>> \/ S = {} THEN [d |-> d1, found |-> FALSE]
     ELSE [d |-> d1, found |-> TRUE, e |-> EntryOf(d1, k)]

\* The entry of a key that is present is overwritten where it is.
Overwrite(d, e) ==
  LET n == Min(Holding(d, e.k))
  IN [d EXCEPT !.ht[n].table[Slot(d.ht[n], e.k)][Min(Place(d.ht[n], e.k))] = e]

dictReplace(d, e) ==
  LET a == dictAdd(d, e)
  IN IF a.ok THEN a ELSE [d |-> Overwrite(dictFind(a.d, e.k).d, e), ok |-> FALSE]

dictGenericDelete(d, k) ==
  LET d1 == dictRehashStep(d)
      S  == Holding(d1, k)
      n  == Min(S)
  IN IF d.ht[1].table = <<>> \/ S = {} THEN [d |-> d1, ok |-> FALSE]
     ELSE [d |-> [d1 EXCEPT !.ht[n].used = @ - 1,
                            !.ht[n].table[Slot(d1.ht[n], k)] = RemoveAt(@, Min(Place(d1.ht[n], k)))],
           ok |-> TRUE]

\* A step of rehashing, and any entry of any chain that is not empty.
dictGetRandomKey(d) ==
  LET d1 == dictRehashStep(d)
  IN {[d |-> d1, e |-> e] : e \in ToSet(FlattenSeq(d1.ht[1].table \o d1.ht[2].table))}

\* dictNext until it ends: the chains of the one table, then of the other.
dictEntries(d) ==
  FlattenSeq(IF dictIsRehashing(d) THEN d.ht[1].table \o d.ht[2].table ELSE d.ht[1].table)

\* What every call leaves: counts that fit, each entry in the chain of its
\* hash, no key twice, a second table only while rehashing, and nothing left
\* behind the index that the rehash has come to.
DictSound(d) ==
  /\ \A n \in {1, 2} : d.ht[n].used = Len(FlattenSeq(d.ht[n].table))
  /\ \A n \in {1, 2} : \A s \in DOMAIN d.ht[n].table :
       \A i \in DOMAIN d.ht[n].table[s] : Slot(d.ht[n], d.ht[n].table[s][i].k) = s
  /\ IsInjective([i \in DOMAIN dictEntries(d) |-> dictEntries(d)[i].k])
  /\ dictIsRehashing(d) <=> d.ht[2].table # <<>>
  /\ \A s \in 1..d.rehashidx : s <= Len(d.ht[1].table) => d.ht[1].table[s] = <<>>

=============================================================================
