------------------------------ MODULE RedisDb ------------------------------
(***************************************************************************)
(* One database of the redis-derived storage engine ("rdb" engine, one     *)
(* redisDb per unit of an area), as the commands see it: the key space     *)
(* with versions and logic clocks, the expire dictionary, lazy flushing,   *)
(* the filter list and the type-agnostic commands (storage/rdb/redis/db.c, *)
(* filter_list.c).  Every command is an operator from a database record    *)
(* and the call's arguments to a reply record that holds the new database. *)
(*                                                                         *)
(*   d.dict      key -> [type, val, ver, clk]: the value, the key's        *)
(*               version (uint16) and the logic clock it was stored under  *)
(*   d.expires   key -> absolute expire time                               *)
(*   d.logiclock the clock lazyflushdb advances: a key with a smaller clk  *)
(*               is flushed (stale) though still stored                    *)
(*   d.need      need_remove_key, the number of stale keys to remove       *)
(*   d.filter    the filter list, head first: [type, pat, ts]              *)
(*   d.now       time(NULL)                                                *)
(*   d.tight     whether the unit may be found over its maxmemory          *)
(*                                                                         *)
(* A call's arguments: a.key, a.ver (the version in argv[1]), a.care       *)
(* (version_care), a.exp (expiretime: positive = absolute time, 0 = remove *)
(* the expire, negative = leave it).                                       *)
(***************************************************************************)
EXTENDS Integers, Sequences, FiniteSets, TLC, SequencesExt

CONSTANT
  VersionMod    \* versions are uint16 counters: arithmetic modulo 2^16 in the code

Without(f, k) == [x \in DOMAIN f \ {k} |-> f[x]]

\* The function with v at k.
With(f, k, v) == [x \in DOMAIN f \cup {k} |-> IF x = k THEN v ELSE f[x]]

Has(d, k) == k \in DOMAIN d.dict

\* A key that lazyflushdb has flushed but nobody has removed yet.
Stale(d, k) == Has(d, k) /\ d.logiclock > d.dict[k].clk

\* A key whose expire time has passed.
Expired(d, k) == k \in DOMAIN d.expires /\ d.now > d.expires[k]

\* initServer: an empty database, logic clock 1.
initDb == [dict |-> <<>>, expires |-> <<>>, logiclock |-> 1, need |-> 0,
           filter |-> <<>>, now |-> 1, tight |-> FALSE]

-----------------------------------------------------------------------------
(* The key space. *)

dbAdd(d, a, type, val, ver) ==
  [d EXCEPT !.dict = With(@, a.key, [type |-> type, val |-> val, ver |-> ver,
                                     clk |-> d.logiclock])]

dbUpdateKey(d, k, ver) ==
  IF Has(d, k) THEN [d EXCEPT !.dict[k].ver = ver] ELSE d

dbSuperReplace(d, a, type, val, ver) ==
  IF Has(d, a.key)
  THEN [d EXCEPT !.dict[a.key].val = val, !.dict[a.key].ver = ver]
  ELSE dbAdd(d, a, type, val, ver)

dbDelete_keepsExpire(d, k) == [d EXCEPT !.dict = Without(@, k)]

dbDelete(d, k) ==
  [d EXCEPT !.dict = Without(@, k), !.expires = Without(@, k)]

setXExpire(d, k, when) ==
  IF Has(d, k) THEN [d EXCEPT !.expires = With(@, k, when)] ELSE d

removeXExpire(d, k) ==
  IF Has(d, k) THEN [d EXCEPT !.expires = Without(@, k)] ELSE d

EXPIRE_OR_NOT(d, a) ==
  IF a.exp > 0 THEN setXExpire(d, a.key, a.exp)
  ELSE IF a.exp = 0 THEN removeXExpire(d, a.key) ELSE d

expireIfNeeded_flushOnly(d, k) ==
  IF Stale(d, k) THEN [dbDelete(d, k) EXCEPT !.need = @ - 1] ELSE d

expireIfNeeded(d, k) ==
  IF Stale(d, k) THEN [dbDelete(d, k) EXCEPT !.need = @ - 1]
  ELSE IF Has(d, k) /\ Expired(d, k) THEN dbDelete(d, k)
  ELSE d

-----------------------------------------------------------------------------
(* Replies.  ver is the client's c->version, the stored version the lookup *)
(* saw, ret the number in retvalue (0 where the command sets none) and val *)
(* the list of values in return_value.                                     *)

Answer(d, code, ver, ret, val) ==
  [db |-> d, code |-> code, ver |-> ver, ret |-> ret, val |-> val]

KeyVersion(d, k) == IF Has(d, k) THEN d.dict[k].ver ELSE 0

Reply(d, a, code) == Answer(d, code, KeyVersion(d, a.key), 0, <<>>)

Number(d, a, n) == Answer(d, "OK", KeyVersion(d, a.key), n, <<>>)

Values(d, a, v) == Answer(d, "OK", KeyVersion(d, a.key), 0, v)

VersionRefused(d, a) ==
  Has(d, a.key) /\ a.care /\ a.ver # 0 /\ a.ver # d.dict[a.key].ver

\* VERSION_OP: the version argv[1] carries once the check has passed.
NextVersion(d, a) ==
  (KeyVersion(d, a.key) + (IF a.care THEN 1 ELSE 0)) % VersionMod

\* lookupKeyReadWithVersion and checkType, as every reading command starts.
Reading(d0, a, type, F(_, _)) ==
  LET d == expireIfNeeded(d0, a.key) IN
  IF ~Has(d, a.key) THEN Reply(d, a, "NOT_EXIST")
  ELSE IF d.dict[a.key].type # type THEN Reply(d, a, "WRONG_TYPE")
  ELSE F(d, d.dict[a.key].val)

\* lookupKeyWriteWithVersion, checkType and the version check of a command
\* that writes an existing key.
Writing(d0, a, type, F(_, _)) ==
  Reading(d0, a, type,
          LAMBDA d, v : IF VersionRefused(d, a)
                        THEN Reply(d, a, "VERSION_ERROR") ELSE F(d, v))

Commit_sameVersion(d, a, v) == EXPIRE_OR_NOT([d EXCEPT !.dict[a.key].val = v], a)

\* The value is stored under the next version and the expire is refreshed.
Commit(d, a, v) ==
  EXPIRE_OR_NOT(dbUpdateKey([d EXCEPT !.dict[a.key].val = v],
                            a.key, NextVersion(d, a)), a)

CommitOrDelete_keeps(d, a, v, empty) == Commit(d, a, v)

\* The same, where a collection that has become empty is deleted instead.
CommitOrDelete(d, a, v, empty) ==
  IF empty THEN dbDelete(d, a.key) ELSE Commit(d, a, v)

\* Negative indexes count from the end; the result is the 1-based range, or
\* the empty range <<1, 0>>.
IndexRange(start, end, len) ==
  LET s == IF start < 0 THEN (IF len + start < 0 THEN 0 ELSE len + start) ELSE start
      e == IF end < 0 THEN len + end ELSE end
  IN IF s > e \/ s >= len THEN <<1, 0>>
     ELSE <<s + 1, (IF e >= len THEN len - 1 ELSE e) + 1>>

-----------------------------------------------------------------------------
(* Type-agnostic commands. *)

\* Neither a stale nor an expired key is treated as absent, and
\* need_remove_key is left alone.
delCommand(d, a) ==
  IF Has(d, a.key) THEN Answer(dbDelete(d, a.key), "OK", 0, 1, <<>>)
  ELSE Answer(d, "NOT_EXIST", 0, 0, <<>>)

existsCommand(d0, a) ==
  LET d == expireIfNeeded(d0, a.key)
  IN Answer(d, IF Has(d, a.key) THEN "OK" ELSE "NOT_EXIST", 0, 0, <<>>)

typeCommand(d0, a) ==
  LET d == expireIfNeeded(d0, a.key)
  IN IF Has(d, a.key) THEN Values(d, a, <<d.dict[a.key].type>>)
     ELSE Reply(d, a, "NOT_EXIST")

\* Seconds up to the present time are a duration, larger ones a date; 0
\* removes the expire, a negative number does nothing.  A stale or expired
\* key is treated as present.
expireXGenericCommand(d, a, seconds) ==
  IF ~Has(d, a.key) THEN Answer(d, "NOT_EXIST", 0, 0, <<>>)
  ELSE Answer(IF seconds > 0
              THEN setXExpire(d, a.key, IF seconds <= d.now THEN d.now + seconds
                                        ELSE seconds)
              ELSE IF seconds = 0 THEN removeXExpire(d, a.key) ELSE d,
              "OK", 0, 0, <<>>)

ttlCommand(d, a) ==
  IF a.key \in DOMAIN d.expires
  THEN Answer(d, "OK", 0, IF d.expires[a.key] < d.now THEN 0
                          ELSE d.expires[a.key] - d.now, <<>>)
  ELSE Answer(d, IF Has(d, a.key) THEN "OK" ELSE "NOT_EXIST", 0, 0, <<>>)

persistCommand(d, a) ==
  IF Has(d, a.key) THEN Answer(removeXExpire(d, a.key), "OK", 0, 0, <<>>)
  ELSE Answer(d, "NOT_EXIST", 0, 0, <<>>)

lazyflushdb_countsExpires(d) ==
  [d EXCEPT !.logiclock = @ + 1, !.need = Cardinality(DOMAIN d.expires)]

\* session.lazyflushdb: every key now stored is flushed by advancing the
\* clock, and counted for removal.
lazyflushdb(d) ==
  [d EXCEPT !.logiclock = @ + 1, !.need = Cardinality(DOMAIN d.dict)]

-----------------------------------------------------------------------------
(* The filter list. *)

FilterAt(d, type, pat) ==
  {i \in 1..Len(d.filter) : d.filter[i].type = type /\ d.filter[i].pat = pat}

add_filter_node(d, type, pat) ==
  IF FilterAt(d, type, pat) = {}
  THEN [d EXCEPT !.filter = <<[type |-> type, pat |-> pat, ts |-> d.now]>> \o @]
  ELSE [d EXCEPT !.filter[CHOOSE i \in FilterAt(d, type, pat) : TRUE].ts = d.now]

\* last starts at the head, so unlinking the second node moves the head past
\* both of the first two.
remove_filter_node(d, type, pat) ==
  IF FilterAt(d, type, pat) = {} THEN d
  ELSE LET i == CHOOSE j \in FilterAt(d, type, pat) : TRUE
       IN [d EXCEPT !.filter = IF i <= 2 THEN SubSeq(@, i + 1, Len(@))
                               ELSE SubSeq(@, 1, i - 1) \o SubSeq(@, i + 1, Len(@))]

search_filter_node(d, type, pat) ==
  IF FilterAt(d, type, pat) = {} THEN 0
  ELSE d.filter[CHOOSE i \in FilterAt(d, type, pat) : TRUE].ts

\* next_filter_node only advances past nodes of the wanted type: the field
\* nodes it returns are those before the first node of another type, on
\* which it loops for ever.
FieldFilters(d) ==
  LET other == {i \in 1..Len(d.filter) : d.filter[i].type # "field"}
  IN IF other = {} THEN d.filter
     ELSE SubSeq(d.filter, 1, (CHOOSE i \in other : \A j \in other : i <= j) - 1)

FilterLoops(d) == \E i \in 1..Len(d.filter) : d.filter[i].type # "field"

=============================================================================
