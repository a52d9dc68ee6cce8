---------------------------- MODULE TairManager ----------------------------
(***************************************************************************)
(* The operations of the data server's tair_manager                        *)
(* (dataserver/tair_manager.cpp): what each one checks before it calls the *)
(* storage engine, which statistic it counts, and what it gives back.      *)
(*                                                                         *)
(* A call is a record m:                                                   *)
(*   working  status = STATUS_CAN_WORK                                     *)
(*   flag     key.server_flag: "client", "proxy", "duplicate", "migrate"   *)
(*   key      the size of the key, without its area                        *)
(*   val      the size of the value, or of the field                       *)
(*   values   how many values a push carries                               *)
(*   store    the codes that the engine gives to the calls made to it      *)
(*   addcount the value found carries TAIR_ITEM_FLAG_ADDCOUNT              *)
(*   native   the engine implements incdecr                                *)
(***************************************************************************)
EXTENDS Integers, Sequences

CONSTANTS
  KeyMax,      \* TAIR_MAX_KEY_SIZE
  DataMax      \* TAIR_MAX_DATA_SIZE

ASSUME SizeAssumption == KeyMax \in Nat /\ DataMax \in Nat /\ KeyMax > 3 /\ DataMax > 1

\* rc is the code returned.  stored is the size of the key the engine was
\* given, 0 if it was not called; care its version_care; stat the statistic.
Refuse(code) == [rc |-> code, stored |-> 0, care |-> FALSE, stat |-> "none"]

KeyFits(n) == n < KeyMax /\ n >= 1

DataFits(n) == n < DataMax /\ n >= 1

\* mkey.merge_area puts the area in front of the key.
merge_area(n) == n + 2

get_op_flag(flag) == flag \in {"client", "proxy"}

\* The call to the engine with the merged key.
Engine(m, care, stat) ==
  [rc |-> m.store[1], stored |-> merge_area(m.key), care |-> care, stat |-> stat]

STAT_KEY_VERIFY(m, result) ==
  IF ~m.working THEN Refuse("SERVER_CAN_NOT_WORK")
  ELSE IF ~KeyFits(m.key) THEN Refuse("ITEMSIZE_ERROR") ELSE result

Reads(m)   == STAT_KEY_VERIFY(m, Engine(m, FALSE, "get"))
Writes(m)  == STAT_KEY_VERIFY(m, Engine(m, get_op_flag(m.flag), "put"))
Removes(m) == STAT_KEY_VERIFY(m, Engine(m, get_op_flag(m.flag), "remove"))

\* The size check of the value or the field, which follows STAT_KEY_VERIFY.
Sized(m, result) ==
  STAT_KEY_VERIFY(m, IF DataFits(m.val) THEN result ELSE Refuse("ITEMSIZE_ERROR"))

-----------------------------------------------------------------------------
(* Keys and areas. *)

ttl(m)       == Reads(m)
type(m)      == Reads(m)
exists(m)    == Reads(m)
\* The three that set an expire pass no version.
expire(m)    == STAT_KEY_VERIFY(m, Engine(m, FALSE, "put"))
expireat(m)  == STAT_KEY_VERIFY(m, Engine(m, FALSE, "put"))
persist(m)   == STAT_KEY_VERIFY(m, Engine(m, FALSE, "put"))

\* The calls on an area check the status only and count nothing.
LOCAL OnArea(m, size) ==
  IF ~m.working THEN Refuse("SERVER_CAN_NOT_WORK")
  ELSE [rc |-> m.store[1], stored |-> size, care |-> FALSE, stat |-> "none"]

lazyclear(m) == OnArea(m, 0)
dumparea(m)  == OnArea(m, 0)
loadarea(m)  == OnArea(m, 0)
\* The filters get the key as it came, not the merged one.
addfilter(m)    == OnArea(m, m.key)
removefilter(m) == OnArea(m, m.key)

-----------------------------------------------------------------------------
(* Lists. *)

lindex(m) == Reads(m)
llen(m)   == Reads(m)
lrange(m) == Reads(m)

\* No value at all is a success without a call.  m.val stands for the sizes of
\* all the values: one that does not fit refuses the call.
lrpush(m) ==
  STAT_KEY_VERIFY(m, IF m.values = 0 THEN Refuse("SUCCESS")
                     ELSE IF ~DataFits(m.val) THEN Refuse("ITEMSIZE_ERROR")
                     ELSE Engine(m, get_op_flag(m.flag), "put"))

lrpop(m) == Removes(m)
ltrim(m) == Removes(m)
lrem(m)  == Sized(m, Removes(m))
lset(m)  == Sized(m, Writes(m))

-----------------------------------------------------------------------------
(* Hashes. *)

genericHgetall(m) == Reads(m)
hgetall(m) == genericHgetall(m)
hvals(m)   == genericHgetall(m)
hkeys(m)   == genericHgetall(m)
hlen(m)    == Reads(m)
hincrby(m) == Sized(m, Writes(m))
hmset(m)   == Sized(m, Writes(m))
hset(m)    == Sized(m, Writes(m))
hsetnx(m)  == Sized(m, Writes(m))
hexists(m) == Sized(m, Reads(m))
hget(m)    == Sized(m, Reads(m))
hmget(m)   == Sized(m, Reads(m))

\* The lower bound is tested on the key, not on the field.
hdel(m) ==
  STAT_KEY_VERIFY(m, IF m.val >= DataMax \/ m.key < 1 THEN Refuse("ITEMSIZE_ERROR")
                     ELSE Removes(m))

-----------------------------------------------------------------------------
(* Sets and sorted sets. *)

scard(m)    == Reads(m)
smembers(m) == Reads(m)
sadd(m)     == Sized(m, Writes(m))
srem(m)     == Sized(m, Removes(m))
spop(m)     == Removes(m)

zscore(m)           == Sized(m, Reads(m))
zrange(m)           == Reads(m)
zrevrange(m)        == Reads(m)
zrangebyscore(m)    == Reads(m)
zrevrangebyscore(m) == Reads(m)
zadd(m)             == Sized(m, Writes(m))
zrank(m)            == Reads(m)
zrevrank(m)         == Reads(m)
zcount(m)           == Reads(m)
zincrby(m)          == Sized(m, Writes(m))
zcard(m)            == Reads(m)
zrem(m)             == Sized(m, Removes(m))
zremrangebyrank(m)  == Removes(m)
zremrangebyscore(m) == Removes(m)

-----------------------------------------------------------------------------
(* Plain values.  Several of these do not look at the status.              *)

put(m) ==
  IF ~KeyFits(m.key) \/ ~DataFits(m.val) THEN Refuse("ITEMSIZE_ERROR")
  ELSE Engine(m, get_op_flag(m.flag), "put")

putnx(m) ==
  IF ~KeyFits(m.key) \/ ~DataFits(m.val) THEN Refuse("ITEMSIZE_ERROR")
  ELSE Engine(m, get_op_flag(m.flag), "put")

remove(m) ==
  IF ~KeyFits(m.key) THEN Refuse("ITEMSIZE_ERROR")
  ELSE Engine(m, get_op_flag(m.flag), "remove")

get(m)    == Reads(m)
getset(m) == Sized(m, Writes(m))

\* A record of a migration carries the key as stored, merged with its area,
\* and the size checked is that of the merged key.
direct_put(m) ==
  IF ~KeyFits(merge_area(m.key)) \/ ~DataFits(m.val) THEN Refuse("ITEMSIZE_ERROR")
  ELSE [rc |-> m.store[1], stored |-> merge_area(m.key), care |-> FALSE, stat |-> "put"]

direct_remove(m) ==
  IF ~KeyFits(merge_area(m.key)) THEN Refuse("ITEMSIZE_ERROR")
  ELSE [rc |-> IF m.store[1] = "DATA_NOT_EXIST" THEN "SUCCESS" ELSE m.store[1],
        stored |-> merge_area(m.key), care |-> FALSE, stat |-> "remove"]

\* An engine without incdecr: under the counter's mutex the old value is read
\* and the sum is put; m.store is then what the get and the put give.
add_count(m) ==
  LET put1 == put([m EXCEPT !.val = 1, !.store = Tail(@)]) IN
  STAT_KEY_VERIFY(m,
    IF m.native THEN Engine(m, get_op_flag(m.flag), "put")
    ELSE IF m.store[1] = "SUCCESS" /\ ~m.addcount THEN Refuse("CANNOT_OVERRIDE")
    ELSE put1)

\* A bucket that was migrated away is answered by its new master.
should_proxy(localmode, migrated, targetIsSelf) == ~localmode /\ migrated /\ ~targetIsSelf

=============================================================================
