----------------------------- MODULE ClientApi -----------------------------
(***************************************************************************)
(* The calls of the C++ client (client/tair_client_api_impl.cpp): which    *)
(* arguments each one refuses, and what it makes of the answer.            *)
(*                                                                         *)
(* The arguments are a record a:                                           *)
(*   key, val, values  sizes of the key and of a value, number of values   *)
(*   area     0 <= area < TAIR_MAX_AREA_COUNT                              *)
(*   signed   the version or the expire passed is negative                 *)
(*   keys     how many keys;  lazy  remove_area's flag                     *)
(* and p is the answer received, NoReply if the wait timed out.            *)
(***************************************************************************)
EXTENDS RequestProcessor

NoReply == Reply("no reply", "none", 0)

\* check is the code of the argument checks.  ret is the code returned, crash
\* a failed assert or a null pointer used, learns that new_config_version is
\* taken from the answer, alarm that send_fail_count is set to the value at
\* which the table is asked for again.
Outcome(ret, learns, alarm) ==
  [check |-> "SUCCESS", ret |-> ret, crash |-> FALSE, learns |-> learns, alarm |-> alarm]

Crash == [Outcome("none", FALSE, FALSE) EXCEPT !.crash = TRUE]

NotWorking(code) == code = "SERVER_CAN_NOT_WORK"

key_entry_check_atMost(n) == n # 0 /\ n <= KeyMax

key_entry_check(n) == n # 0 /\ n < KeyMax

data_entry_check(n) == n # 0 /\ n < DataMax

\* The two orders in which a call checks its arguments.
SizeThenArea(a, sized, out) ==
  [out EXCEPT !.check = IF ~sized THEN "ITEMSIZE_ERROR"
                        ELSE IF ~a.area THEN "INVALID_ARGUMENT" ELSE "SUCCESS"]

AreaThenSize(a, sized, out) ==
  [out EXCEPT !.check = IF ~a.area THEN "INVALID_ARGUMENT"
                        ELSE IF ~sized THEN "ITEMSIZE_ERROR" ELSE "SUCCESS"]

\* get_response gives TIMEOUT for a wait object that has no packet.
get_response(p, out) == IF p = NoReply THEN Outcome("TIMEOUT", FALSE, FALSE) ELSE out

\* The older calls: the failure path takes the version of the class it expected,
\* through a pointer that is null when a response_return came instead.
OldStyle(p, class) ==
  get_response(p,
    IF p.class = class
    THEN Outcome(p.code, p.code = "SUCCESS" \/ NotWorking(p.code), NotWorking(p.code))
    ELSE IF p.class = "return"
    THEN IF NotWorking(p.code) THEN Crash ELSE Outcome(p.code, FALSE, FALSE)
    ELSE Outcome("SUCCESS", FALSE, FALSE))

\* The newer calls read a response_return for what it is.
NewStyle(p, classes) ==
  get_response(p,
    IF p.class \in classes THEN Outcome(p.code, TRUE, NotWorking(p.code))
    ELSE IF p.class = "return"
    THEN Outcome(p.code, NotWorking(p.code), NotWorking(p.code))
    ELSE Outcome("SUCCESS", FALSE, FALSE))

-----------------------------------------------------------------------------
(* Plain values. *)

api_put(a, p) ==
  SizeThenArea([a EXCEPT !.area = @ /\ ~a.signed],
    key_entry_check(a.key) /\ data_entry_check(a.val) /\ a.key + a.val <= DataMax + KeyMax,
    get_response(p,
      IF p.class # "return" THEN Outcome("SUCCESS", FALSE, FALSE)
      ELSE Outcome(p.code, TRUE, p.code \in {"SERVER_CAN_NOT_WORK", "WRITE_NOT_ON_MASTER"})))

\* The next server of the list is tried only when one gives no answer.
api_get(a, p) == SizeThenArea(a, key_entry_check(a.key), OldStyle(p, "get"))

\* No answer at all is a count of 0, which is the code of a success.  A server
\* that found none of several keys leaves key_data_map null.
api_mget(a, p) ==
  AreaThenSize(a, key_entry_check(a.key),
    IF p = NoReply THEN Outcome("SUCCESS", FALSE, FALSE)
    ELSE IF p.class # "get" THEN Outcome("PARTIAL_SUCCESS", FALSE, FALSE)
    ELSE IF p.code \notin {"SUCCESS", "PARTIAL_SUCCESS"}
    THEN Outcome("PARTIAL_SUCCESS", FALSE, FALSE)
    ELSE IF p.val = 0 THEN Crash
    ELSE Outcome(IF a.keys > p.val THEN "PARTIAL_SUCCESS" ELSE "SUCCESS", TRUE, FALSE))

api_remove(a, p) ==
  AreaThenSize(a, key_entry_check(a.key),
    get_response(p,
      IF p.class # "return" THEN Outcome("SUCCESS", FALSE, FALSE)
      ELSE Outcome(p.code, TRUE, NotWorking(p.code))))

\* Servers that answered a success are counted against keys; no answer at all
\* is again a count of 0.
api_mdelete(a, p) ==
  LET counted == IF p.class = "return" /\ p.code = "SUCCESS" THEN 1 ELSE 0 IN
  AreaThenSize(a, key_entry_check(a.key),
    IF p = NoReply THEN Outcome("SUCCESS", FALSE, FALSE)
    ELSE Outcome(IF a.keys # counted THEN "PARTIAL_SUCCESS" ELSE p.code,
                 TRUE, NotWorking(p.code)))

api_add_count(a, p) ==
  AreaThenSize([a EXCEPT !.area = @ /\ ~a.signed], key_entry_check(a.key),
    get_response(p,
      IF p.class = "inc_dec" THEN Outcome("SUCCESS", TRUE, FALSE)
      ELSE IF p.class = "return" THEN Outcome(p.code, TRUE, NotWorking(p.code))
      ELSE Outcome("SUCCESS", FALSE, FALSE)))

-----------------------------------------------------------------------------
(* Lists. *)

\* Another class than the one expected leaves ret at the 0 of get_response.
api_lrpush(a, p) ==
  SizeThenArea([a EXCEPT !.area = @ /\ ~a.signed],
    /\ key_entry_check(a.key)
    /\ a.values > 0 => data_entry_check(a.val)
    /\ a.key + a.values * a.val <= DataMax + KeyMax,
    get_response(p,
      IF p.class # "lrpush" THEN Outcome("SUCCESS", FALSE, FALSE)
      ELSE Outcome(p.code, TRUE, p.code \in {"SERVER_CAN_NOT_WORK", "WRITE_NOT_ON_MASTER"})))

api_lrpop(a, p)  == SizeThenArea(a, key_entry_check(a.key), OldStyle(p, "lrpop"))
api_lindex(a, p) == SizeThenArea(a, key_entry_check(a.key), OldStyle(p, "lindex"))
api_lrange(a, p) == SizeThenArea(a, key_entry_check(a.key), OldStyle(p, "lrange"))
\* The size of the value is not checked.
api_lset(a, p)   == AreaThenSize(a, key_entry_check(a.key), OldStyle(p, "lset"))
api_llen(a, p)   == AreaThenSize(a, key_entry_check(a.key), OldStyle(p, "llen"))
api_ltrim(a, p)  == AreaThenSize(a, key_entry_check(a.key), OldStyle(p, "ltrim"))

-----------------------------------------------------------------------------
(* Hashes, sets and sorted sets. *)

LOCAL Both(a) == key_entry_check(a.key) /\ data_entry_check(a.val)

api_hset(a, p)    == SizeThenArea(a, Both(a), NewStyle(p, {"hset"}))
api_hget(a, p)    == SizeThenArea(a, Both(a), NewStyle(p, {"hget"}))
api_hmset(a, p)   == SizeThenArea(a, Both(a), NewStyle(p, {"hmset"}))
api_hgetall(a, p) == SizeThenArea(a, key_entry_check(a.key), NewStyle(p, {"hgetall"}))
api_hmget(a, p)   == SizeThenArea(a, Both(a), NewStyle(p, {"hmget"}))
api_hdel(a, p)    == AreaThenSize(a, Both(a), NewStyle(p, {"hdel"}))

api_sadd(a, p)     == SizeThenArea(a, Both(a), NewStyle(p, {"sadd"}))
api_smembers(a, p) == SizeThenArea(a, key_entry_check(a.key), NewStyle(p, {"smembers"}))
\* The size of the member is not checked.
api_srem(a, p)     == SizeThenArea(a, key_entry_check(a.key), NewStyle(p, {"srem"}))

api_zadd(a, p)   == AreaThenSize(a, Both(a), NewStyle(p, {"zadd"}))
api_zcard(a, p)  == AreaThenSize(a, key_entry_check(a.key), NewStyle(p, {"zcard"}))
api_zrem(a, p)   == AreaThenSize(a, Both(a), NewStyle(p, {"zrem"}))
api_zrange(a, p) == AreaThenSize(a, key_entry_check(a.key),
                                 NewStyle(p, {"zrange", "zrangewithscore"}))
api_zrangebyscore(a, p) ==
  AreaThenSize(a, key_entry_check(a.key), NewStyle(p, {"generic_zrangebyscore"}))
api_zremrangebyscore(a, p) ==
  AreaThenSize(a, key_entry_check(a.key), NewStyle(p, {"zremrangebyscore"}))
api_zremrangebyrank(a, p) ==
  AreaThenSize(a, key_entry_check(a.key), NewStyle(p, {"zremrangebyrank"}))

-----------------------------------------------------------------------------
(* Calls to every server of the table.  The answer is not looked into. *)

api_remove_area(a, p) ==
  AreaThenSize(a, TRUE, get_response(p, Outcome("SUCCESS", FALSE, FALSE)))

api_dump_area(a, p) == get_response(p, Outcome("SUCCESS", FALSE, FALSE))

\* Here a count of 0 is a failure.
api_op_cmd_to_ds(a, p) ==
  IF p = NoReply THEN Outcome("FAILED", FALSE, FALSE)
  ELSE Outcome(IF p.code = "SUCCESS" THEN "SUCCESS" ELSE "PARTIAL_SUCCESS",
               p.class = "return" /\ NotWorking(p.code), p.class = "return" /\ NotWorking(p.code))

-----------------------------------------------------------------------------

\* The class of the request a call sends.
RequestOf(name, a) ==
  CASE name \in {"get", "mget"}       -> "get"
    [] name \in {"remove", "mdelete"} -> "remove"
    [] name = "add_count"     -> "inc_dec"
    [] name = "zrangebyscore" -> "generic_zrangebyscore"
    [] name = "remove_area"   -> IF a.lazy THEN "lazy_remove_area" ELSE "remove_area"
    [] name = "dump_area"     -> "dump"
    [] name = "op_cmd_to_ds"  -> "op_cmd"
    [] OTHER -> name

ApiCalls == {"put", "get", "mget", "remove", "mdelete", "add_count", "lrpush", "lrpop", "lindex",
             "lrange", "lset", "llen", "ltrim", "hset", "hget", "hmset", "hgetall", "hmget",
             "hdel", "sadd", "smembers", "srem", "zadd", "zcard", "zrem", "zrange",
             "zrangebyscore", "zremrangebyscore", "zremrangebyrank", "remove_area", "dump_area",
             "op_cmd_to_ds"}

Api(name, a, p) ==
  CASE name = "put"       -> api_put(a, p)
    [] name = "get"       -> api_get(a, p)
    [] name = "mget"      -> api_mget(a, p)
    [] name = "remove"    -> api_remove(a, p)
    [] name = "mdelete"   -> api_mdelete(a, p)
    [] name = "add_count" -> api_add_count(a, p)
    [] name = "lrpush"    -> api_lrpush(a, p)
    [] name = "lrpop"     -> api_lrpop(a, p)
    [] name = "lindex"    -> api_lindex(a, p)
    [] name = "lrange"    -> api_lrange(a, p)
    [] name = "lset"      -> api_lset(a, p)
    [] name = "llen"      -> api_llen(a, p)
    [] name = "ltrim"     -> api_ltrim(a, p)
    [] name = "hset"      -> api_hset(a, p)
    [] name = "hget"      -> api_hget(a, p)
    [] name = "hmset"     -> api_hmset(a, p)
    [] name = "hgetall"   -> api_hgetall(a, p)
    [] name = "hmget"     -> api_hmget(a, p)
    [] name = "hdel"      -> api_hdel(a, p)
    [] name = "sadd"      -> api_sadd(a, p)
    [] name = "smembers"  -> api_smembers(a, p)
    [] name = "srem"      -> api_srem(a, p)
    [] name = "zadd"      -> api_zadd(a, p)
    [] name = "zcard"     -> api_zcard(a, p)
    [] name = "zrem"      -> api_zrem(a, p)
    [] name = "zrange"    -> api_zrange(a, p)
    [] name = "zrangebyscore"    -> api_zrangebyscore(a, p)
    [] name = "zremrangebyscore" -> api_zremrangebyscore(a, p)
    [] name = "zremrangebyrank"  -> api_zremrangebyrank(a, p)
    [] name = "remove_area"      -> api_remove_area(a, p)
    [] name = "dump_area"        -> api_dump_area(a, p)
    [] name = "op_cmd_to_ds"     -> api_op_cmd_to_ds(a, p)

=============================================================================
