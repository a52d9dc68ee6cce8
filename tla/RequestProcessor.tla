-------------------------- MODULE RequestProcessor --------------------------
(***************************************************************************)
(* The request handlers of a data server (dataserver/                      *)
(* request_processor.cpp), the dispatch around them                        *)
(* (tair_server::handlePacketQueue) and the answer that the duplicator     *)
(* gives when the copies have acknowledged (rspPacket).                    *)
(*                                                                         *)
(* A request under way is a record c.  To the fields of TairManager's m it *)
(* adds:                                                                   *)
(*   op       the class of the request                                     *)
(*   still    the status when the manager looks at it a second time        *)
(*   hash     the packet carries a hash code;  migrated  its bucket moved  *)
(*   dup      what becomes of duplicate_data: "ok", "send" (a send fails)  *)
(*            or the code that addWaitNode refuses with                    *)
(*   sync     a remote-sync plugin is loaded                               *)
(*   score    withscore;  reverse;  config  the op_cmd is GET_CONFIG       *)
(*   several  the packet has a key_list;  record  operation_type of a      *)
(*            migration record                                             *)
(* A handler's outcome h: the responses posted, send_return, the code      *)
(* returned, what rspPacket will post from the wait node, whether the      *)
(* copies were sent the update, how many updates were given to the remote  *)
(* sync, and the results of the manager's operations.                      *)
(***************************************************************************)
EXTENDS TairManager

Reply(class, code, val) == [class |-> class, code |-> code, val |-> val]

NoNode == Reply("none", "none", 0)

Nothing == [posts |-> <<>>, send |-> TRUE, ret |-> "SUCCESS", node |-> NoNode,
            told |-> FALSE, synced |-> 0, calls |-> <<>>]

Quit(code) == [Nothing EXCEPT !.ret = code]

\* The manager reads the status again.
M(c) == [c EXCEPT !.working = c.still]

\* A response of class carries its results if the operation succeeded.
Filled(r) == IF r.rc = "SUCCESS" THEN 1 ELSE 0

process_before(c, h) ==
  IF ~c.working THEN Quit("SERVER_CAN_NOT_WORK")
  ELSE IF c.hash /\ should_proxy(c.localmode, c.migrated, c.self) THEN Quit("SHOULD_PROXY")
  ELSE h

process_after(class, r) ==
  [Nothing EXCEPT !.posts = <<Reply(class, r.rc, Filled(r))>>, !.send = FALSE,
                  !.ret = r.rc, !.calls = <<r>>]

is_need_duplicate(c, code) ==
  c.sync /\ code \in {"SUCCESS", "ALREADY_EXIST", "DATA_LEN_LIMITED"}

do_duplicate(c, code, h) == [h EXCEPT !.synced = IF is_need_duplicate(c, code) THEN 1 ELSE 0]

NeedCopy(c) == get_op_flag(c.flag)

\* A send that fails takes the wait node away again; the copies before it in
\* the list have then been told.
duplicate_data(c, r, node) ==
  [Nothing EXCEPT
     !.ret  = IF c.dup = "ok" THEN "DUP_WAIT_RSP"
              ELSE IF c.dup = "send" THEN "DUPLICATE_BUSY" ELSE c.dup,
     !.node = IF c.dup = "ok" THEN node ELSE NoNode,
     !.told = c.dup = "ok",
     !.calls = <<r>>]

Copied(c, r) == r.rc = "SUCCESS" /\ NeedCopy(c)

\* The common end of a write: duplicated with send_return cleared, or answered.
CopyOrAnswer(c, class, r, node) ==
  IF Copied(c, r) THEN [duplicate_data(c, r, node) EXCEPT !.send = FALSE]
  ELSE process_after(class, r)

Plain(c, class, r) == process_before(c, process_after(class, r))

Write(c, class, r, node) == process_before(c, CopyOrAnswer(c, class, r, node))

\* A response_return of the handler itself, with or without the proxy test.
Returned(r) == process_after("return", r)

OnlyWorking(c, h) == IF ~c.working THEN Quit("SERVER_CAN_NOT_WORK") ELSE h

-----------------------------------------------------------------------------
(* rspPacket: what is posted when the last copy has acknowledged. r is what *)
(* the handler passed to the wait node, got the results of the response     *)
(* that the handler had made.                                               *)

rsp_return(r)    == Reply("return", r.rc, 0)
rsp_ok           == Reply("return", "SUCCESS", 0)
rsp_own(class)   == Reply(class, "SUCCESS", 0)
rsp_ret1(class, r) == Reply(class, r.rc, 0)
rsp_retnum(class, r) == Reply(class, "SUCCESS", Filled(r))
rsp_values(class, r) == Reply(class, r.rc, Filled(r))

\* The hsetnx branch makes a response_ltrim.
rsp_hsetnx == Reply("ltrim", "SUCCESS", 0)

-----------------------------------------------------------------------------
(* Server and areas. *)

process_op_cmd(c) ==
  LET r == IF ~c.still THEN Refuse("SERVER_CAN_NOT_WORK") ELSE Engine(c, FALSE, "none") IN
  OnlyWorking(c, IF c.config THEN process_after("op_cmd", r)
                 ELSE [Quit(r.rc) EXCEPT !.calls = <<r>>])

process_info(c) == OnlyWorking(c, process_after("info", Refuse("SUCCESS")))

process_lazy_remove_area(c) == OnlyWorking(c, Returned(lazyclear(M(c))))
process_dump_area(c)    == OnlyWorking(c, Returned(dumparea(M(c))))
process_load_area(c)    == OnlyWorking(c, Returned(loadarea(M(c))))
process_addfilter(c)    == OnlyWorking(c, Returned(addfilter(M(c))))
process_removefilter(c) == OnlyWorking(c, Returned(removefilter(M(c))))

-----------------------------------------------------------------------------
(* Keys and plain values. *)

process_ttl(c)      == Plain(c, "ttl", ttl(M(c)))
process_type(c)     == Plain(c, "type", type(M(c)))
process_exists(c)   == process_before(c, Returned(exists(M(c))))
process_expire(c)   == Plain(c, "expire", expire(M(c)))
process_expireat(c) == Plain(c, "expireat", expireat(M(c)))
process_persist(c)  == Plain(c, "persist", persist(M(c)))

\* send_return stays set: the dispatch answers, unless the copies are waited
\* for.
LOCAL CopyOrReturn(c, r, node) ==
  IF Copied(c, r) THEN duplicate_data(c, r, node)
  ELSE [Quit(r.rc) EXCEPT !.calls = <<r>>]

process_put(c) == process_before(c, CopyOrReturn(c, put(M(c)), rsp_ok))

\* do_duplicate looks at the code that duplicate_data gave.
process_putnx(c) ==
  LET h == CopyOrReturn(c, putnx(M(c)), rsp_ok) IN
  process_before(c, IF Copied(c, putnx(M(c))) THEN do_duplicate(c, h.ret, h) ELSE h)

\* The results of op for the keys of a packet, one after the other.
LOCAL EachKey(c, op(_)) == [i \in 1..Len(c.store) |-> op([M(c) EXCEPT !.store = <<c.store[i]>>])]

process_get(c) ==
  LET rs    == EachKey(c, get)
      found == Len(SelectSeq(rs, LAMBDA r : r.rc = "SUCCESS"))
      code  == IF found = Len(rs) THEN "SUCCESS" ELSE "PARTIAL_SUCCESS"
  IN OnlyWorking(c, IF c.several
                    THEN [Nothing EXCEPT !.posts = <<Reply("get", code, found)>>,
                                         !.send = FALSE, !.ret = code, !.calls = rs]
                    ELSE process_after("get", rs[1]))

process_getset(c) ==
  process_before(c, do_duplicate(c, getset(M(c)).rc, process_after("getset", getset(M(c)))))

\* Every key is removed, whatever becomes of the others; the last code counts.
\* The duplicator is told success for a list, the code for a single key.
process_remove(c) ==
  LET rs   == EachKey(c, remove)
      last == rs[Len(rs)]
      node == IF c.several THEN rsp_ok ELSE rsp_return(last)
  IN OnlyWorking(c,
       IF last.rc \in {"SUCCESS", "DATA_NOT_EXIST"} /\ NeedCopy(c)
       THEN [duplicate_data(c, last, node) EXCEPT !.calls = rs]
       ELSE [Quit(last.rc) EXCEPT !.calls = rs])

process_inc_dec(c) ==
  LET r == add_count(M(c))
      h == IF r.rc = "SUCCESS" THEN process_after("inc_dec", r)
           ELSE [Quit(r.rc) EXCEPT !.calls = <<r>>]
  IN process_before(c, do_duplicate(c, r.rc, h))

\* Records are applied until one fails.
process_mupdate(c) ==
  LET one(m) == IF m.record = "put" THEN direct_put(m) ELSE direct_remove(m)
      rs     == EachKey(c, one)
      bad    == {i \in 1..Len(rs) : rs[i].rc # "SUCCESS"}
      n      == IF bad = {} THEN Len(rs) ELSE CHOOSE i \in bad : \A j \in bad : i <= j
  IN OnlyWorking(c, IF c.flag # "migrate" THEN Quit("INVALID_ARGUMENT")
                    ELSE [Quit(rs[n].rc) EXCEPT !.calls = SubSeq(rs, 1, n)])

-----------------------------------------------------------------------------
(* Lists. *)

process_lindex(c) == Plain(c, "lindex", lindex(M(c)))
process_llen(c)   == Plain(c, "llen", llen(M(c)))
process_lrange(c) == Plain(c, "lrange", lrange(M(c)))

\* A success that needs no copy posts nothing and leaves it to the dispatch.
process_ltrim(c) ==
  LET r == ltrim(M(c)) IN
  process_before(c, IF r.rc = "SUCCESS" /\ ~NeedCopy(c)
                    THEN [Quit(r.rc) EXCEPT !.calls = <<r>>]
                    ELSE CopyOrAnswer(c, "ltrim", r, rsp_own("ltrim")))

\* The response is posted at once also when the copies are waited for, with
\* the code of duplicate_data.
process_lrem(c) ==
  LET r == lrem(M(c))
      h == CopyOrAnswer(c, "lrem", r, rsp_own("lrem"))
  IN process_before(c, [h EXCEPT !.posts = <<Reply("lrem", h.ret, Filled(r))>>])

\* send_return stays set when the copies are told.
process_lset(c) ==
  LET r == lset(M(c)) IN
  process_before(c, IF Copied(c, r) THEN duplicate_data(c, r, rsp_own("lset"))
                    ELSE process_after("lset", r))

\* The response of the branch without copies has no results.
LOCAL Empty(h) == [h EXCEPT !.posts = [i \in DOMAIN @ |-> [@[i] EXCEPT !.val = 0]]]

process_lrpush(c) ==
  LET r == lrpush(M(c)) IN
  process_before(c, IF Copied(c, r) THEN CopyOrAnswer(c, "lrpush", r, rsp_values("lrpush", r))
                    ELSE Empty(process_after("lrpush", r)))

\* The hash code is tested against 0: -1, no hash code, counts as one.
process_lrpush_limit(c) ==
  LET r == lrpush(M(c)) IN
  process_before([c EXCEPT !.hash = TRUE], CopyOrAnswer(c, "lrpush", r, rsp_own("lrpush")))

process_lrpop(c) ==
  LET r == lrpop(M(c))
      h == duplicate_data(c, r, rsp_values("lrpop", r))
  IN process_before(c, IF Copied(c, r) THEN do_duplicate(c, h.ret, [h EXCEPT !.send = FALSE])
                       ELSE Empty(process_after("lrpop", r)))

-----------------------------------------------------------------------------
(* Hashes. *)

process_hexists(c) == process_before(c, Returned(hexists(M(c))))
process_hgetall(c) == Plain(c, "hgetall", hgetall(M(c)))
process_hincrby(c) == Plain(c, "hincrby", hincrby(M(c)))
process_hmset(c)   == Write(c, "hmset", hmset(M(c)), rsp_ret1("hmset", hmset(M(c))))
\* hset reads the field back, for the log only.
process_hset(c)    == Write(c, "hset", hset(M(c)), rsp_ret1("hset", hset(M(c))))
process_hsetnx(c)  == Write(c, "hsetnx", hsetnx(M(c)), rsp_hsetnx)
process_hget(c)    == Plain(c, "hget", hget(M(c)))
process_hmget(c)   == Plain(c, "hmget", hmget(M(c)))
process_hkeys(c)   == Plain(c, "hkeys", hkeys(M(c)))
process_hvals(c)   == Plain(c, "hvals", hvals(M(c)))
process_hdel_local(c) == Plain(c, "hdel", hdel(M(c)))

process_hdel(c)    == Write(c, "hdel", hdel(M(c)), rsp_own("hdel"))
process_hlen(c)    == Plain(c, "hlen", hlen(M(c)))

-----------------------------------------------------------------------------
(* Sets. *)

process_scard(c)    == Plain(c, "scard", scard(M(c)))
process_smembers(c) == Plain(c, "smembers", smembers(M(c)))
process_sadd(c)     == Write(c, "sadd", sadd(M(c)), rsp_ret1("sadd", sadd(M(c))))
process_srem(c)     == Write(c, "srem", srem(M(c)), rsp_own("srem"))

process_spop(c) ==
  LET r == spop(M(c))
      h == CopyOrAnswer(c, "spop", r, rsp_own("spop"))
  IN process_before(c, IF Copied(c, r) THEN do_duplicate(c, h.ret, h) ELSE h)

\* The members of all the keys, up to one that fails.  Each key that went well
\* is given to the remote sync; the copies are told only if the last member
\* gave a success.
LOCAL Members(c, class, op(_), fine, node(_)) ==
  LET rs   == EachKey(c, op)
      bad  == {i \in 1..Len(rs) : rs[i].rc \notin fine}
      n    == IF bad = {} THEN Len(rs) ELSE CHOOSE i \in bad : \A j \in bad : i <= j
      sync == {i \in 1..n : rs[i].rc \in fine /\ is_need_duplicate(c, rs[i].rc)}
      h    == CopyOrAnswer(c, class, rs[n], node(rs[n]))
  IN process_before(c, [h EXCEPT !.calls = SubSeq(rs, 1, n), !.synced = Len(SelectSeq(
                          [i \in 1..n |-> i \in sync], LAMBDA b : b))])

process_sadd_multi(c) ==
  Members(c, "sadd", sadd, {"SUCCESS", "ALREADY_EXIST"}, LAMBDA r : rsp_ret1("sadd", r))

process_srem_multi(c) ==
  Members(c, "srem", srem, {"SUCCESS", "DATA_NOT_EXIST"}, LAMBDA r : rsp_own("srem"))

\* The code is that of the last key.
process_smembers_multi(c) ==
  LET rs == EachKey(c, smembers) IN
  process_before(c, [process_after("smembers_multi", rs[Len(rs)]) EXCEPT !.calls = rs])

-----------------------------------------------------------------------------
(* Sorted sets. *)

process_zscore(c) == Plain(c, "zscore", zscore(M(c)))
process_zrange(c) ==
  Plain(c, IF c.score THEN "zrangewithscore" ELSE "zrange", zrange(M(c)))
process_zrevrange(c) ==
  Plain(c, IF c.score THEN "zrevrangewithscore" ELSE "zrevrange", zrevrange(M(c)))
process_zrangebyscore(c) == Plain(c, "zrangebyscore", zrangebyscore(M(c)))

\* The two directions are exchanged.
process_generic_zrangebyscore(c) ==
  Plain(c, "generic_zrangebyscore",
        IF c.reverse THEN zrangebyscore(M(c)) ELSE zrevrangebyscore(M(c)))

process_zadd(c)     == Write(c, "zadd", zadd(M(c)), rsp_ret1("zadd", zadd(M(c))))
process_zrank(c)    == Plain(c, "zrank", zrank(M(c)))
process_zrevrank(c) == Plain(c, "zrevrank", zrevrank(M(c)))
process_zcount(c)   == Plain(c, "zcount", zcount(M(c)))
process_zincrby(c)  == Plain(c, "zincrby", zincrby(M(c)))
process_zcard(c)    == Plain(c, "zcard", zcard(M(c)))
process_zrem(c)     == Write(c, "zrem", zrem(M(c)), rsp_own("zrem"))
process_zremrangebyrank(c) ==
  Write(c, "zremrangebyrank", zremrangebyrank(M(c)),
        rsp_retnum("zremrangebyrank", zremrangebyrank(M(c))))
process_zremrangebyscore(c) ==
  Write(c, "zremrangebyscore", zremrangebyscore(M(c)),
        rsp_retnum("zremrangebyscore", zremrangebyscore(M(c))))

-----------------------------------------------------------------------------
(* The same operations at a copy.  A success, or nothing to remove, is       *)
(* acknowledged; any other code is not answered at all.                      *)

Acknowledged(c, r) ==
  OnlyWorking(c, IF r.rc \in {"SUCCESS", "DATA_NOT_EXIST"} THEN process_after("duplicate", r)
                 ELSE [Quit(r.rc) EXCEPT !.send = FALSE, !.calls = <<r>>])

process_put_dup(c)    == Acknowledged(c, put(M(c)))
process_putnx_dup(c)  == Acknowledged(c, putnx(M(c)))
process_ltrim_dup(c)  == Acknowledged(c, ltrim(M(c)))
process_lrem_dup(c)   == Acknowledged(c, lrem(M(c)))
process_lset_dup(c)   == Acknowledged(c, lset(M(c)))
process_lrpush_dup(c) == Acknowledged(c, lrpush(M(c)))
process_lrpush_limit_dup(c) == Acknowledged(c, lrpush(M(c)))
process_lrpop_dup(c)  == Acknowledged(c, lrpop(M(c)))
process_hmset_dup(c)  == Acknowledged(c, hmset(M(c)))
process_hset_dup(c)   == Acknowledged(c, hset(M(c)))
process_hsetnx_dup(c) == Acknowledged(c, hsetnx(M(c)))
process_hdel_dup(c)   == Acknowledged(c, hdel(M(c)))
process_sadd_dup(c)   == Acknowledged(c, sadd(M(c)))
process_srem_dup(c)   == Acknowledged(c, srem(M(c)))
process_spop_dup(c)   == Acknowledged(c, spop(M(c)))
process_zadd_dup(c)   == Acknowledged(c, zadd(M(c)))
process_zrem_dup(c)   == Acknowledged(c, zrem(M(c)))
process_zremrangebyrank_dup(c)  == Acknowledged(c, zremrangebyrank(M(c)))
process_zremrangebyscore_dup(c) == Acknowledged(c, zremrangebyscore(M(c)))

\* The code of the last member handled decides.
LOCAL LastOf(c, op(_), fine) ==
  LET rs  == EachKey(c, op)
      bad == {i \in 1..Len(rs) : rs[i].rc \notin fine}
  IN IF bad = {} THEN rs[Len(rs)] ELSE rs[CHOOSE i \in bad : \A j \in bad : i <= j]

process_sadd_multi_dup(c) == Acknowledged(c, LastOf(c, sadd, {"SUCCESS", "ALREADY_EXIST"}))
process_srem_multi_dup(c) == Acknowledged(c, LastOf(c, srem, {"SUCCESS", "DATA_NOT_EXIST"}))

\* Here the keys after one that fails are still removed.
process_remove_dup(c) ==
  LET rs == EachKey(c, remove) IN Acknowledged(c, rs[Len(rs)])

-----------------------------------------------------------------------------
(* tair_server::handlePacketQueue, in the order of its switch. *)

DispatchValues(c) ==
  CASE c.op = "ttl"    -> process_ttl(c)
    [] c.op = "type"   -> process_type(c)
    [] c.op = "exists" -> process_exists(c)
    [] c.op = "put"    -> process_put(c)
    [] c.op = "putnx"  -> process_putnx(c)
    [] c.op = "get"    -> [process_get(c) EXCEPT !.send = FALSE]
    [] c.op = "getset" -> process_getset(c)
    [] c.op = "remove" -> process_remove(c)
    [] c.op = "lindex" -> process_lindex(c)
    [] c.op = "lrpop"  -> process_lrpop(c)
    [] c.op = "lrpush" -> process_lrpush(c)
    [] c.op = "lrpush_limit" -> process_lrpush_limit(c)
    [] c.op = "lset"   -> process_lset(c)

DispatchHashes(c) ==
  CASE c.op = "hexists" -> process_hexists(c)
    [] c.op = "hgetall" -> process_hgetall(c)
    [] c.op = "hkeys"   -> process_hkeys(c)
    [] c.op = "hincrby" -> process_hincrby(c)
    [] c.op = "hmset"   -> process_hmset(c)
    [] c.op = "hset"    -> process_hset(c)
    [] c.op = "hsetnx"  -> process_hsetnx(c)
    [] c.op = "hget"    -> process_hget(c)
    [] c.op = "hmget"   -> process_hmget(c)
    [] c.op = "hvals"   -> process_hvals(c)
    [] c.op = "hdel"    -> process_hdel(c)
    [] c.op = "hlen"    -> process_hlen(c)

DispatchSets(c) ==
  CASE c.op = "ltrim"      -> process_ltrim(c)
    [] c.op = "lrem"       -> process_lrem(c)
    [] c.op = "llen"       -> process_llen(c)
    [] c.op = "lrange"     -> process_lrange(c)
    [] c.op = "scard"      -> process_scard(c)
    [] c.op = "smembers"   -> process_smembers(c)
    [] c.op = "sadd"       -> process_sadd(c)
    [] c.op = "srem"       -> process_srem(c)
    [] c.op = "spop"       -> process_spop(c)
    [] c.op = "sadd_multi" -> process_sadd_multi(c)
    [] c.op = "srem_multi" -> process_srem_multi(c)
    [] c.op = "smembers_multi" -> process_smembers_multi(c)

DispatchZsets(c) ==
  CASE c.op = "zscore"        -> process_zscore(c)
    [] c.op = "zrange"        -> process_zrange(c)
    [] c.op = "zrevrange"     -> process_zrevrange(c)
    [] c.op = "zrangebyscore" -> process_zrangebyscore(c)
    [] c.op = "generic_zrangebyscore" -> process_generic_zrangebyscore(c)
    [] c.op = "zadd"          -> process_zadd(c)
    [] c.op = "zrank"         -> process_zrank(c)
    [] c.op = "zrevrank"      -> process_zrevrank(c)
    [] c.op = "zcount"        -> process_zcount(c)
    [] c.op = "zincrby"       -> process_zincrby(c)
    [] c.op = "zcard"         -> process_zcard(c)
    [] c.op = "zrem"          -> process_zrem(c)
    [] c.op = "zremrangebyrank"  -> process_zremrangebyrank(c)
    [] c.op = "zremrangebyscore" -> process_zremrangebyscore(c)

\* remove_area and dump are answered here and carried out by another thread;
\* dump_bucket is refused.
DispatchServer(c) ==
  CASE c.op = "expire"       -> process_expire(c)
    [] c.op = "expireat"     -> process_expireat(c)
    [] c.op = "persist"      -> process_persist(c)
    [] c.op = "info"         -> process_info(c)
    [] c.op = "lazy_remove_area" -> process_lazy_remove_area(c)
    [] c.op = "dump_area"    -> process_dump_area(c)
    [] c.op = "load_area"    -> process_load_area(c)
    [] c.op = "addfilter"    -> process_addfilter(c)
    [] c.op = "removefilter" -> process_removefilter(c)
    [] c.op \in {"remove_area", "ping", "dump"} -> Quit("SUCCESS")
    [] c.op = "dump_bucket"  -> Quit("EXIT_FAILURE")
    [] c.op = "inc_dec"      -> process_inc_dec(c)
    [] c.op = "mupdate"      -> process_mupdate(c)
    [] c.op = "op_cmd"       -> process_op_cmd(c)

\* What a copy does with the update of an operation.
DispatchCopies(c) ==
  CASE c.op = "put"        -> process_put_dup(c)
    [] c.op = "putnx"      -> process_putnx_dup(c)
    [] c.op = "remove"     -> process_remove_dup(c)
    [] c.op = "lrpush"     -> process_lrpush_dup(c)
    [] c.op = "ltrim"      -> process_ltrim_dup(c)
    [] c.op = "lrem"       -> process_lrem_dup(c)
    [] c.op = "lset"       -> process_lset_dup(c)
    [] c.op = "hmset"      -> process_hmset_dup(c)
    [] c.op = "hset"       -> process_hset_dup(c)
    [] c.op = "hsetnx"     -> process_hsetnx_dup(c)
    [] c.op = "hdel"       -> process_hdel_dup(c)
    [] c.op = "spop"       -> process_spop_dup(c)
    [] c.op = "srem"       -> process_srem_dup(c)
    [] c.op = "sadd"       -> process_sadd_dup(c)
    [] c.op = "sadd_multi" -> process_sadd_multi_dup(c)
    [] c.op = "srem_multi" -> process_srem_multi_dup(c)
    [] c.op = "zadd"       -> process_zadd_dup(c)
    [] c.op = "zrem"       -> process_zrem_dup(c)
    [] c.op = "zremrangebyrank"  -> process_zremrangebyrank_dup(c)
    [] c.op = "zremrangebyscore" -> process_zremrangebyscore_dup(c)
    [] c.op = "lrpush_limit" -> process_lrpush_limit_dup(c)
    [] c.op = "lrpop"      -> process_lrpop_dup(c)

ValueOps == {"ttl", "type", "exists", "put", "putnx", "get", "getset", "remove", "lindex",
             "lrpop", "lrpush", "lrpush_limit", "lset"}
HashOps  == {"hexists", "hgetall", "hkeys", "hincrby", "hmset", "hset", "hsetnx", "hget",
             "hmget", "hvals", "hdel", "hlen"}
SetOps   == {"ltrim", "lrem", "llen", "lrange", "scard", "smembers", "sadd", "srem", "spop",
             "sadd_multi", "srem_multi", "smembers_multi"}
ZsetOps  == {"zscore", "zrange", "zrevrange", "zrangebyscore", "generic_zrangebyscore", "zadd",
             "zrank", "zrevrank", "zcount", "zincrby", "zcard", "zrem", "zremrangebyrank",
             "zremrangebyscore"}
ServerOps == {"expire", "expireat", "persist", "info", "lazy_remove_area", "dump_area",
              "load_area", "addfilter", "removefilter", "remove_area", "ping", "dump",
              "dump_bucket", "inc_dec", "mupdate", "op_cmd"}

Requests == ValueOps \cup HashOps \cup SetOps \cup ZsetOps \cup ServerOps

Finish_always(h) ==
  IF h.send \/ h.ret = "DUP_WAIT_RSP"
  THEN [h EXCEPT !.posts = Append(@, Reply("return", h.ret, 0))] ELSE h

\* The end of handlePacketQueue.
Finish(h) ==
  IF h.ret # "DUP_WAIT_RSP" /\ h.send
  THEN [h EXCEPT !.posts = Append(@, Reply("return", h.ret, 0))] ELSE h

handlePacketQueue(c) ==
  Finish(IF c.op \in ValueOps THEN DispatchValues(c)
         ELSE IF c.op \in HashOps THEN DispatchHashes(c)
         ELSE IF c.op \in SetOps THEN DispatchSets(c)
         ELSE IF c.op \in ZsetOps THEN DispatchZsets(c) ELSE DispatchServer(c))

=============================================================================
