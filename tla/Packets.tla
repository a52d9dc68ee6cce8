------------------------------ MODULE Packets ------------------------------
(***************************************************************************)
(* The packets of the cluster (packets/) and the buffer they are written   *)
(* to (tbnet/databuffer.h).  A buffer is a sequence of bytes; a packet is  *)
(* a record of its members.  encode() and decode() of a class write and    *)
(* read its members one by one, in an order each of them fixes by itself,  *)
(* so a class is the pair of its two layouts, and Encode and Decode        *)
(* interpret them.  A class whose encode() or decode() is assert(false)    *)
(* talks to clients written in another language: Receives and Sends.       *)
(* Numbers are non-negative and fit in 31 bits.                            *)
(***************************************************************************)
EXTENDS Integers, SequencesExt

CONSTANTS
    MaxValues,    \* RESPONSE_VALUES_MAXSIZE (32767)
    NameSize      \* the bytes of a group name (64)

ASSUME PacketsAssumption == MaxValues \in Nat \ {0} /\ NameSize \in Nat \ {0}

------------------------------------------------------------------------------
\* Mutant: the bytes above are not masked off.
WriteIntUnmasked(v, w) == [i \in 1..w |-> IF w - i > 3 THEN 0 ELSE v \div 256^(w - i)]

\* DataBuffer::writeInt8 .. writeInt64, fillInt32: most significant byte first.
WriteInt(v, w) == [i \in 1..w |-> IF w - i > 3 THEN 0 ELSE (v \div 256^(w - i)) % 256]

\* DataBuffer::readInt8 .. readInt64.
ReadInt(b) ==
    LET value[i \in 0..Len(b)] == IF i = 0 THEN 0 ELSE value[i - 1] * 256 + b[i] IN value[Len(b)]

\* DataBuffer::writeString: a length that counts the closing NUL, 0 for no string.
WriteString(s) == IF s = <<>> THEN WriteInt(0, 4) ELSE WriteInt(Len(s) + 1, 4) \o s \o <<0>>

\* PUT_DATAENTRY_TO_BUFFER, PUT_PDATAENTRY_TO_BUFFER.
WriteBlob(b) == WriteInt(Len(b), 4) \o b

\* PUT_DATAVECTOR_TO_BUFFER.
WriteVector(v) == WriteInt(Len(v), 4) \o FlattenSeq([i \in DOMAIN v |-> WriteBlob(v[i])])

\* compress() of zlib into a buffer as long as its input, here of runs of one byte (external);
\* what does not get shorter is written as it is, with 0 for the original size.
Runs(b) == Len(b) > 2 /\ \A i \in DOMAIN b : b[i] = b[1]
WriteZip(b) ==
    IF Runs(b) THEN WriteInt(2, 4) \o WriteInt(Len(b), 4) \o <<Len(b), b[1]>>
    ELSE WriteInt(Len(b), 4) \o WriteInt(0, 4) \o b

\* DataBuffer::drainData and stripData.
Drain(b, n) == SubSeq(b, n + 1, Len(b))
Strip(b, n) == SubSeq(b, 1, Len(b) - n)

------------------------------------------------------------------------------
(* The members a layout may name.                                          *)

I8(f) == [op |-> "int", f |-> f, w |-> 1]
I16(f) == [op |-> "int", f |-> f, w |-> 2]
I32(f) == [op |-> "int", f |-> f, w |-> 4]
I64(f) == [op |-> "int", f |-> f, w |-> 8]
Dbl(f) == [op |-> "double", f |-> f]                  \* eight bytes as they lie in memory
Blob(f) == [op |-> "blob", f |-> f]
Blob0(f) == [op |-> "blob", f |-> f, empty |-> TRUE]    \* there may be no bytes
Str(f) == [op |-> "str", f |-> f]
Vec(f) == [op |-> "vec", f |-> f]
Fixed(f) == [op |-> "fixed", f |-> f]                  \* NameSize bytes, no length
Packed(f) == [op |-> "packed", f |-> f]                      \* compressed when that makes it shorter
List(f, sub) == [op |-> "list", f |-> f, sub |-> sub]  \* a count, then the members
Rep(f, count, sub) == [op |-> "rep", f |-> f, count |-> count, sub |-> sub]  \* the count is another field
When(f, set, sub) == [op |-> "when", f |-> f, set |-> set, sub |-> sub]
Zero32 == [op |-> "zero"]                              \* a count that is always written as 0
Stamp(f) == [op |-> "stamp", f |-> f]                  \* the entry gets the version of the packet
Cap(f) == [op |-> "cap", f |-> f]                      \* encode() refuses more than MaxValues
Fail == [op |-> "fail"]                                \* decode() returns false
Foreign == [op |-> "foreign"]                          \* read by a client in another language

\* item_data_info::encode and decode.
item_meta == <<I16("magic"), I16("checksum"), I16("keysize"), I16("version"), I32("padsize"),
    I32("valsize"), I8("flag"), I32("cdate"), I32("mdate"), I32("edate")>>

\* data_entry::encode and decode; decode() leaves the area of the entry as the constructor set it.
data_entry_members == <<I8("has_merged"), I32("area"), I16("server_flag")>> \o item_meta \o <<Blob("data")>>
Lost == [area |-> 0]
DE(f) == [op |-> "entry", f |-> f]

\* CREATE_HEADER and HEADER_VERIFY.
Header == <<I8("server_flag"), I16("area")>>
VersionExpire == <<I16("version"), I32("expire")>>
Result == <<I32("config_version"), I32("code")>>
ResultNum == Result \o <<I64("retnum")>>
ResultVersion == <<I32("config_version"), I16("version"), I32("code")>>
DupTail == <<I32("packet_id"), I32("bucket_id")>>

------------------------------------------------------------------------------
RECURSIVE Bytes(_, _), Read(_, _, _), Entries(_, _, _), Members(_, _, _, _)

\* packet->encode(output), member by member.
Bytes(layout, p) ==
    LET Member(e) ==
            CASE e.op = "int" -> WriteInt(p[e.f], e.w)
              [] e.op = "double" -> p[e.f]
              [] e.op = "blob" -> WriteBlob(p[e.f])
              [] e.op = "str" -> WriteString(p[e.f])
              [] e.op = "vec" -> WriteVector(p[e.f])
              [] e.op = "fixed" -> p[e.f]
              [] e.op = "packed" -> WriteZip(p[e.f])
              [] e.op = "entry" -> Bytes(data_entry_members, p[e.f])
              [] e.op = "list" -> WriteInt(Len(p[e.f]), 4)
                     \o FlattenSeq([i \in DOMAIN p[e.f] |-> Bytes(e.sub, p[e.f][i])])
              [] e.op = "rep" -> FlattenSeq([i \in DOMAIN p[e.f] |-> Bytes(e.sub, p[e.f][i])])
              [] e.op = "when" -> IF p[e.f] \in e.set THEN Bytes(e.sub, p) ELSE <<>>
              [] e.op = "zero" -> WriteInt(0, 4)
              [] OTHER -> <<>>
    IN FlattenSeq([i \in DOMAIN layout |-> Member(layout[i])])

\* A reader s holds the bytes not read yet, the members read so far and decode()'s result.
Reader(b) == [ok |-> TRUE, in |-> b, p |-> <<>>]
Put(s, f, v) == [s EXCEPT !.p = (f :> v) @@ s.p]

\* GETKEY_FROM_INT16 .. GETKEY_FROM_INT64.
GetInt(s, w, f) ==
    IF Len(s.in) < w THEN [s EXCEPT !.ok = FALSE]
    ELSE [Put(s, f, ReadInt(SubSeq(s.in, 1, w))) EXCEPT !.in = Drain(s.in, w)]

\* DataBuffer::readBytes.
GetBytes(s, n, f) ==
    IF Len(s.in) < n THEN [s EXCEPT !.ok = FALSE]
    ELSE [Put(s, f, SubSeq(s.in, 1, n)) EXCEPT !.in = Drain(s.in, n)]

\* GETKEY_FROM_DOUBLE.
GetDouble(s, f) == GetBytes(s, 8, f)

\* GETKEY_FROM_DATAENTRY, GETKEY_FROM_PDATAENTRY: a length the buffer holds, then the bytes.
GetBlob(s, f) ==
    LET t == GetInt(s, 4, "len") IN
    IF t.ok THEN GetBytes([s EXCEPT !.in = t.in], t.p["len"], f) ELSE t

\* response_get_server_table::decode: bytes with the size they had before compress().
GetZip(s, f) ==
    LET t == GetInt(GetInt(s, 4, "size"), 4, "orig")
        u == GetBytes([s EXCEPT !.in = t.in], t.p["size"], f)
    IN IF t.p["orig"] = 0 \/ ~u.ok THEN u ELSE Put(u, f, [i \in 1..t.p["orig"] |-> u.p[f][2]])

\* Mutant: the NUL is taken for a character.
GetStringWithNul(s, f) == GetBlob(s, f)

\* DataBuffer::readString: the length counts the closing NUL.
GetString(s, f) ==
    LET t == GetBlob(s, f) IN
    IF t.ok /\ t.p[f] # <<>> THEN Put(t, f, Strip(t.p[f], 1)) ELSE t

\* GETKEY_FROM_DATAVECTOR: an entry without bytes is read and left out.
Entries(s, n, f) ==
    IF n = 0 \/ ~s.ok THEN s
    ELSE LET t == GetBlob(s, "entry") IN
         Entries(IF ~t.ok \/ t.p["entry"] = <<>> THEN [s EXCEPT !.ok = t.ok, !.in = t.in]
                 ELSE [s EXCEPT !.in = t.in, !.p = [@ EXCEPT ![f] = Append(@, t.p["entry"])]], n - 1, f)
GetVector(s, f) ==
    LET t == GetInt(s, 4, "n")
    IN IF t.ok THEN Entries([Put(s, f, <<>>) EXCEPT !.in = t.in], t.p["n"], f) ELSE t

\* n members of one layout, collected in f.
Members(s, n, f, sub) ==
    IF n = 0 \/ ~s.ok THEN s
    ELSE LET t == Read(sub, 1, [s EXCEPT !.p = <<>>]) IN
         Members([ok |-> t.ok, in |-> t.in, p |-> [s.p EXCEPT ![f] = Append(@, t.p)]], n - 1, f, sub)

\* packet->decode(input, header), member by member; it stops at the first one that fails.
Read(layout, i, s) ==
    LET e == layout[i]
        next ==
            CASE e.op = "int" -> GetInt(s, e.w, e.f)
              [] e.op = "double" -> GetDouble(s, e.f)
              [] e.op = "blob" -> GetBlob(s, e.f)
              [] e.op = "str" -> GetString(s, e.f)
              [] e.op = "vec" -> GetVector(s, e.f)
              [] e.op = "fixed" -> GetBytes(s, NameSize, e.f)
              [] e.op = "packed" -> GetZip(s, e.f)
              [] e.op = "entry" ->
                     LET t == Read(data_entry_members, 1, [s EXCEPT !.p = <<>>])
                     IN [t EXCEPT !.p = (e.f :> (Lost @@ t.p)) @@ s.p]
              [] e.op = "list" ->
                     LET t == GetInt(s, 4, "n") IN
                     IF t.ok THEN Members([Put(s, e.f, <<>>) EXCEPT !.in = t.in], t.p["n"], e.f, e.sub) ELSE t
              [] e.op = "rep" -> Members(Put(s, e.f, <<>>), s.p[e.count], e.f, e.sub)
              [] e.op = "when" -> IF s.p[e.f] \in e.set THEN Read(e.sub, 1, s) ELSE s
              [] e.op = "zero" -> [s EXCEPT !.in = Drain(@, 4)]
              [] e.op = "stamp" -> Put(s, e.f, [s.p[e.f] EXCEPT !.version = s.p["version"]])
              [] e.op = "fail" -> [s EXCEPT !.ok = FALSE]
              [] OTHER -> s
    IN IF i > Len(layout) \/ ~s.ok THEN s ELSE Read(layout, i + 1, next)

------------------------------------------------------------------------------
(* The numbers of the packet codes (base_packet.hpp).                      *)

Numbers(kind, first, names) ==
    [c \in {<<kind, n>> : n \in ToSet(names)} |->
        first - 1 + CHOOSE i \in DOMAIN names : names[i] = c[2]]

BaseCodes ==
    Numbers("req", 1, <<"put", "get", "remove", "remove_area", "stat", "ping", "dump", "param", "heartbeat">>)
    @@ Numbers("req", 11, <<"incdec">>) @@ Numbers("req", 13, <<"mupdate", "lock", "mput", "op_cmd">>)
    @@ Numbers("resp", 17, <<"op_cmd">>) @@ Numbers("resp", 27, <<"prefix_incdec", "mreturn">>)
    @@ Numbers("resp", 35, <<"mreturn_dup">>)
    @@ Numbers("resp", 101, <<"return", "get", "stat", "heartbeat", "incdec">>)
    @@ Numbers("req", 1002, <<"get_group", "get_svrtab", "confhb", "setmaster", "group_names">>)
    @@ Numbers("req", 1009, <<"query_info">>)
    @@ Numbers("resp", 1102, <<"get_group", "get_svrtab", "group_names">>)
    @@ Numbers("resp", 1106, <<"query_info">>) @@ Numbers("req", 1200, <<"dump_bucket", "mig_finish">>)
    @@ Numbers("req", 1300, <<"duplicate">>) @@ Numbers("resp", 1301, <<"duplicate", "get_migrate_machine">>)
    @@ Numbers("req", 1400, <<"additems", "getitems", "removeitems", "getandremoveitems", "getitemscount">>)
    @@ Numbers("resp", 1405, <<"getitems">>)
    @@ Numbers("req", 1500, <<"dataserver_ctrl", "get_migrate_machine">>) @@ Numbers("req", 3000, <<"admin">>)

\* A redis command has the same place among the requests and, 100 further on, the responses.
RedisCommands == <<"lpop", "lpush", "rpop", "rpush", "lpushx", "rpushx", "lindex", "hgetall", "hincrby",
    "hmset", "hset", "hsetnx", "hget", "hmget", "hvals", "hdel", "scard", "smembers", "sadd", "spop", "zrange",
    "zrevrange", "zscore", "zrangebyscore", "zadd", "zrank", "zcard", "expire", "ltrim", "lrem", "lrange",
    "expireat", "persist", "llen", "ttl", "type", "hlen", "zrem", "zremrangebyrank", "zremrangebyscore",
    "zrevrank", "zcount", "zincrby", "zrangewithscore", "zrevrangewithscore", "srem", "saddmulti", "sremmulti",
    "smembersmulti", "putnx", "mputnx", "generic_zrangebyscore", "lazy_remove_area", "exists", "info", "getset",
    "hkeys", "lpush_limit", "rpush_limit", "lpushx_limit", "rpushx_limit", "hexists", "add_filter",
    "remove_filter", "dump_area", "load_area", "lset">>
DuplicateCommands == <<"put", "putnx", "remove", "ltrim", "lrem", "lset", "hmset", "hset", "hsetnx", "hdel",
    "spop", "srem", "sremmulti", "sadd", "saddmulti", "zadd", "zrem", "zremrangebyrank", "zremrangebyscore",
    "lpush", "lpushx", "rpush", "rpushx", "lpush_limit", "rpush_limit", "lpushx_limit", "rpushx_limit",
    "lpop", "rpop">>
PCode == BaseCodes @@ Numbers("req", 2100, RedisCommands) @@ Numbers("resp", 2200, RedisCommands)
    @@ Numbers("dup", 4000, DuplicateCommands)

------------------------------------------------------------------------------
(* A class: its code, what encode() writes, what decode() reads, the       *)
(* fields that count other members, and where its copy constructor takes a *)
(* member from when not from the same member of the original.              *)

Class(kind, name, enc, dec) ==
    [pcode |-> <<kind, name>>, enc |-> enc, dec |-> dec, aborts |-> FALSE, counts |-> {}, copy |-> <<>>]
Request(name, l) == Class("req", name, l, l)
Response(name, l) == Class("resp", name, l, l)
Receives(name, l) == [Request(name, l) EXCEPT !.aborts = TRUE]
Sends(name, l) == Class("resp", name, l, <<Foreign>>)
Counted(c, fields) == [c EXCEPT !.counts = fields]
Copied(c, from) == [c EXCEPT !.copy = from]
Dup(name, c, extra) ==
    [c EXCEPT !.pcode = <<"dup", name>>, !.enc = @ \o extra \o DupTail, !.dec = @ \o extra \o DupTail]
None == "none"
Undefined == "undefined"

(* Cluster administration.                                                 *)
ping_body == <<I32("config_version"), I32("value")>>
request_ping == Request("ping", ping_body)
request_set_master == Request("setmaster", ping_body)
request_group_names == Request("group_names", ping_body)
response_inc_dec == Response("incdec", ping_body)
request_data_server_ctrl == Copied(Request("dataserver_ctrl", <<I64("server_id"), I16("cmd")>>),
    "server_id" :> None @@ "cmd" :> None)
request_conf_heartbeart == Request("confhb", <<I64("server_id"), I32("loop_count")>>)
request_migrate_finish == Request("mig_finish", <<I32("version"), I64("server_id"), I32("bucket_no")>>)
request_dump == Request("dump", <<List("info_set", <<I32("start"), I32("end"), I32("area")>>)>>)
request_dump_bucket == Request("dump_bucket", <<I32("dbid"), Str("path")>>)
response_group_names == Response("group_names", <<I32("status"), List("names", <<Str("name")>>)>>)
request_info == Request("info", <<I8("server_flag")>>)
response_info == Response("info", Result \o <<Blob("info")>>)
response_return == Response("return", Result \o <<Str("msg")>>)
request_get_migrate_machine == Request("get_migrate_machine", <<I64("server_id")>>)
response_get_migrate_machine ==
    Response("get_migrate_machine", <<List("vec_ms", <<I64("server"), I32("count")>>)>>)
request_query_info == Request("query_info", <<I32("query_type"), Str("group_name"), I64("server_id")>>)
response_query_info == Response("query_info", <<List("map_k_v", <<Str("key"), Str("value")>>)>>)
request_op_cmd == Request("op_cmd", <<I32("cmd"), List("params", <<Str("param")>>)>>)
response_op_cmd == Response("op_cmd", <<I32("code"), List("infos", <<Str("info")>>)>>)
admin_packet_t == Request("admin", <<List("kvmap", <<Blob("key"), Blob("value")>>)>>)
request_get_group == Request("get_group", <<I32("config_version"), Str("group_name")>>)
request_get_server_table == Request("get_svrtab", <<I32("config_version"), Str("group_name")>>)
response_get_server_table ==
    Response("get_svrtab", <<I32("modified_time"), I32("type"), Str("group_name"), Packed("data")>>)
response_get_group == Response("get_group",
    <<I32("bucket_count"), I32("copy_count"), I32("config_version"),
      List("config_map", <<Str("key"), Str("value")>>), Blob("hash_table"),
      List("available_server_ids", <<I64("server")>>)>>)
request_heartbeat == Request("heartbeat",
    <<I8("server_flag"), I64("server_id"), I32("loop_count"), I32("config_version"), I32("status"),
      I8("pull_migrated_info"), List("vec_bucket_no", <<I32("bucket")>>), I32("plugins_version"),
      I32("area_capacity_version"), List("vec_area_capacity_info", <<I32("area"), I64("capacity")>>),
      Blob("stat_info")>>)
response_heartbeat == Counted(Response("heartbeat",
    <<I32("client_version"), I32("server_version"), I32("bucket_count"), I32("copy_count"),
      I64("down_slave_config_server"), I32("data_need_move"), Blob("hash_table"), Fixed("group_name"),
      I32("plugins_flag"), I32("plugins_version"), Rep("plugins_dll_names", "plugins_flag", <<Blob("name")>>),
      I32("area_capacity_version"), List("vec_area_capacity_info", <<I32("area"), I64("capacity")>>),
      List("migrated_info", <<I64("id")>>)>>), {"plugins_flag"})
request_remove_area == Request("remove_area", <<I32("area")>>)
request_lazy_remove_area == Request("lazy_remove_area", <<I32("area")>>)
request_dump_area == Class("req", "dump_area", <<I32("area")>>, Header)
request_load_area == Class("req", "load_area", <<I32("area")>>, Header)
filter_body == <<Blob("key"), Blob("field"), Blob("value")>>
request_addfilter == Copied(Class("req", "add_filter", <<I32("area")>> \o filter_body, Header \o filter_body),
    "key" :> None @@ "field" :> None @@ "value" :> None)
request_removefilter == [request_addfilter EXCEPT !.pcode[2] = "remove_filter"]

(* Key-value requests.                                                     *)
put_body == Header \o <<I16("version"), I32("expired"), DE("key"), DE("data")>>
request_put == Class("req", "put", put_body, put_body \o <<Stamp("key")>>)
request_putnx == Class("req", "putnx", put_body, put_body \o <<Stamp("key")>>)
request_put_dup == Dup("put", request_put, <<>>)
request_putnx_dup == Dup("putnx", request_putnx, <<>>)
get_body == Header \o <<I32("key_count"), Rep("keys", "key_count", <<DE("key")>>)>>
request_get == Counted(Request("get", get_body), {"key_count"})
request_remove == Counted(Request("remove", get_body), {"key_count"})
request_remove_dup == Dup("remove", request_remove, <<>>)
pair_body == <<DE("key"), DE("data")>>
response_get == Counted(Response("get", Result \o <<I32("key_count"), Rep("pairs", "key_count", pair_body),
    When("key_count", Nat \ {0, 1}, <<Zero32>>)>>), {"key_count"})
request_inc_dec == Request("incdec", Header \o <<I32("add_count"), I32("init_value"), I32("expired"), DE("key")>>)
request_duplicate == Request("duplicate", Header \o pair_body \o <<I32("packet_id"), I32("bucket_number")>>)
response_duplicate == Response("duplicate",
    <<I32("config_version"), I64("server_id"), I32("packet_id"), I32("bucket_id"), I32("result_code")>>)
request_mupdate == Counted(Request("mupdate", <<I8("server_flag"), I32("count"),
    Rep("key_and_values", "count", <<I8("operation_type"), DE("key"), When("operation_type", {1}, <<DE("value")>>)>>)>>),
    {"count", "operation_type"})
response_mreturn == Response("mreturn", Result \o <<Str("msg"), List("key_code_map", <<DE("key"), I32("rc")>>)>>)
response_mreturn_dup == Response("mreturn_dup",
    response_mreturn.enc \o <<I32("bucket_id"), I32("packet_id"), I64("server_id")>>)
request_exists == Request("exists", Header \o <<Blob("key")>>)
request_expire == Request("expire", Header \o <<I32("expiretime"), Blob("key")>>)
response_expire == Sends("expire", Result)
request_expireat == Receives("expireat", Header \o <<I32("expiretime"), Blob("key")>>)
response_expireat == Sends("expireat", Result)
request_persist == Receives("persist", Header \o <<Blob("key")>>)
response_persist == Sends("persist", Result)
request_ttl == Receives("ttl", Header \o <<Blob("key")>>)
response_ttl == Sends("ttl", ResultNum)
request_type == Receives("type", Header \o <<Blob("key")>>)
response_type == Sends("type", ResultNum)

(* Lists.  A class that serves several codes takes the name of the command. *)
values_body == ResultVersion \o <<Cap("values"), Vec("values")>>
value_body == ResultVersion \o <<Blob0("value")>>
lrpush_body == Header \o VersionExpire \o <<Blob("key"), Vec("values")>>
request_lrpush(name) == Request(name, lrpush_body)
response_lrpush(name) == Response(name, Result \o <<I32("pushed_num"), I32("list_len")>>)
request_lrpush_dup(name) == Dup(name, request_lrpush(name), <<I32("old_pcode")>>)
\* Its own members hide those of request_lrpush, whose copy constructor it inherits.
request_lrpush_limit(name) == Copied(
    Request(name, Header \o VersionExpire \o <<I32("max_count"), Blob("key"), Vec("values")>>),
    [f \in {"area", "version", "expire", "key", "values"} |-> None])
\* encode() and decode() are those of request_lrpush and work on the hidden members.
request_lrpush_limit_dup(name) == Dup(name,
    [request_lrpush_limit(name) EXCEPT !.enc = lrpush_body, !.dec = lrpush_body], <<I32("old_pcode")>>)
request_lrpop(name) == Request(name, Header \o VersionExpire \o <<I32("count"), Blob("key")>>)
response_lrpop(name) == Response(name, values_body)
request_lrpop_dup(name) == Dup(name, request_lrpop(name), <<I32("old_pcode")>>)
request_lrange == Request("lrange", Header \o <<I32("start"), I32("end"), Blob("key")>>)
response_lrange == Response("lrange", values_body)
request_ltrim == Request("ltrim", Header \o VersionExpire \o <<I32("start"), I32("end"), Blob("key")>>)
response_ltrim == Response("ltrim", Result)
request_ltrim_dup == Dup("ltrim", request_ltrim, <<>>)
request_lrem == Copied(Request("lrem", Header \o VersionExpire \o <<I32("count"), Blob("key"), Blob("value")>>),
    "value" :> "key")
response_lrem == Class("resp", "lrem", ResultNum, ResultNum \o <<Fail>>)
request_lrem_dup == Dup("lrem", request_lrem, <<>>)
request_lset == Request("lset", Header \o VersionExpire \o <<I32("index"), Blob("key"), Blob("value")>>)
response_lset == Response("lset", Result)
request_lset_dup == Dup("lset", request_lset, <<>>)
request_lindex == Request("lindex", Header \o <<I32("index"), Blob("key")>>)
response_lindex == Response("lindex", value_body)
request_llen == Request("llen", Header \o <<Blob("key")>>)
response_llen == Response("llen", ResultNum)

(* Hashes.                                                                 *)
request_hdel == Request("hdel", Header \o VersionExpire \o <<Blob("key"), Blob("field")>>)
response_hdel == Response("hdel", Result)
request_hdel_dup == Dup("hdel", request_hdel, <<>>)
request_hexists == Request("hexists", Header \o <<Blob("key"), Blob("field")>>)
request_hget == Request("hget", Header \o <<Blob("key"), Blob("field")>>)
response_hget == Response("hget", value_body)
request_hgetall == Request("hgetall", Header \o <<Blob("key")>>)
response_hgetall == Response("hgetall", values_body)
request_hincrby == Request("hincrby", Header \o VersionExpire \o <<Blob("key"), Blob("field"), I64("addnum")>>)
response_hincrby == Response("hincrby", ResultNum)
request_hkeys == Receives("hkeys", Header \o <<Blob("key")>>)
response_hkeys == Sends("hkeys", values_body)
request_hvals == Receives("hvals", Header \o <<Blob("key")>>)
response_hvals == Sends("hvals", values_body)
request_hlen == Receives("hlen", Header \o <<Blob("key")>>)
response_hlen == Sends("hlen", ResultNum)
request_hmget == Request("hmget", Header \o <<Blob("key"), Vec("fields")>>)
response_hmget == Response("hmget", ResultVersion \o <<Vec("values")>>)
request_hmset == Request("hmset", Header \o VersionExpire \o <<Blob("key"), Vec("field_values")>>)
response_hmset == Response("hmset", Result \o <<I32("retnum")>>)
request_hmset_dup == Dup("hmset", request_hmset, <<>>)
hset_body == Header \o VersionExpire \o <<Blob("key"), Blob("field"), Blob("value")>>
request_hset == Request("hset", hset_body)
response_hset == Response("hset", Result)
\* Mutant: the copy constructor takes the value from the field.
request_hset_dup_swapped == Copied(Dup("hset", request_hset, <<>>), "value" :> "field")
request_hset_dup == Dup("hset", request_hset, <<>>)
request_hsetnx == Receives("hsetnx", hset_body)
response_hsetnx == Sends("hsetnx", Result)
request_hsetnx_dup == Dup("hsetnx", request_hsetnx, <<>>)

(* Sets.                                                                   *)
sadd_body == Header \o VersionExpire \o <<Blob("key"), Blob("value")>>
request_sadd == Request("sadd", sadd_body)
response_sadd == Response("sadd", Result)
request_sadd_dup == Dup("sadd", request_sadd, <<>>)
request_getset == Request("getset", sadd_body)
response_getset == Response("getset", value_body)
request_srem == Request("srem", sadd_body)
response_srem == Response("srem", Result)
request_srem_dup == Dup("srem", request_srem, <<>>)
\* The copy loop compares with the end of the wrong map and clones a new entry from itself.
request_sadd_multi == Copied(
    Request("saddmulti", Header \o <<I32("expire"), List("keys_values_map", <<Blob("key"), Vec("values")>>)>>),
    "keys_values_map" :> Undefined)
request_sadd_multi_dup == Dup("saddmulti", request_sadd_multi, <<>>)
request_srem_multi == [request_sadd_multi EXCEPT !.pcode[2] = "sremmulti"]
request_srem_multi_dup == Dup("sremmulti", request_srem_multi, <<>>)
request_smembers == Request("smembers", Header \o <<Blob("key")>>)
response_smembers == Response("smembers", values_body)
request_smembers_multi == Copied(Request("smembersmulti", Header \o <<Vec("keys")>>), "keys" :> Undefined)
response_smembers_multi == Response("smembersmulti", Result
    \o <<Cap("values_version_vec"), List("values_version_vec", <<I16("version"), Vec("values")>>)>>)
request_spop == Receives("spop", Header \o VersionExpire \o <<Blob("key")>>)
response_spop == Sends("spop", value_body)
request_spop_dup == Dup("spop", request_spop, <<>>)
request_scard == Receives("scard", Header \o <<Blob("key")>>)
response_scard == Sends("scard", ResultNum)

(* Sorted sets.                                                            *)
scored_body == ResultVersion \o <<Cap("values"), List("values", <<Blob("value"), Dbl("score")>>)>>
request_zadd == Request("zadd", Header \o VersionExpire \o <<Dbl("score"), Blob("key"), Blob("value")>>)
response_zadd == Response("zadd", Result)
request_zadd_dup == Dup("zadd", request_zadd, <<>>)
request_zcard == Request("zcard", Header \o <<Blob("key")>>)
response_zcard == Response("zcard", ResultNum)
request_zcount == Receives("zcount", Header \o <<Dbl("start"), Dbl("end"), Blob("key")>>)
response_zcount == Sends("zcount", ResultNum)
request_zincrby == Request("zincrby", Header \o VersionExpire \o <<Blob("key"), Blob("value"), Dbl("addscore")>>)
response_zincrby == Response("zincrby", Result \o <<Dbl("retnum")>>)
zrange_body == Header \o <<I32("start"), I32("end"), I32("withscore"), Blob("key")>>
request_zrange == Request("zrange", zrange_body)
response_zrange == Response("zrange", values_body)
response_zrangewithscore == Response("zrangewithscore", scored_body)
request_zrevrange == Receives("zrevrange", zrange_body)
response_zrevrange == Sends("zrevrange", values_body)
response_zrevrangewithscore == Sends("zrevrangewithscore", scored_body)
request_zrangebyscore == Request("zrangebyscore", Header \o <<Dbl("start"), Dbl("end"), Blob("key")>>)
response_zrangebyscore == Sends("zrangebyscore", values_body)
request_generic_zrangebyscore == Copied(
    Request("generic_zrangebyscore", Header \o <<Dbl("start"), Dbl("end"), Blob("key"), I32("reverse"),
        I32("limit"), I32("withscore")>>), "reverse" :> None)
response_generic_zrangebyscore == Counted(Response("generic_zrangebyscore", ResultVersion
    \o <<I32("scores"), Cap("values"), When("scores", {0}, <<Vec("values")>>),
         When("scores", Nat \ {0}, <<List("values", <<Blob("value"), Dbl("score")>>)>>)>>), {"scores"})
request_zrank == Copied(Receives("zrank", Header \o <<Blob("key"), Blob("value")>>), "value" :> None)
response_zrank == Sends("zrank", ResultNum)
request_zrevrank == Copied(Receives("zrevrank", Header \o <<Blob("key"), Blob("value")>>), "value" :> None)
response_zrevrank == Sends("zrevrank", ResultNum)
request_zscore == Receives("zscore", Header \o <<Blob("key"), Blob("value")>>)
response_zscore == Sends("zscore", Result \o <<Dbl("score")>>)
request_zrem == Request("zrem", sadd_body)
response_zrem == Response("zrem", Result)
request_zrem_dup == Dup("zrem", request_zrem, <<>>)
request_zremrangebyrank == Request("zremrangebyrank",
    Header \o VersionExpire \o <<I32("start"), I32("end"), Blob("key")>>)
response_zremrangebyrank == Response("zremrangebyrank", ResultNum)
request_zremrangebyrank_dup == Dup("zremrangebyrank", request_zremrangebyrank, <<>>)
request_zremrangebyscore == Request("zremrangebyscore",
    Header \o VersionExpire \o <<Dbl("start"), Dbl("end"), Blob("key")>>)
response_zremrangebyscore == Response("zremrangebyscore", ResultNum)
request_zremrangebyscore_dup == Dup("zremrangebyscore", request_zremrangebyscore, <<>>)

------------------------------------------------------------------------------
(* tair_packet_factory::_createPacket: the class built for a code.         *)

factory_base ==
    LET req(n, c) == <<"req", n>> :> c
        resp(n, c) == <<"resp", n>> :> c
    IN req("op_cmd", request_op_cmd) @@ resp("op_cmd", response_op_cmd) @@ req("put", request_put)
    @@ req("putnx", request_putnx) @@ req("get", request_get) @@ req("query_info", request_query_info)
    @@ req("remove", request_remove) @@ req("remove_area", request_remove_area)
    @@ req("lazy_remove_area", request_lazy_remove_area) @@ req("dump_area", request_dump_area)
    @@ req("load_area", request_load_area) @@ req("exists", request_exists) @@ req("hexists", request_hexists)
    @@ req("ping", request_ping) @@ req("dump", request_dump) @@ req("heartbeat", request_heartbeat)
    @@ req("incdec", request_inc_dec) @@ resp("return", response_return) @@ resp("get", response_get)
    @@ req("getset", request_getset) @@ resp("getset", response_getset)
    @@ resp("query_info", response_query_info) @@ resp("heartbeat", response_heartbeat)
    @@ resp("incdec", response_inc_dec) @@ req("get_group", request_get_group)
    @@ req("get_svrtab", request_get_server_table) @@ req("confhb", request_conf_heartbeart)
    @@ req("setmaster", request_set_master) @@ req("group_names", request_group_names)
    @@ resp("get_group", response_get_group) @@ resp("get_svrtab", response_get_server_table)
    @@ resp("group_names", response_group_names) @@ resp("duplicate", response_duplicate)
    @@ req("mig_finish", request_migrate_finish) @@ req("dataserver_ctrl", request_data_server_ctrl)
    @@ req("get_migrate_machine", request_get_migrate_machine)
    @@ resp("get_migrate_machine", response_get_migrate_machine) @@ req("expire", request_expire)
    @@ resp("expire", response_expire) @@ req("expireat", request_expireat)
    @@ resp("expireat", response_expireat) @@ req("persist", request_persist)
    @@ resp("persist", response_persist) @@ req("add_filter", request_addfilter)
    @@ req("remove_filter", request_removefilter)

factory_list ==
    LET req(n, c) == <<"req", n>> :> c
        resp(n, c) == <<"resp", n>> :> c
        push == [c \in {<<"req", n>> : n \in {"lpush", "rpush", "lpushx", "rpushx"}} |-> request_lrpush(c[2])]
        limit == [c \in {<<"req", n>> : n \in {"lpush_limit", "rpush_limit", "lpushx_limit", "rpushx_limit"}} |->
                     request_lrpush_limit(c[2])]
        pushed == [c \in {<<"resp", n>> : n \in {"lpush", "rpush", "lpushx", "rpushx"}} |-> response_lrpush(c[2])]
    IN push @@ limit @@ pushed @@ req("llen", request_llen) @@ resp("llen", response_llen)
    @@ req("lpop", request_lrpop("lpop")) @@ req("rpop", request_lrpop("rpop"))
    @@ resp("lpop", response_lrpop("lpop")) @@ resp("rpop", response_lrpop("rpop"))
    @@ req("lindex", request_lindex) @@ resp("lindex", response_lindex) @@ req("ltrim", request_ltrim)
    @@ resp("ltrim", response_ltrim) @@ req("lrange", request_lrange) @@ resp("lrange", response_lrange)
    @@ req("lrem", request_lrem) @@ resp("lrem", response_lrem) @@ req("lset", request_lset)
    @@ resp("lset", response_lset)

factory_hash ==
    LET req(n, c) == <<"req", n>> :> c
        resp(n, c) == <<"resp", n>> :> c
    IN req("hgetall", request_hgetall) @@ resp("hgetall", response_hgetall) @@ req("hincrby", request_hincrby)
    @@ resp("hincrby", response_hincrby) @@ req("hmset", request_hmset) @@ resp("hmset", response_hmset)
    @@ req("hset", request_hset) @@ resp("hset", response_hset) @@ req("hsetnx", request_hsetnx)
    @@ resp("hsetnx", response_hsetnx) @@ req("hget", request_hget) @@ resp("hget", response_hget)
    @@ req("hmget", request_hmget) @@ resp("hmget", response_hmget) @@ req("hdel", request_hdel)
    @@ resp("hdel", response_hdel) @@ req("hvals", request_hvals) @@ resp("hvals", response_hvals)
    @@ req("hkeys", request_hkeys) @@ resp("hkeys", response_hkeys) @@ req("hlen", request_hlen)
    @@ resp("hlen", response_hlen)

factory_set ==
    LET req(n, c) == <<"req", n>> :> c
        resp(n, c) == <<"resp", n>> :> c
    IN req("scard", request_scard) @@ resp("scard", response_scard) @@ req("smembers", request_smembers)
    @@ resp("smembers", response_smembers) @@ req("sadd", request_sadd) @@ resp("sadd", response_sadd)
    @@ req("spop", request_spop) @@ resp("spop", response_spop) @@ req("srem", request_srem)
    @@ resp("srem", response_srem) @@ req("saddmulti", request_sadd_multi)
    @@ req("sremmulti", request_srem_multi) @@ req("smembersmulti", request_smembers_multi)
    @@ resp("smembersmulti", response_smembers_multi)

factory_zset ==
    LET req(n, c) == <<"req", n>> :> c
        resp(n, c) == <<"resp", n>> :> c
    IN req("zscore", request_zscore) @@ resp("zscore", response_zscore) @@ req("zrange", request_zrange)
    @@ resp("zrange", response_zrange) @@ resp("zrangewithscore", response_zrangewithscore)
    @@ req("zrevrange", request_zrevrange) @@ resp("zrevrange", response_zrevrange)
    @@ resp("zrevrangewithscore", response_zrevrangewithscore) @@ req("zrangebyscore", request_zrangebyscore)
    @@ resp("zrangebyscore", response_zrangebyscore)
    @@ req("generic_zrangebyscore", request_generic_zrangebyscore)
    @@ resp("generic_zrangebyscore", response_generic_zrangebyscore) @@ req("zadd", request_zadd)
    @@ resp("zadd", response_zadd) @@ req("zrank", request_zrank) @@ resp("zrank", response_zrank)
    @@ req("zrevrank", request_zrevrank) @@ resp("zrevrank", response_zrevrank) @@ req("zcount", request_zcount)
    @@ resp("zcount", response_zcount) @@ req("zincrby", request_zincrby) @@ resp("zincrby", response_zincrby)
    @@ req("zcard", request_zcard) @@ resp("zcard", response_zcard) @@ req("zrem", request_zrem)
    @@ resp("zrem", response_zrem) @@ req("zremrangebyrank", request_zremrangebyrank)
    @@ resp("zremrangebyrank", response_zremrangebyrank) @@ req("zremrangebyscore", request_zremrangebyscore)
    @@ resp("zremrangebyscore", response_zremrangebyscore) @@ req("ttl", request_ttl)
    @@ resp("ttl", response_ttl) @@ req("type", request_type) @@ resp("type", response_type)

factory_dup ==
    LET dup(n, c) == <<"dup", n>> :> c
        push == [c \in {<<"dup", n>> : n \in {"lpush", "rpush", "lpushx", "rpushx"}} |-> request_lrpush_dup(c[2])]
    IN push @@ <<"req", "admin">> :> admin_packet_t @@ dup("put", request_put_dup)
    @@ dup("putnx", request_putnx_dup) @@ dup("remove", request_remove_dup)
    @@ dup("lpop", request_lrpop_dup("lpop")) @@ dup("rpop", request_lrpop_dup("rpop"))
    @@ dup("ltrim", request_ltrim_dup) @@ dup("lrem", request_lrem_dup) @@ dup("lset", request_lset_dup)
    @@ dup("hmset", request_hmset_dup) @@ dup("hset", request_hset_dup) @@ dup("hsetnx", request_hsetnx_dup)
    @@ dup("hdel", request_hdel_dup) @@ dup("spop", request_spop_dup) @@ dup("srem", request_srem_dup)
    @@ dup("sadd", request_sadd_dup) @@ dup("saddmulti", request_sadd_multi_dup)
    @@ dup("sremmulti", request_srem_multi_dup) @@ dup("zadd", request_zadd_dup) @@ dup("zrem", request_zrem_dup)
    @@ dup("zremrangebyrank", request_zremrangebyrank_dup)
    @@ dup("zremrangebyscore", request_zremrangebyscore_dup)

\* The classes that set a code in their constructor, and the class the factory builds for it.
Built == factory_base @@ factory_list @@ factory_hash @@ factory_set @@ factory_zset @@ factory_dup
\* Mutant: a case builds the class of the command next to it.
FactoryMixed == <<"req", "zrank">> :> request_zrevrank @@ Built
Factory == Built

\* The classes for which the factory has no case.
NotBuilt ==
    LET req(n, c) == <<"req", n>> :> c
        resp(n, c) == <<"resp", n>> :> c
    IN req("mupdate", request_mupdate) @@ req("dump_bucket", request_dump_bucket) @@ req("info", request_info)
    @@ resp("info", response_info) @@ resp("mreturn", response_mreturn)
    @@ resp("mreturn_dup", response_mreturn_dup) @@ req("duplicate", request_duplicate)
    @@ <<"dup", "lpush_limit">> :> request_lrpush_limit_dup("lpush_limit")
    @@ <<"dup", "rpush_limit">> :> request_lrpush_limit_dup("rpush_limit")
PacketClass == Built @@ NotBuilt
==============================================================================
