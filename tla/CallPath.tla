------------------------------ MODULE CallPath ------------------------------
(***************************************************************************)
(* The path of a call: the client, the data server that is the master of   *)
(* the key, one copy, and the config server for the client's table.        *)
(*                                                                         *)
(* Calls are made one after the other by one thread of the client; each    *)
(* has an id, that of its wait object.  Requests of other programs (the    *)
(* classes that the C++ client has no call for, and the records of a       *)
(* migration) take the same path up to the answer.                         *)
(***************************************************************************)
EXTENDS ClientApi, FiniteSets

CONSTANT
  Loads        \* the server and the calls of a behaviour, one chosen at the start

VARIABLES
  load,      \* constant: [calls, server, tables]
  server,    \* [working, ver]: status and heartbeat version of the data server
  conf,      \* the version of the config server's table
  client,    \* [cv, ncv, alarm, alive, hint, undone]: see ClientInit
  wait,      \* the wait object: [id, live, got, ver]
  inbox,     \* the request on its way to the server, or waiting for a worker
  update,    \* the updates on their way to the copy
  node,      \* the wait nodes of the duplicator
  wire,      \* answers on their way, in the order posted
  group,     \* answers of the config server on their way
  log        \* per call: what was asked, what the server did, what was returned

vars == <<load, server, conf, client, wait, inbox, update, node, wire, group, log>>

None == [id |-> 0]

\* config_version, new_config_version, send_fail_count at its limit; whether
\* the process runs; the newest version an answer told it of, and whether an
\* older table that came after it put new_config_version back.
ClientInit == [cv |-> 10, ncv |-> 10, alarm |-> FALSE, alive |-> TRUE, hint |-> 10,
               undone |-> FALSE]

Idle == [id |-> 0, live |-> FALSE, got |-> NoReply, ver |-> 0]

Init ==
  /\ load \in Loads
  /\ server = [working |-> load.server.working, ver |-> 10]
  /\ conf = 10
  /\ client = ClientInit
  /\ wait = Idle
  /\ inbox = None /\ update = {} /\ node = {}
  /\ wire = <<>> /\ group = <<>>
  /\ log = <<>>

-----------------------------------------------------------------------------
(* The client. *)

\* The record of a call: posted counts the answers the server made, returned is
\* the code the caller got, took the answer it came from.
NewCall(call) ==
  [name |-> call.name, op |-> call.op, a |-> call.a, flag |-> call.flag, h |-> Nothing,
   served |-> FALSE, ready |-> TRUE, posted |-> 0, acked |-> FALSE, settled |-> FALSE,
   returned |-> "none", took |-> NoReply]

Returned1(i, out, p) ==
  log' = [log EXCEPT ![i].returned = out.ret, ![i].took = p]

\* A call: the checks, create_wait_object, send_request.
Call ==
  LET n    == Len(log) + 1
      call == load.calls[n]
      out  == Api(call.name, call.a, NoReply)
  IN /\ client.alive /\ ~wait.live /\ inbox = None
     /\ n <= Len(load.calls)
     /\ call.name \in ApiCalls
     /\ \/ /\ out.check # "SUCCESS"
           /\ log' = Append(log, [NewCall(call) EXCEPT !.returned = out.check])
           /\ UNCHANGED <<wait, inbox>>
        \/ /\ out.check = "SUCCESS"
           /\ log' = Append(log, NewCall(call))
           /\ wait' = [Idle EXCEPT !.id = n, !.live = TRUE]
           /\ inbox' = [id |-> n]
     /\ UNCHANGED <<load, server, conf, client, update, node, wire, group>>

\* A request that no call of this client makes.
OtherRequest ==
  LET n == Len(log) + 1 IN
  /\ inbox = None /\ ~wait.live
  /\ n <= Len(load.calls)
  /\ load.calls[n].name \notin ApiCalls
  /\ log' = Append(log, NewCall(load.calls[n]))
  /\ inbox' = [id |-> n]
  /\ UNCHANGED <<load, server, conf, client, wait, update, node, wire, group>>

Deliver_anyId ==
  /\ wire # <<>>
  /\ wire' = Tail(wire)
  /\ wait' = IF wait.live /\ wait.got = NoReply
             THEN [wait EXCEPT !.got = wire[1].p, !.ver = wire[1].ver] ELSE wait
  /\ UNCHANGED <<load, server, conf, client, inbox, update, node, group, log>>

\* handlePacket and wakeup_wait_object: an answer whose wait object is gone is
\* deleted; get_packet gives the first of several.
Deliver ==
  /\ wire # <<>>
  /\ wire' = Tail(wire)
  /\ wait' = IF wait.live /\ wait.id = wire[1].id /\ wait.got = NoReply
             THEN [wait EXCEPT !.got = wire[1].p, !.ver = wire[1].ver] ELSE wait
  /\ UNCHANGED <<load, server, conf, client, inbox, update, node, group, log>>

\* wait_done returns, with an answer or without, and the call looks at what it has.
Finished(p) ==
  LET i   == wait.id
      out == Api(log[i].name, log[i].a, p)
      ncv == IF out.learns THEN wait.ver ELSE client.ncv
  IN /\ Returned1(i, out, p)
     /\ wait' = Idle
     /\ client' = [client EXCEPT
          !.ncv = ncv, !.alarm = @ \/ out.alarm, !.alive = ~out.crash,
          !.hint = IF out.learns /\ wait.ver > @ THEN wait.ver ELSE @,
          !.undone = IF out.learns /\ wait.ver >= client.hint THEN FALSE ELSE @]

Return ==
  /\ wait.live /\ wait.got # NoReply
  /\ Finished(wait.got)
  /\ UNCHANGED <<load, server, conf, inbox, update, node, wire, group>>

TimeOut ==
  /\ wait.live /\ wait.got = NoReply
  /\ Finished(NoReply)
  /\ UNCHANGED <<load, server, conf, inbox, update, node, wire, group>>

Ask_onAlarmOnly ==
  /\ client.alive /\ Len(group) < 2
  /\ client.alarm
  /\ group' = Append(group, conf)
  /\ client' = [client EXCEPT !.alarm = FALSE]
  /\ UNCHANGED <<load, server, conf, wait, inbox, update, node, wire, log>>

\* One round of tair_client_impl::run, with the config server's answer.  At
\* most two answers are on their way.
Ask ==
  /\ client.alive /\ Len(group) < 2
  /\ client.cv # client.ncv \/ client.alarm
  /\ group' = Append(group, conf)
  /\ client' = [client EXCEPT !.alarm = FALSE]
  /\ UNCHANGED <<load, server, conf, wait, inbox, update, node, wire, log>>

\* The answer with id 0: both versions become that of the table that came.
TakeTable ==
  /\ client.alive /\ group # <<>>
  /\ group' = Tail(group)
  /\ client' = [client EXCEPT !.cv = group[1], !.ncv = group[1],
                              !.undone = @ \/ group[1] < client.hint]
  /\ UNCHANGED <<load, server, conf, wait, inbox, update, node, wire, log>>

-----------------------------------------------------------------------------
(* The data server and the copy. *)

Post(i, h, ver) == wire \o [k \in 1..Len(h.posts) |-> [id |-> i, p |-> h.posts[k], ver |-> ver]]

\* What the request handler finds: the request, the server, and the choices.
Context(e, ch) ==
  [op |-> e.op, working |-> server.working, still |-> ch.still,
   localmode |-> load.server.localmode, migrated |-> load.server.migrated, self |-> FALSE,
   hash |-> e.a.hash, flag |-> e.flag, key |-> e.a.key, val |-> e.a.val,
   values |-> e.a.values, store |-> ch.store, addcount |-> TRUE, native |-> load.server.native,
   dup |-> ch.dup, sync |-> load.server.sync, score |-> e.a.score, reverse |-> e.a.score,
   config |-> e.a.score, several |-> e.a.keys > 1, record |-> e.a.record]

\* The codes that the engine has for an operation.
AddOps  == {"hset", "hmset", "zadd", "sadd", "sadd_multi", "lrpush", "lrpush_limit"}
Codes(op) == {"SUCCESS", "DATA_NOT_EXIST", "VERSION_ERROR"}
             \cup (IF op \in AddOps THEN {"ALREADY_EXIST", "DATA_LEN_LIMITED"} ELSE {})

\* The status may be taken away between the two looks at it.
Choices(e) ==
  [still : IF server.working /\ load.server.falls THEN BOOLEAN ELSE {server.working},
   store : [1..IF e.op = "inc_dec" THEN 2 ELSE e.a.keys -> Codes(e.op)],
   dup   : IF load.server.busy THEN {"ok", "send", "DUPLICATE_BUSY"} ELSE {"ok"}]

\* A worker takes the request and handles it to the end.
Serve ==
  /\ inbox # None
  /\ LET i == inbox.id
         e == log[i] IN
     \E ch \in Choices(e) :
       LET h == handlePacketQueue(Context(e, ch)) IN
       /\ log' = [log EXCEPT ![i].served = TRUE, ![i].h = h, ![i].posted = Len(h.posts),
                             ![i].ready = server.working, ![i].settled = h.node = NoNode]
       /\ wire' = Post(i, h, server.ver)
       /\ node' = IF h.node = NoNode THEN node
                  ELSE node \cup {[id |-> i, p |-> h.node, ver |-> server.ver]}
       /\ update' = IF h.told /\ load.server.slaves > 0 THEN update \cup {i} ELSE update
       /\ server' = [server EXCEPT !.working = ch.still]
  /\ inbox' = None
  /\ UNCHANGED <<load, conf, client, wait, group>>

\* The task queue is full: the packet is freed, and nothing is answered.
Refuse1 ==
  /\ inbox # None
  /\ log' = [log EXCEPT ![inbox.id].settled = TRUE]
  /\ inbox' = None
  /\ UNCHANGED <<load, server, conf, client, wait, update, node, wire, group>>

\* The copy handles an update; an acknowledgement completes the wait node and
\* posts the answer.  After the node expired it is too late.
CopyHandles ==
  \E i \in update : \E works \in BOOLEAN,
    store \in [1..log[i].a.keys -> {"SUCCESS", "DATA_NOT_EXIST", "ALREADY_EXIST"}] :
    LET e    == log[i]
        h    == DispatchCopies([Context(e, [still |-> works, store |-> store, dup |-> "ok"])
                                  EXCEPT !.working = works, !.flag = "duplicate"])
        done == {n \in node : n.id = i /\ h.posts # <<>> /\ h.posts[1].class = "duplicate"}
    IN /\ ~works => load.server.falls
       /\ update' = update \ {i}
       /\ node' = node \ done
       /\ \/ /\ done = {}
             /\ UNCHANGED <<log, wire>>
          \/ \E n \in done :
               /\ log' = [log EXCEPT ![i].acked = TRUE, ![i].posted = @ + 1, ![i].settled = TRUE]
               /\ wire' = Append(wire, [id |-> i, p |-> n.p, ver |-> n.ver])
       /\ UNCHANGED <<load, server, conf, client, wait, inbox, group>>

\* A wait node expires; the client is not told.
NodeExpires ==
  \E n \in node :
    /\ log' = [log EXCEPT ![n.id].settled = TRUE]
    /\ node' = node \ {n}
    /\ UNCHANGED <<load, server, conf, client, wait, inbox, update, wire, group>>

\* A new table, first at the config server and then, by a heartbeat, at the
\* data server.
NewTable ==
  /\ load.tables /\ conf = 10
  /\ conf' = 11
  /\ UNCHANGED <<load, server, client, wait, inbox, update, node, wire, group, log>>

Heartbeat ==
  /\ server.ver # conf
  /\ server' = [server EXCEPT !.ver = conf]
  /\ UNCHANGED <<load, conf, client, wait, inbox, update, node, wire, group, log>>

Next ==
  \/ Call \/ OtherRequest \/ Deliver \/ Return \/ TimeOut \/ Ask \/ TakeTable
  \/ Serve \/ Refuse1 \/ CopyHandles \/ NodeExpires \/ NewTable \/ Heartbeat

\* The client's threads and the network go on; what the environment may do to
\* disturb them need never happen.
Fairness == WF_vars(Ask) /\ WF_vars(TakeTable) /\ WF_vars(Return) /\ WF_vars(Deliver)

Spec == Init /\ [][Next]_vars /\ Fairness

-----------------------------------------------------------------------------
(* Properties. *)

\* Once a request has been handled and no wait node is left for it, the server
\* has answered it exactly once.  Exceptions of the code: lrem answers at once
\* and again when the copy has acknowledged; a get is not answered by a server
\* that does not work (handlePacketQueue clears send_return for it); a write
\* whose handler had cleared send_return is not answered if duplicate_data
\* fails; nor is one whose wait node expires.
AnsweredOnce ==
  \A i \in 1..Len(log) :
    LET e == log[i] IN
    e.served /\ e.settled =>
      e.posted = IF e.op = "lrem" /\ e.ready /\ e.h.calls # <<>>
                 THEN IF e.acked THEN 2 ELSE 1
                 ELSE IF \/ e.op = "get" /\ ~e.ready
                         \/ e.h.node # NoNode /\ ~e.acked
                         \/ /\ e.h.ret = "DUPLICATE_BUSY"
                            /\ e.op \notin {"put", "putnx", "remove", "lset"}
                      THEN 0 ELSE 1

\* The writes whose handlers never call the duplicator.
NeverCopied == {"expire", "expireat", "persist", "hincrby", "zincrby", "getset", "inc_dec",
                "lazy_remove_area", "load_area", "mupdate"}

WriteOps == NeverCopied \cup {"put", "putnx", "remove", "lrpop", "lrpush", "lrpush_limit", "lset",
  "ltrim", "lrem", "hmset", "hset", "hsetnx", "hdel", "sadd", "srem", "spop", "sadd_multi",
  "srem_multi", "zadd", "zrem", "zremrangebyrank", "zremrangebyscore"}

\* A call of the engine that changed the record although its code is not a
\* success: a field or a member that was there got a new value, or a push or an
\* hmset was cut short at the size limit.
ChangedAnyway(op, code) ==
  \/ op \in {"hset", "zadd"} /\ code = "ALREADY_EXIST"
  \/ op \in {"lrpush", "lrpush_limit", "hmset"} /\ code = "DATA_LEN_LIMITED"

\* Every write of a client that the engine accepted is passed on to the copy,
\* or the client is told that it was not (or is told nothing).  Exceptions: the
\* handlers that never call the duplicator, the changes reported by another
\* code than success, and the lists of members whose last one was nothing new.
CopiesTold ==
  \A i \in 1..Len(log) :
    LET e == log[i] IN
    /\ e.served /\ e.op \in WriteOps \ NeverCopied /\ e.flag = "client"
    /\ \E k \in 1..Len(e.h.calls) : e.h.calls[k].stored > 0 /\ e.h.calls[k].rc = "SUCCESS"
    => \/ e.h.told
       \/ e.h.ret = "DUPLICATE_BUSY"
       \/ /\ e.op \in {"sadd_multi", "srem_multi", "remove"}
          /\ e.h.calls[Len(e.h.calls)].rc # "SUCCESS"

\* A call that returns success was carried out by the server, each of its parts
\* with success, and if it is a write that is duplicated, the copy acknowledged
\* it - also when an earlier call timed out and its answer comes late.
\* Exceptions: mget and mdelete return the number of answers, 0, when none
\* came; lrpush returns 0 for an answer of another class, so for every
\* response_return; remove_area does not look into the answer.
ResultsTrue ==
  \A i \in 1..Len(log) :
    LET e == log[i] IN
    e.returned = "SUCCESS" =>
      \/ /\ e.served
         /\ \A k \in 1..Len(e.h.calls) : e.h.calls[k].rc = "SUCCESS"
         /\ e.op \in WriteOps \ NeverCopied => e.acked
      \/ e.name \in {"mget", "mdelete"} /\ e.took = NoReply
      \/ e.name = "lrpush" /\ (e.took.class = "return" \/ e.a.values = 0)
      \/ e.name = "remove_area"

\* The client's process survives its calls, except: the list calls of the older
\* style, when a server that does not work answers with a response_return, and
\* an mget none of whose keys the server has.
ClientSurvives ==
  client.alive \/ \E i \in 1..Len(log) :
    LET e == log[i] IN
    \/ /\ e.name \in {"lrpop", "lindex", "lrange", "lset", "llen", "ltrim"}
       /\ e.took = Reply("return", "SERVER_CAN_NOT_WORK", 0)
    \/ e.name = "mget" /\ e.a.keys > 1 /\ e.took.val = 0

\* What the client lets through is not refused for its size by the server,
\* except a value of lset and a member of srem, which the client does not
\* check; and the record of a key that put accepts is refused by the server it
\* migrates to only if its area makes the key too long.
SizesAgree ==
  \A i \in 1..Len(log) :
    LET e == log[i] IN
    (\E k \in 1..Len(e.h.calls) : e.h.calls[k].rc = "ITEMSIZE_ERROR") =>
      \/ e.name \in {"lset", "srem"}
      \/ e.name \notin ApiCalls /\ e.op # "mupdate"
      \/ e.op = "mupdate" /\ e.a.key + 2 >= KeyMax

\* What the client's calls return is true to what the servers did, and they
\* return: ResultsTrue and ClientSurvives, each with the exceptions named there.
CallsTrue == ResultsTrue /\ ClientSurvives

\* A client that an answer told of a newer table comes to use that table, unless
\* it died, or the answer to an earlier question of its own, with an older
\* table, came later and set new_config_version back.
TableRefreshed ==
  <>[](client.cv >= client.hint \/ client.undone \/ ~client.alive)

=============================================================================
