------------------------------ MODULE DupSync ------------------------------
(***************************************************************************)
(* Synchronous duplication in a Tair data server                           *)
(* (dataserver/dup_sync_manager.cpp), with the tail of the request         *)
(* handlers that call it (request_processor.cpp, tair_server.cpp).         *)
(*                                                                         *)
(* The master of a bucket applies a client's write, registers a wait node  *)
(* under a packet id, sends the write to the slaves of the bucket, and     *)
(* answers the client when every slave has acknowledged.                   *)
(*                                                                         *)
(*   worker threads   run duplicate_data; the wait map is locked once to   *)
(*                    check its size, again to insert, again to clear      *)
(*   network thread   runs handlePacket on an answer of a slave            *)
(*   timeout thread   runs handlePacket on a channel that expired          *)
(*                                                                         *)
(* A channel is opened per packet sent and closed by its answer or by its  *)
(* timeout, whichever comes first; the network layer drops an answer       *)
(* whose channel is closed.                                                *)
(*                                                                         *)
(* The 21 overloads of duplicate_data differ in the packet they build and  *)
(* in the result they keep for the answer, neither of which matters here.  *)
(***************************************************************************)
EXTENDS Integers, FiniteSets, Sequences

CONSTANTS
  Request,       \* writes sent by clients, each handled once
  Kind,          \* the handler of each request, see below
  Bucket,
  BucketOf,      \* the bucket of a request's key
  Server,        \* the other data servers
  SlaveLists,    \* what get_slaves may return: the slaves of a bucket
  MayStop,       \* the servers among them that set_solitary may have stopped
  Threads,       \* worker_thread_count
  IdMod,         \* packet ids are uint32_t: 2^32
  LastIds,       \* the last id given out to earlier writes, all over by now
  MAX_DUP_COUNT,          \* the slots of a wait node
  TAIR_MAX_DUP_MAP_SIZE

(***************************************************************************)
(* The handlers of request_processor.cpp differ in how they end:           *)
(*   put   (put, putnx, remove, lset) leave send_return set: an error of   *)
(*         duplicate_data is sent to the client                            *)
(*   hset  (the others) clear send_return: nothing is sent                 *)
(*   lrem  answers at once, whatever duplicate_data returned               *)
(***************************************************************************)
Kinds == {"put", "hset", "lrem"}

ASSUME DupAssumption ==
  /\ IsFiniteSet(Request)
  /\ Kind \in [Request -> Kinds]
  /\ BucketOf \in [Request -> Bucket]
  /\ MayStop \subseteq Server
  /\ IsFiniteSet(Server)
  /\ SlaveLists \subseteq Seq(Server)
  /\ \A list \in SlaveLists : \A i, j \in 1 .. Len(list) :
        list[i] = list[j] => i = j
  /\ Threads \in Nat \ {0}
  /\ IdMod \in Nat \ {0}
  /\ LastIds \subseteq 0 .. IdMod - 1
  /\ MAX_DUP_COUNT \in Nat \ {0}
  /\ TAIR_MAX_DUP_MAP_SIZE \in Nat

\* A bucket has no more slaves than a node has slots, and the ids do not come
\* round: the counter has 32 bits, a write moves it at most twice, and its node is
\* gone after seconds.
ASSUME IdsAssumption ==
  /\ \A list \in SlaveLists : Len(list) <= MAX_DUP_COUNT
  /\ 2 * MAX_DUP_COUNT * Cardinality(Request) <= IdMod

VARIABLES
  packet_id_creater, \* the last packet id given out
  m_PkgWaitMap,      \* the wait nodes: id, request, slaves still awaited
  m_bucket_count,    \* wait nodes of each bucket
  task,              \* the handler of each request
  channels,          \* <<request, server>>: sent, not answered nor expired
  wire,              \* duplicate packets on their way to a slave
  answers,           \* answers on their way back
  clearing,          \* the channel whose timeout is being handled
  stored,            \* <<request, server>>: the slave has the write
  replies,           \* what was sent to the client of each request
  expired            \* history: requests that had a channel time out

vars == << packet_id_creater, m_PkgWaitMap, m_bucket_count, task, channels,
           wire, answers, clearing, stored, replies, expired >>

mapVars == << m_PkgWaitMap, m_bucket_count >>
netVars == << channels, wire, answers, clearing, stored, expired >>

----------------------------------------------------------------------------
(***************************************************************************)
(* A handler: where it stands, its packet id, its slaves, how many packets *)
(* it has sent and what duplicate_data returns.                            *)
(***************************************************************************)
Running == {"draw_again", "check", "insert", "send", "clear", "finish"}
Codes == {"ok", "wait", "busy", "idmixed", "failed"}

Queued == [pc |-> "queued", id |-> 0, slaves |-> << >>, sent |-> 0,
           code |-> "ok"]

Init ==
  /\ packet_id_creater \in LastIds
  /\ m_PkgWaitMap = {}
  /\ m_bucket_count = [b \in Bucket |-> 0]
  /\ task = [r \in Request |-> Queued]
  /\ channels = {}
  /\ wire = {}
  /\ answers = {}
  /\ clearing = {}
  /\ stored = {}
  /\ replies = [r \in Request |-> << >>]
  /\ expired = {}

NodesAt(id) == {n \in m_PkgWaitMap : n.id = id}

Servers(list) == {list[i] : i \in 1 .. Len(list)}

\* Mutant: one slot too few.
NewNode_OneLess(r) ==
  LET list == task[r].slaves IN
  [id |-> task[r].id, req |-> r,
   waits |-> {list[i] : i \in {j \in 1 .. Len(list) : j < MAX_DUP_COUNT}}]

\* CPacket_wait_Nodes: only MAX_DUP_COUNT slaves are written down.
NewNode(r) ==
  LET list == task[r].slaves IN
  [id |-> task[r].id, req |-> r,
   waits |-> {list[i] : i \in {j \in 1 .. Len(list) : j <= MAX_DUP_COUNT}}]

changeBucketCount(b, number) ==
  [m_bucket_count EXCEPT ![b] = IF @ + number < 0 THEN 0 ELSE @ + number]

Reply(r, code) == replies' = [replies EXCEPT ![r] = Append(@, code)]

Goto(r, pc) == task' = [task EXCEPT ![r].pc = pc]
Return(r, code) == task' = [task EXCEPT ![r].pc = "finish", ![r].code = code]

\* Mutant: the node is erased, the count is left.
clear_waitnode_KeepsCount(id) ==
  /\ m_PkgWaitMap' = m_PkgWaitMap \ NodesAt(id)
  /\ UNCHANGED m_bucket_count

(***************************************************************************)
(* clear_waitnode, under one hold of the write lock.                       *)
(***************************************************************************)
clear_waitnode(id) ==
  \/ /\ NodesAt(id) = {}
     /\ UNCHANGED mapVars
  \/ \E n \in NodesAt(id) :
       /\ m_PkgWaitMap' = m_PkgWaitMap \ {n}
       /\ m_bucket_count' = changeBucketCount(BucketOf[n.req], -1)
----------------------------------------------------------------------------
(***************************************************************************)
(* Worker threads.                                                         *)
(***************************************************************************)
IdleThread == Cardinality({q \in Request : task[q].pc \in Running}) < Threads

\* The write fails locally: every kind of handler answers with the error.
LocalFails(r) ==
  /\ task[r].pc = "queued"
  /\ IdleThread
  /\ task' = [task EXCEPT ![r].pc = "done", ![r].code = "failed"]
  /\ Reply(r, "failed")
  /\ UNCHANGED << packet_id_creater, mapVars, netVars >>

\* Mutant: the counter does not wrap around.
DrawId_NoWrap(r) ==
  /\ task[r].pc = "queued"
  /\ IdleThread
  /\ \E list \in SlaveLists :
       LET id == packet_id_creater + Len(list) IN
       /\ packet_id_creater' = id
       /\ task' = [task EXCEPT ![r] =
                     [pc |-> "check", id |-> id, slaves |-> list,
                      sent |-> 0, code |-> "ok"]]
  /\ UNCHANGED << mapVars, netVars, replies >>

\* Mutant: the counter is read and written without atomic_add_return, so that the
\* value drawn may be written over.
DrawId_Lost(r) ==
  /\ task[r].pc = "queued"
  /\ IdleThread
  /\ \E list \in SlaveLists :
       LET id == (packet_id_creater + Len(list)) % IdMod IN
       /\ packet_id_creater' \in {id, packet_id_creater}
       /\ task' = [task EXCEPT ![r] =
                     [pc |-> IF id = 0 THEN "draw_again" ELSE "check",
                      id |-> id, slaves |-> list, sent |-> 0, code |-> "ok"]]
  /\ UNCHANGED << mapVars, netVars, replies >>

\* The write is applied; duplicate_data looks up the slaves and draws an id.
DrawId(r) ==
  /\ task[r].pc = "queued"
  /\ IdleThread
  /\ \E list \in SlaveLists :
       LET id == (packet_id_creater + Len(list)) % IdMod IN
       /\ packet_id_creater' = id
       /\ task' = [task EXCEPT ![r] =
                     [pc |-> IF id = 0 THEN "draw_again" ELSE "check",
                      id |-> id, slaves |-> list, sent |-> 0, code |-> "ok"]]
  /\ UNCHANGED << mapVars, netVars, replies >>

\* packet_id == 0: the counter is moved on, the id drawn is kept.
DrawAgain(r) ==
  /\ task[r].pc = "draw_again"
  /\ packet_id_creater' = (packet_id_creater + Len(task[r].slaves)) % IdMod
  /\ Goto(r, "check")
  /\ UNCHANGED << mapVars, netVars, replies >>

\* Mutant: the limit is off by one.
MapFull_OneMore == Cardinality(m_PkgWaitMap) > TAIR_MAX_DUP_MAP_SIZE + 1

MapFull == Cardinality(m_PkgWaitMap) > TAIR_MAX_DUP_MAP_SIZE

\* addWaitNode, first part: the size is read under the read lock.
CheckSize(r) ==
  /\ task[r].pc = "check"
  /\ IF MapFull THEN Return(r, "busy") ELSE Goto(r, "insert")
  /\ UNCHANGED << packet_id_creater, mapVars, netVars, replies >>

\* addWaitNode, second part, under the write lock.
Insert(r) ==
  /\ task[r].pc = "insert"
  /\ IF NodesAt(task[r].id) # {}
     THEN Return(r, "idmixed") /\ UNCHANGED mapVars
     ELSE /\ Goto(r, "send")
          /\ m_PkgWaitMap' = m_PkgWaitMap \cup {NewNode(r)}
          /\ m_bucket_count' = changeBucketCount(BucketOf[r], 1)
  /\ UNCHANGED << packet_id_creater, netVars, replies >>

\* The loop over the slaves: sendPacket to the next one succeeds.
Send(r) ==
  /\ task[r].pc = "send"
  /\ task[r].sent < Len(task[r].slaves)
  /\ LET c == << r, task[r].slaves[task[r].sent + 1] >> IN
     /\ channels' = channels \cup {c}
     /\ wire' = wire \cup {c}
  /\ task' = [task EXCEPT ![r].sent = @ + 1]
  /\ UNCHANGED << packet_id_creater, mapVars, answers, clearing, stored,
                  replies, expired >>

\* sendPacket fails: queue limit reached or no connection.
SendFails(r) ==
  /\ task[r].pc = "send"
  /\ task[r].sent < Len(task[r].slaves)
  /\ Goto(r, "clear")
  /\ UNCHANGED << packet_id_creater, mapVars, netVars, replies >>

\* Mutant: the node is left behind.
ClearAfterFailure_Forgets(r) ==
  /\ task[r].pc = "clear"
  /\ Return(r, "busy")
  /\ UNCHANGED << packet_id_creater, mapVars, netVars, replies >>

ClearAfterFailure(r) ==
  /\ task[r].pc = "clear"
  /\ clear_waitnode(task[r].id)
  /\ Return(r, "busy")
  /\ UNCHANGED << packet_id_creater, netVars, replies >>

AllSent(r) ==
  /\ task[r].pc = "send"
  /\ task[r].sent = Len(task[r].slaves)
  /\ Return(r, "wait")
  /\ UNCHANGED << packet_id_creater, mapVars, netVars, replies >>

\* Mutant: a put is answered before its slaves have acknowledged.
AnswersNow_Always(kind, code) == kind \in {"put", "lrem"}

\* Mutant: a put answers once its node is gone, which rspPacket has done already.
AnswersNow_NothingWaits(kind, code) ==
  \/ kind = "lrem"
  \/ kind = "put" /\ (code # "wait" \/ m_PkgWaitMap = {})

\* Mutant: the error of duplicate_data is swallowed.
AnswersNow_NoError(kind, code) == kind = "lrem"

\* Does the handler, with the tail of handlePacketQueue, answer the client?
AnswersNow(kind, code) ==
  \/ kind = "lrem"
  \/ kind = "put" /\ code # "wait"

Finish(r) ==
  /\ task[r].pc = "finish"
  /\ Goto(r, "done")
  /\ IF AnswersNow(Kind[r], task[r].code)
     THEN Reply(r, task[r].code)
     ELSE UNCHANGED replies
  /\ UNCHANGED << packet_id_creater, mapVars, netVars >>
----------------------------------------------------------------------------
(***************************************************************************)
(* A slave handles a duplicate packet.  It acknowledges a write that       *)
(* succeeded.  A write that fails has no answer, which the master cannot   *)
(* tell from a packet that is never handled.  A slave that is not working  *)
(* sends an ordinary return packet.  An answer to a closed channel is      *)
(* dropped.                                                                *)
(***************************************************************************)
Answer(c, type) ==
  answers' = answers \cup {[chan |-> d, type |-> type] : d \in channels \cap {c}}

SlaveStores(c) ==
  /\ wire' = wire \ {c}
  /\ stored' = stored \cup {c}
  /\ Answer(c, "ack")
  /\ UNCHANGED << packet_id_creater, mapVars, task, channels, clearing,
                  replies, expired >>

SlaveRefuses(c) ==
  /\ c[2] \in MayStop
  /\ wire' = wire \ {c}
  /\ Answer(c, "return")
  /\ UNCHANGED << packet_id_creater, mapVars, task, channels, clearing,
                  stored, replies, expired >>
----------------------------------------------------------------------------
(***************************************************************************)
(* The network thread: handlePacket on an answer.  doResponse takes the    *)
(* slave off the node under the write lock; the thread that took the last  *)
(* one off owns the node, and rspPacket answers the client.                *)
(***************************************************************************)
doResponse(id, b, s) ==
  \/ /\ \A n \in NodesAt(id) : s \notin n.waits      \* DELAY, REACK
     /\ UNCHANGED << mapVars, replies >>
  \/ \E n \in NodesAt(id) :
       /\ s \in n.waits
       /\ \/ /\ n.waits # {s}                        \* ACK_WAIT
             /\ m_PkgWaitMap' = (m_PkgWaitMap \ {n})
                                  \cup {[n EXCEPT !.waits = @ \ {s}]}
             /\ UNCHANGED << m_bucket_count, replies >>
          \/ /\ n.waits = {s}
             /\ m_PkgWaitMap' = m_PkgWaitMap \ {n}
             /\ m_bucket_count' = changeBucketCount(b, -1)
             /\ Reply(n.req, "ok")

HandleAck(a) ==
  LET r == a.chan[1] IN
  /\ a.type = "ack"
  /\ answers' = answers \ {a}
  /\ channels' = channels \ {a.chan}
  /\ doResponse(task[r].id, BucketOf[r], a.chan[2])
  /\ UNCHANGED << packet_id_creater, task, wire, clearing, stored, expired >>

\* Any other packet is freed; its channel is closed all the same.
HandleUnknown(a) ==
  /\ a.type = "return"
  /\ answers' = answers \ {a}
  /\ channels' = channels \ {a.chan}
  /\ UNCHANGED << packet_id_creater, mapVars, task, wire, clearing, stored,
                  replies, expired >>
----------------------------------------------------------------------------
(***************************************************************************)
(* The timeout thread: doTimeout looks for the node under the read lock    *)
(* and clears it under the write lock.  The client is not told.            *)
(***************************************************************************)
\* Mutant: the timeout is only logged.
Timeout_LogOnly(c) ==
  /\ clearing = {}
  /\ channels' = channels \ {c}
  /\ answers' = {a \in answers : a.chan # c}
  /\ expired' = expired \cup {c[1]}
  /\ UNCHANGED << packet_id_creater, mapVars, task, wire, clearing, stored,
                  replies >>

Timeout(c) ==
  /\ clearing = {}
  /\ channels' = channels \ {c}
  /\ answers' = {a \in answers : a.chan # c}
  /\ expired' = expired \cup {c[1]}
  /\ clearing' = IF NodesAt(task[c[1]].id) = {} THEN {} ELSE {c}
  /\ UNCHANGED << packet_id_creater, mapVars, task, wire, stored, replies >>

TimeoutClear(c) ==
  /\ clear_waitnode(task[c[1]].id)
  /\ clearing' = {}
  /\ UNCHANGED << packet_id_creater, task, channels, wire, answers, stored,
                  replies, expired >>
----------------------------------------------------------------------------
Worker(r) ==
  \/ LocalFails(r)
  \/ DrawId(r)
  \/ DrawAgain(r)
  \/ CheckSize(r)
  \/ Insert(r)
  \/ Send(r)
  \/ SendFails(r)
  \/ ClearAfterFailure(r)
  \/ AllSent(r)
  \/ Finish(r)

Slave == \E c \in wire : SlaveStores(c) \/ SlaveRefuses(c)

Network == \E a \in answers : HandleAck(a) \/ HandleUnknown(a)

TimeoutThread ==
  \/ \E c \in channels : Timeout(c)
  \/ \E c \in clearing : TimeoutClear(c)

Next ==
  \/ \E r \in Request : Worker(r)
  \/ Slave
  \/ Network
  \/ TimeoutThread

Spec == Init /\ [][Next]_vars

(***************************************************************************)
(* Fairness: the worker threads and the timeout thread keep running.  The  *)
(* slaves and the network promise nothing.                                 *)
(***************************************************************************)
FairSpec ==
  /\ Spec
  /\ \A r \in Request : WF_vars(Worker(r))
  /\ WF_vars(TimeoutThread)
----------------------------------------------------------------------------
(***************************************************************************)
(* Properties.                                                             *)
(***************************************************************************)
NodeType == [id : 0 .. IdMod - 1, req : Request, waits : SUBSET Server]
TaskType == [pc : Running \cup {"queued", "done"}, id : 0 .. IdMod - 1,
             slaves : SlaveLists \cup {<< >>}, sent : Nat, code : Codes]

(***************************************************************************)
(* The type invariant of the duplication state.                            *)
(***************************************************************************)
TypeOK ==
  /\ packet_id_creater \in 0 .. IdMod - 1
  /\ m_PkgWaitMap \subseteq NodeType
  /\ m_bucket_count \in [Bucket -> Nat]
  /\ task \in [Request -> TaskType]
  /\ channels \subseteq Request \X Server
  /\ wire \subseteq Request \X Server
  /\ answers \subseteq [chan : Request \X Server, type : {"ack", "return"}]
  /\ clearing \subseteq Request \X Server
  /\ stored \subseteq Request \X Server
  /\ replies \in [Request -> Seq(Codes)]
  /\ expired \subseteq Request

(***************************************************************************)
(* The count has_bucket_duplicate_done reads is the number of wait nodes   *)
(* of the bucket, although doResponse subtracts from the bucket the slave  *)
(* names and clear_waitnode from the bucket of the node, and although      *)
(* changeBucketCount hides a count that would become negative.             *)
(***************************************************************************)
BucketCountExact ==
  \A b \in Bucket :
     m_bucket_count[b] =
       Cardinality({n \in m_PkgWaitMap : BucketOf[n.req] = b})

(***************************************************************************)
(* A client told "ok" by rspPacket has its write on every slave that       *)
(* get_slaves returned.                                                    *)
(***************************************************************************)
OkMeansStored ==
  \A r \in Request :
     (\E i \in 1 .. Len(replies[r]) : replies[r][i] = "ok")
       => \A s \in Servers(task[r].slaves) : << r, s >> \in stored

(***************************************************************************)
(* A client has at most one answer: the worker that fails to send, the     *)
(* last acknowledgement and a timeout never both answer.  The handler of   *)
(* lrem is left out, see AnswerAfterAcks.                                  *)
(***************************************************************************)
OneReply == \A r \in Request : Kind[r] # "lrem" => Len(replies[r]) <= 1

(***************************************************************************)
(* addWaitNode reads the size of the map and inserts under two holds of    *)
(* the lock, so the limit can be passed, but by no more than one node per  *)
(* worker thread.                                                          *)
(***************************************************************************)
MapBounded == Cardinality(m_PkgWaitMap) <= TAIR_MAX_DUP_MAP_SIZE + Threads

\* What will still take s off the node n, or the node away.
Removable(n, s) ==
  \/ << n.req, s >> \in channels
  \/ \E c \in clearing : c[1] = n.req
  \/ task[n.req].pc = "clear"
  \/ /\ task[n.req].pc = "send"
     /\ \E i \in task[n.req].sent + 1 .. Len(task[n.req].slaves) :
           task[n.req].slaves[i] = s

(***************************************************************************)
(* A wait node never outlives the means to remove it: for every slave it   *)
(* waits for, the packet is still to be sent, or its channel is open, or   *)
(* the node is about to be cleared.  The one way around it: a slave that   *)
(* is not working answers with a return packet, which closes the channel   *)
(* and which handlePacket frees as unknown.                                *)
(***************************************************************************)
NodeHasChannel ==
  \A n \in m_PkgWaitMap : \A s \in n.waits \ MayStop : Removable(n, s)

(***************************************************************************)
(* The wait map is what its readers take it for: its nodes are counted     *)
(* per bucket, and each can still be removed.                              *)
(***************************************************************************)
WaitMapTracked == BucketCountExact /\ NodeHasChannel

(***************************************************************************)
(* Every wait node is removed in the end, by an acknowledgement, a failed  *)
(* send or a timeout: dup_sync_manager.cpp keeps it "until timeout it" and *)
(* "until response arrive".                                                *)
(***************************************************************************)
NodesDrain ==
  \A r \in Request :
     (\E n \in m_PkgWaitMap : n.req = r) ~> (\A n \in m_PkgWaitMap : n.req # r)

(***************************************************************************)
(* The client of a put gets an answer in the end, unless a packet of its   *)
(* write timed out, for which handleTimeOutPacket has a "todo".            *)
(***************************************************************************)
AnsweredOrExpired ==
  \A r \in Request :
     task[r].pc = "queued" /\ Kind[r] = "put"
       ~> replies[r] # << >> \/ r \in expired

(***************************************************************************)
(* addWaitNode on an id that is in the map, "should never happen": it does *)
(* only by a write without slaves, for which duplicate_data adds 0 to      *)
(* packet_id_creater and takes the id of the write before it.              *)
(***************************************************************************)
IdNeverMixed ==
  \A r \in Request : task[r].code = "idmixed" =>
     \E q \in Request : /\ task[q].pc # "queued" /\ task[q].code # "failed"
                        /\ task[q].slaves = << >> /\ task[q].id = task[r].id

(***************************************************************************)
(* do_duplicate_response: "if all rsp arrive ,resp to client".  A client   *)
(* is not answered while its write still waits for a slave; only lrem does *)
(* not wait for what duplicate_data returned.                              *)
(***************************************************************************)
AnswerAfterAcks ==
  \A n \in m_PkgWaitMap : replies[n.req] = << >> \/ Kind[n.req] = "lrem"
=============================================================================
