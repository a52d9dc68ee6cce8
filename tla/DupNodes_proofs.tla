--------------------------- MODULE DupNodes_proofs ---------------------------
(***************************************************************************)
(* The wait nodes of the synchronous duplication: what a node says of its  *)
(* write, what a packet in the network says of the write that sent it, and *)
(* that a client who was answered has no node left.  All of it holds for   *)
(* any writes, slaves and threads, as long as two writes with slaves never *)
(* have the same packet id (IdsUnique), which DupSync_proofs shows.        *)
(***************************************************************************)
EXTENDS DupSync, TLAPS

\* Zenon proves the leaves that do not ask for SMT.
USE ZenonT(60)

Early == {"queued", "draw_again", "check", "insert"}

Tasks ==
  \A r \in Request :
     /\ task[r].pc = "queued" => task[r].slaves = << >>
     /\ task[r].pc \in Early => task[r].sent = 0
     /\ task[r].pc \notin {"finish", "done"} => task[r].code = "ok"
     /\ task[r].sent <= Len(task[r].slaves)
     /\ task[r].pc = "clear" => task[r].sent < Len(task[r].slaves)
     /\ task[r].pc = "finish" => task[r].code \notin {"ok", "failed"}

\* A node: its write is past addWaitNode and was not given up; it waits for the
\* slaves that nothing was sent to yet, and those it does not wait for have the
\* write.
NodeSound(n) ==
  LET t == task[n.req] IN
  /\ t.id = n.id /\ t.pc \notin Early
  /\ t.pc \in {"finish", "done"} => t.code = "wait"
  /\ n.waits \subseteq Servers(t.slaves)
  /\ \A i \in t.sent + 1 .. Len(t.slaves) : t.slaves[i] \in n.waits
  /\ \A s \in Servers(t.slaves) : s \in n.waits \/ << n.req, s >> \in stored

Nodes ==
  /\ \A n, m \in m_PkgWaitMap : n.id = m.id => n = m
  /\ \A n \in m_PkgWaitMap : NodeSound(n)

SentTo(c) == \E i \in 1 .. task[c[1]].sent : task[c[1]].slaves[i] = c[2]

Packets ==
  /\ \A c \in channels \cup wire \cup clearing : SentTo(c)
  /\ \A a \in answers :
        /\ SentTo(a.chan)
        /\ a.type = "ack" => a.chan \in stored
        /\ a.type = "return" => a.chan[2] \in MayStop
  /\ \A c, d \in clearing : c = d

Replied ==
  /\ \A r \in Request : replies[r] # << >> =>
        \/ task[r].pc = "done"
        \/ task[r].pc = "finish" /\ task[r].code = "wait"
        \/ task[r].pc = "send" /\ task[r].sent = Len(task[r].slaves)
  /\ OneReply /\ AnswerAfterAcks /\ OkMeansStored

SyncInv == TypeOK /\ Tasks /\ Nodes /\ Packets /\ Replied /\ NodeHasChannel

\* The ids of two writes that have slaves are different.
IdsUnique ==
  \A r, q \in Request :
     task[r].id = task[q].id /\ task[r].slaves # << >> /\ task[q].slaves # << >> => r = q

-----------------------------------------------------------------------------
(* Lists of slaves, ids and tasks. *)

LEMMA NextId ==
  ASSUME TypeOK, NEW len \in Nat PROVE (packet_id_creater + len) % IdMod \in 0 .. IdMod - 1
<1> DEFINE x == packet_id_creater + len
<1>1. x \in Nat /\ IdMod \in Nat \ {0}
  BY SMTT(60), DupAssumption DEF TypeOK
<1> HIDE DEF x
<1>2. x % IdMod \in 0 .. IdMod - 1
  BY SMTT(60), <1>1
<1> QED BY <1>2 DEF x

LEMMA Lists ==
  ASSUME NEW l \in SlaveLists \cup {<< >>}
  PROVE  /\ l \in Seq(Server) /\ Len(l) \in Nat /\ Len(l) <= MAX_DUP_COUNT
         /\ \A i, j \in 1 .. Len(l) : l[i] = l[j] => i = j
         /\ (l = << >> <=> Len(l) = 0)
         /\ \A i \in 1 .. Len(l) : l[i] \in Server
         /\ Servers(l) \subseteq Server
<1>1. l \in Seq(Server)
  <2>1. << >> \in Seq(Server)
    BY SMTT(60)
  <2> QED BY <2>1, DupAssumption
<1>2. Len(l) <= MAX_DUP_COUNT
  BY SMTT(60), DupAssumption, IdsAssumption
<1>3. \A i, j \in 1 .. Len(l) : l[i] = l[j] => i = j
  <2>1. CASE l \in SlaveLists
    BY <2>1, DupAssumption
  <2>2. CASE l = << >>
    BY SMTT(60), <2>2
  <2> QED BY <2>1, <2>2
<1> QED BY SMTT(60), <1>1, <1>2, <1>3 DEF Servers

LEMMA TaskFacts ==
  ASSUME TypeOK, NEW r \in Request
  PROVE  /\ task[r] \in TaskType /\ task[r].id \in 0 .. IdMod - 1 /\ task[r].sent \in Nat
         /\ task[r].slaves \in SlaveLists \cup {<< >>} /\ task[r].code \in Codes
         /\ Len(task[r].slaves) \in Nat
<1>1. task[r] \in TaskType
  BY DEF TypeOK
<1>2. task[r].slaves \in SlaveLists \cup {<< >>}
  BY <1>1 DEF TaskType
<1> QED BY <1>1, <1>2, Lists DEF TaskType

\* A step of the handler of r: only its own task changes.
LEMMA Replaced ==
  ASSUME TypeOK, NEW r \in Request, NEW t \in TaskType, task' = [task EXCEPT ![r] = t]
  PROVE  /\ task' \in [Request -> TaskType] /\ task'[r] = t
         /\ \A q \in Request : q # r => task'[q] = task[q]
BY DEF TypeOK

Pcs == Running \cup {"queued", "done"}

LEMMA GotoTask ==
  ASSUME TypeOK, NEW r \in Request, NEW pc \in Pcs, Goto(r, pc)
  PROVE  /\ task' \in [Request -> TaskType]
         /\ task'[r].pc = pc /\ task'[r].id = task[r].id /\ task'[r].slaves = task[r].slaves
         /\ task'[r].sent = task[r].sent /\ task'[r].code = task[r].code
         /\ \A q \in Request : q # r => task'[q] = task[q]
<1>1. task[r] \in TaskType
  BY TaskFacts
<1>2. task' = [task EXCEPT ![r] = [task[r] EXCEPT !.pc = pc]]
  BY DEF Goto, TypeOK
<1>3. [task[r] EXCEPT !.pc = pc] \in TaskType
  BY <1>1 DEF TaskType, Pcs
<1>4. task' \in [Request -> TaskType] /\ task'[r] = [task[r] EXCEPT !.pc = pc]
      /\ \A q \in Request : q # r => task'[q] = task[q]
  BY <1>2, <1>3, Replaced
<1> QED BY <1>1, <1>4 DEF TaskType

LEMMA EndTask ==
  ASSUME TypeOK, NEW r \in Request, NEW pc \in Pcs, NEW code \in Codes,
         task' = [task EXCEPT ![r].pc = pc, ![r].code = code]
  PROVE  /\ task' \in [Request -> TaskType]
         /\ task'[r].pc = pc /\ task'[r].id = task[r].id /\ task'[r].slaves = task[r].slaves
         /\ task'[r].sent = task[r].sent /\ task'[r].code = code
         /\ \A q \in Request : q # r => task'[q] = task[q]
<1>1. task[r] \in TaskType
  BY TaskFacts
<1>2. task' = [task EXCEPT ![r] = [task[r] EXCEPT !.pc = pc, !.code = code]]
  BY DEF TypeOK
<1>3. [task[r] EXCEPT !.pc = pc, !.code = code] \in TaskType
  BY <1>1 DEF TaskType, Pcs
<1>4. task' \in [Request -> TaskType] /\ task'[r] = [task[r] EXCEPT !.pc = pc, !.code = code]
      /\ \A q \in Request : q # r => task'[q] = task[q]
  BY <1>2, <1>3, Replaced
<1> QED BY <1>1, <1>4 DEF TaskType

LEMMA ReturnTask ==
  ASSUME TypeOK, NEW r \in Request, NEW code \in Codes, Return(r, code)
  PROVE  /\ task' \in [Request -> TaskType]
         /\ task'[r].pc = "finish" /\ task'[r].id = task[r].id /\ task'[r].slaves = task[r].slaves
         /\ task'[r].sent = task[r].sent /\ task'[r].code = code
         /\ \A q \in Request : q # r => task'[q] = task[q]
<1>1. "finish" \in Pcs
  BY DEF Pcs, Running
<1> QED BY <1>1, EndTask DEF Return

LEMMA CountType ==
  ASSUME SyncInv, NEW b \in Bucket, NEW d \in Int, m_bucket_count' = changeBucketCount(b, d)
  PROVE  m_bucket_count' \in [Bucket -> Nat]
<1>1. m_bucket_count \in [Bucket -> Nat] /\ m_bucket_count[b] \in Nat
  BY DEF SyncInv, TypeOK
<1>2. PICK k : k = IF m_bucket_count[b] + d < 0 THEN 0 ELSE m_bucket_count[b] + d
  OBVIOUS
<1>3. k \in Nat
  BY SMTT(60), <1>1, <1>2
<1>4. m_bucket_count' = [m_bucket_count EXCEPT ![b] = k]
  BY <1>2 DEF changeBucketCount
<1> QED BY <1>1, <1>3, <1>4

-----------------------------------------------------------------------------
(* What a step leaves alone. *)

LEMMA EarlyAlone ==
  ASSUME SyncInv, NEW r \in Request, task[r].pc \in Early
  PROVE  /\ \A n \in m_PkgWaitMap : n.req # r
         /\ \A c \in Request \X Server : SentTo(c) => c[1] # r
         /\ replies[r] = << >>
<1>1. \A n \in m_PkgWaitMap : n.req # r
  BY DEF SyncInv, Nodes, NodeSound
<1>2. \A c \in Request \X Server : SentTo(c) => c[1] # r
  BY SMTT(60) DEF SyncInv, Tasks, SentTo
<1>3. replies[r] = << >>
  BY DEF SyncInv, Replied, Early
<1> QED BY <1>1, <1>2, <1>3

\* Only the task of a handler that has no node and has sent nothing changes.
LEMMA EarlyKeeps ==
  ASSUME SyncInv, NEW r \in Request, task[r].pc \in Early,
         \A q \in Request : q # r => task'[q] = task[q], UNCHANGED << mapVars, netVars >>
  PROVE  Nodes' /\ Packets' /\ NodeHasChannel'
<1> USE DEF mapVars, netVars
<1>1. m_PkgWaitMap \subseteq NodeType /\ \A n \in m_PkgWaitMap : n.req \in Request /\ n.req # r
  BY EarlyAlone DEF SyncInv, TypeOK, NodeType
<1>2. \A n \in m_PkgWaitMap : task'[n.req] = task[n.req]
  BY <1>1
<1>3. Nodes'
  BY <1>2 DEF SyncInv, Nodes, NodeSound
<1>4. ASSUME NEW c \in Request \X Server, SentTo(c) PROVE SentTo(c)'
  <2>1. task'[c[1]] = task[c[1]]
    BY <1>4, EarlyAlone
  <2> QED BY <1>4, <2>1 DEF SentTo
<1>5. channels \cup wire \cup clearing \subseteq Request \X Server
      /\ \A a \in answers : a.chan \in Request \X Server
  BY DEF SyncInv, TypeOK
<1>6. Packets'
  BY <1>4, <1>5 DEF SyncInv, Packets
<1>7. NodeHasChannel'
  <2> SUFFICES ASSUME NEW n \in m_PkgWaitMap, NEW s \in n.waits \ MayStop PROVE Removable(n, s)'
    BY DEF NodeHasChannel
  <2>1. Removable(n, s)
    BY DEF SyncInv, NodeHasChannel
  <2> QED BY <1>2, <2>1 DEF Removable
<1> QED BY <1>3, <1>6, <1>7

\* The handler of r goes on after its insertion; what it was to send is the same.
LEMMA LateKeeps ==
  ASSUME SyncInv, NEW r \in Request, task'[r].pc \notin Early, task[r].pc \notin Early,
         task'[r].id = task[r].id, task'[r].slaves = task[r].slaves, task'[r].sent = task[r].sent,
         \A q \in Request : q # r => task'[q] = task[q],
         m_PkgWaitMap' \subseteq m_PkgWaitMap, UNCHANGED netVars,
         \A n \in m_PkgWaitMap' : n.req = r /\ task'[r].pc \in {"finish", "done"} => task'[r].code = "wait"
  PROVE  Nodes' /\ Packets'
<1> USE DEF netVars
<1>1. \A n \in m_PkgWaitMap : n.req \in Request
  BY DEF SyncInv, TypeOK, NodeType
<1>2. ASSUME NEW n \in m_PkgWaitMap' PROVE NodeSound(n)'
  <2>1. NodeSound(n) /\ n.req \in Request
    BY <1>1 DEF SyncInv, Nodes
  <2>2. CASE n.req = r
    BY <2>1, <2>2 DEF NodeSound
  <2>3. CASE n.req # r
    BY <2>1, <2>3 DEF NodeSound
  <2> QED BY <2>2, <2>3
<1>3. Nodes'
  BY <1>2 DEF SyncInv, Nodes
<1>4. ASSUME NEW c \in Request \X Server, SentTo(c) PROVE SentTo(c)'
  BY <1>4 DEF SentTo
<1>5. channels \cup wire \cup clearing \subseteq Request \X Server
      /\ \A a \in answers : a.chan \in Request \X Server
  BY DEF SyncInv, TypeOK
<1>6. Packets'
  BY <1>4, <1>5 DEF SyncInv, Packets
<1> QED BY <1>3, <1>6

LEMMA RepliesKept ==
  ASSUME SyncInv, NEW r \in Request, UNCHANGED replies, stored \subseteq stored',
         \A q \in Request : q # r => task'[q] = task[q],
         m_PkgWaitMap' \subseteq m_PkgWaitMap,
         replies[r] # << >> =>
            /\ task'[r].slaves = task[r].slaves
            /\ \/ task'[r].pc = "done"
               \/ task'[r].pc = "finish" /\ task'[r].code = "wait"
               \/ task'[r].pc = "send" /\ task'[r].sent = Len(task'[r].slaves)
  PROVE  Replied'
<1>1. \A q \in Request : replies'[q] # << >> =>
        \/ task'[q].pc = "done"
        \/ task'[q].pc = "finish" /\ task'[q].code = "wait"
        \/ task'[q].pc = "send" /\ task'[q].sent = Len(task'[q].slaves)
  BY DEF SyncInv, Replied
<1>2. OneReply' /\ AnswerAfterAcks'
  BY DEF SyncInv, Replied, OneReply, AnswerAfterAcks
<1>3. ASSUME NEW q \in Request, \E i \in 1 .. Len(replies[q]) : replies[q][i] = "ok"
      PROVE  \A s \in Servers(task'[q].slaves) : << q, s >> \in stored'
  <2>1. replies[q] # << >>
    BY SMTT(60), <1>3
  <2>2. task'[q].slaves = task[q].slaves
    BY <2>1
  <2> QED BY <1>3, <2>2 DEF SyncInv, Replied, OkMeansStored
<1>4. OkMeansStored'
  BY <1>3 DEF OkMeansStored
<1> QED BY <1>1, <1>2, <1>4 DEF Replied

LEMMA TypeKept ==
  ASSUME SyncInv, UNCHANGED << mapVars, netVars >>, packet_id_creater' \in 0 .. IdMod - 1,
         task' \in [Request -> TaskType], replies' \in [Request -> Seq(Codes)]
  PROVE  TypeOK'
BY DEF SyncInv, TypeOK, mapVars, netVars

-----------------------------------------------------------------------------

LEMMA SyncInit == Init => SyncInv
<1> SUFFICES ASSUME Init PROVE SyncInv
  OBVIOUS
<1>1. /\ task = [r \in Request |-> Queued] /\ m_PkgWaitMap = {} /\ channels = {} /\ wire = {}
      /\ answers = {} /\ clearing = {} /\ stored = {} /\ replies = [r \in Request |-> << >>]
      /\ m_bucket_count = [b \in Bucket |-> 0] /\ packet_id_creater \in LastIds /\ expired = {}
  BY DEF Init
<1>2. \A r \in Request : /\ task[r].pc = "queued" /\ task[r].id = 0 /\ task[r].slaves = << >>
                         /\ task[r].sent = 0 /\ task[r].code = "ok"
  BY <1>1 DEF Queued
<1>3. TypeOK
  <2>1. Queued \in TaskType
    BY SMTT(60), DupAssumption DEF Queued, TaskType, Codes
  <2>2. task \in [Request -> TaskType] /\ replies \in [Request -> Seq(Codes)]
        /\ m_bucket_count \in [Bucket -> Nat] /\ packet_id_creater \in 0 .. IdMod - 1
    BY SMTT(60), <1>1, <2>1, DupAssumption
  <2> QED BY <1>1, <2>2 DEF TypeOK
<1>4. Tasks
  <2>1. Len(<< >>) = 0
    OBVIOUS
  <2> QED BY SMTT(60), <1>2, <2>1 DEF Tasks, Early
<1>5. Nodes /\ Packets /\ NodeHasChannel
  BY <1>1 DEF Nodes, Packets, NodeHasChannel
<1>6. Replied
  <2>1. \A r \in Request : replies[r] = << >> /\ Len(replies[r]) = 0
    BY <1>1
  <2> QED BY SMTT(60), <1>1, <2>1 DEF Replied, OneReply, AnswerAfterAcks, OkMeansStored
<1> QED BY <1>3, <1>4, <1>5, <1>6 DEF SyncInv

-----------------------------------------------------------------------------
(* Nodes and answers. *)

\* A node is found by its id, and a packet finds the node of its own write.
LEMMA Owner ==
  ASSUME SyncInv, IdsUnique, NEW c \in Request \X Server, SentTo(c), NEW n \in m_PkgWaitMap,
         n.id = task[c[1]].id, n.waits # {}
  PROVE  n.req = c[1]
<1>1. NodeSound(n) /\ n.req \in Request
  BY DEF SyncInv, Nodes, TypeOK, NodeType
<1>2. task[n.req].slaves # << >>
  BY SMTT(60), <1>1 DEF NodeSound, Servers
<1>3. c[1] \in Request /\ task[c[1]].sent \in Nat /\ Len(task[c[1]].slaves) \in Nat
      /\ task[c[1]].sent <= Len(task[c[1]].slaves)
  BY TaskFacts DEF SyncInv, Tasks
<1>4. Len(task[c[1]].slaves) # 0
  BY SMTT(60), <1>3 DEF SentTo
<1>5. task[c[1]].slaves # << >>
  BY SMTT(60), <1>4
<1> QED BY <1>1, <1>2, <1>3, <1>5 DEF NodeSound, IdsUnique

LEMMA OneNode ==
  ASSUME SyncInv, NEW n \in m_PkgWaitMap, NEW k \in m_PkgWaitMap, n.req = k.req
  PROVE  n = k
<1>1. n.id = task[n.req].id /\ k.id = task[k.req].id
  BY DEF SyncInv, Nodes, NodeSound
<1> QED BY <1>1 DEF SyncInv, Nodes

LEMMA Cleared ==
  ASSUME SyncInv, NEW id, clear_waitnode(id)
  PROVE  /\ m_PkgWaitMap' \subseteq m_PkgWaitMap /\ \A n \in m_PkgWaitMap' : n.id # id
         /\ m_bucket_count' \in [Bucket -> Nat]
<1>1. CASE NodesAt(id) = {} /\ UNCHANGED mapVars
  BY <1>1 DEF NodesAt, mapVars, SyncInv, TypeOK
<1>2. ASSUME NEW n \in NodesAt(id), m_PkgWaitMap' = m_PkgWaitMap \ {n},
             m_bucket_count' = changeBucketCount(BucketOf[n.req], -1)
      PROVE  /\ m_PkgWaitMap' \subseteq m_PkgWaitMap /\ \A k \in m_PkgWaitMap' : k.id # id
             /\ m_bucket_count' \in [Bucket -> Nat]
  <2>1. n \in m_PkgWaitMap /\ n.id = id
    BY DEF NodesAt
  <2>2. \A k \in m_PkgWaitMap' : k.id # id
    BY <1>2, <2>1 DEF SyncInv, Nodes
  <2>3. BucketOf[n.req] \in Bucket
    BY <2>1, DupAssumption DEF SyncInv, TypeOK, NodeType
  <2> QED BY SMTT(60), <1>2, <2>1, <2>2, <2>3, CountType
<1> QED BY <1>1, <1>2 DEF clear_waitnode

LEMMA Answers ==
  ASSUME TypeOK, NEW r \in Request, NEW code \in Codes, Reply(r, code)
  PROVE  /\ replies' \in [Request -> Seq(Codes)] /\ Len(replies'[r]) = Len(replies[r]) + 1
         /\ \A i \in 1 .. Len(replies'[r]) :
               replies'[r][i] = code \/ (i \in 1 .. Len(replies[r]) /\ replies'[r][i] = replies[r][i])
         /\ \A q \in Request : q # r => replies'[q] = replies[q]
<1>1. replies \in [Request -> Seq(Codes)] /\ replies' = [replies EXCEPT ![r] = Append(replies[r], code)]
  BY DEF TypeOK, Reply
<1> DEFINE old == replies[r]
           new == Append(old, code)
<1>2. old \in Seq(Codes)
  BY <1>1
<1>3. replies'[r] = new /\ \A q \in Request : q # r => replies'[q] = replies[q]
  BY <1>1
<1> HIDE DEF old
<1>4. new \in Seq(Codes) /\ Len(new) = Len(old) + 1
      /\ \A i \in 1 .. Len(new) : new[i] = code \/ (i \in 1 .. Len(old) /\ new[i] = old[i])
  BY SMTT(60), <1>2
<1> HIDE DEF new
<1>5. replies' \in [Request -> Seq(Codes)]
  <2>1. replies' = [replies EXCEPT ![r] = new]
    BY <1>1 DEF new, old
  <2> QED BY <1>1, <1>4, <2>1
<1> QED BY <1>3, <1>4, <1>5 DEF old

\* A handler answers with an error, or is that of an lrem.
LEMMA ErrorReplied ==
  ASSUME SyncInv, NEW r \in Request, NEW code \in Codes \ {"ok"}, Reply(r, code),
         UNCHANGED << m_PkgWaitMap, stored >>,
         \A q \in Request : q # r => task'[q] = task[q],
         task'[r].pc = "done", task'[r].slaves = task[r].slaves,
         Kind[r] = "lrem" \/ (replies[r] = << >> /\ \A n \in m_PkgWaitMap : n.req # r)
  PROVE  Replied'
<1>1. /\ Len(replies'[r]) = Len(replies[r]) + 1
      /\ \A i \in 1 .. Len(replies'[r]) :
            replies'[r][i] = code \/ (i \in 1 .. Len(replies[r]) /\ replies'[r][i] = replies[r][i])
      /\ \A q \in Request : q # r => replies'[q] = replies[q]
  BY Answers DEF SyncInv
<1>2. \A q \in Request : replies'[q] # << >> =>
        \/ task'[q].pc = "done"
        \/ task'[q].pc = "finish" /\ task'[q].code = "wait"
        \/ task'[q].pc = "send" /\ task'[q].sent = Len(task'[q].slaves)
  BY SMTT(60), <1>1 DEF SyncInv, Replied
<1>3. OneReply'
  <2>1. replies[r] = << >> => Len(replies[r]) = 0
    BY SMTT(60)
  <2> QED BY SMTT(60), <1>1, <2>1 DEF SyncInv, Replied, OneReply
<1>4. AnswerAfterAcks'
  <2>1. \A n \in m_PkgWaitMap : n.req \in Request
    BY DEF SyncInv, TypeOK, NodeType
  <2> QED BY <1>1, <2>1 DEF SyncInv, Replied, AnswerAfterAcks
<1>5. ASSUME NEW q \in Request, NEW i \in 1 .. Len(replies'[q]), replies'[q][i] = "ok"
      PROVE  \A s \in Servers(task'[q].slaves) : << q, s >> \in stored'
  <2>1. task'[q].slaves = task[q].slaves
    OBVIOUS
  <2>2. \E j \in 1 .. Len(replies[q]) : replies[q][j] = "ok"
    <3>1. CASE q = r
      BY <1>1, <1>5, <3>1
    <3>2. CASE q # r
      BY <1>1, <1>5, <3>2
    <3> QED BY <3>1, <3>2
  <2> QED BY <2>1, <2>2 DEF SyncInv, Replied, OkMeansStored
<1>6. OkMeansStored'
  BY <1>5 DEF OkMeansStored
<1> QED BY <1>2, <1>3, <1>4, <1>6 DEF Replied

-----------------------------------------------------------------------------
(* The worker threads, up to the insertion. *)

LEMMA LocalFailsKeeps == ASSUME SyncInv, NEW r \in Request, LocalFails(r) PROVE SyncInv'
<1>1. /\ task[r].pc = "queued" /\ UNCHANGED << packet_id_creater, mapVars, netVars >>
      /\ Reply(r, "failed") /\ task' = [task EXCEPT ![r].pc = "done", ![r].code = "failed"]
  BY DEF LocalFails
<1>2. "failed" \in Codes /\ "done" \in Pcs
  BY DEF Codes, Pcs
<1>3. /\ task' \in [Request -> TaskType]
      /\ task'[r].pc = "done" /\ task'[r].id = task[r].id /\ task'[r].slaves = task[r].slaves
      /\ task'[r].sent = task[r].sent /\ task'[r].code = "failed"
      /\ \A q \in Request : q # r => task'[q] = task[q]
  BY <1>1, <1>2, EndTask DEF SyncInv
<1>4. TypeOK'
  BY <1>1, <1>2, <1>3, Answers, TypeKept DEF SyncInv, TypeOK
<1>5. Tasks'
  BY <1>3 DEF SyncInv, Tasks, Early
<1>6. Nodes' /\ Packets' /\ NodeHasChannel'
  BY <1>1, <1>3, EarlyKeeps DEF Early
<1>7. Replied'
  <2>1. replies[r] = << >> /\ \A n \in m_PkgWaitMap : n.req # r
    BY <1>1, EarlyAlone DEF Early
  <2> QED BY <1>1, <1>2, <1>3, <2>1, ErrorReplied DEF mapVars, netVars
<1> QED BY <1>4, <1>5, <1>6, <1>7 DEF SyncInv

LEMMA DrawIdKeeps == ASSUME SyncInv, NEW r \in Request, DrawId(r) PROVE SyncInv'
<1>1. /\ task[r].pc = "queued" /\ IdleThread /\ UNCHANGED << mapVars, netVars, replies >>
  BY DEF DrawId
<1>2. PICK list \in SlaveLists : 
         /\ packet_id_creater' = (packet_id_creater + Len(list)) % IdMod
         /\ task' = [task EXCEPT ![r] =
                       [pc |-> IF packet_id_creater' = 0 THEN "draw_again" ELSE "check",
                        id |-> packet_id_creater', slaves |-> list, sent |-> 0, code |-> "ok"]]
  BY DEF DrawId
<1> DEFINE pc == IF packet_id_creater' = 0 THEN "draw_again" ELSE "check"
           t == [pc |-> pc, id |-> packet_id_creater', slaves |-> list, sent |-> 0, code |-> "ok"]
<1>3. pc \in {"draw_again", "check"} /\ Len(list) \in Nat /\ Len(list) <= MAX_DUP_COUNT
      /\ (list = << >> <=> Len(list) = 0)
  BY Lists
<1> HIDE DEF pc
<1>4. packet_id_creater' \in 0 .. IdMod - 1
  BY <1>2, <1>3, NextId DEF SyncInv
<1>5. t \in TaskType
  BY <1>3, <1>4 DEF TaskType, Running, Codes
<1>6. task' = [task EXCEPT ![r] = t]
  BY <1>2 DEF pc
<1>7. /\ task' \in [Request -> TaskType] /\ task'[r] = t
      /\ \A q \in Request : q # r => task'[q] = task[q]
  BY <1>5, <1>6, Replaced DEF SyncInv
<1>8. /\ task'[r].pc \in {"draw_again", "check"} /\ task'[r].id = packet_id_creater'
      /\ task'[r].slaves = list /\ task'[r].sent = 0 /\ task'[r].code = "ok"
  BY SMTT(60), <1>3, <1>7
<1> HIDE DEF t
<1>9. TypeOK'
  BY <1>1, <1>4, <1>7, TypeKept DEF SyncInv, TypeOK
<1>10. Tasks'
  BY SMTT(60), <1>3, <1>7, <1>8 DEF SyncInv, Tasks, Early
<1>11. Nodes' /\ Packets' /\ NodeHasChannel'
  BY <1>1, <1>7, EarlyKeeps DEF Early
<1>12. Replied'
  <2>1. replies[r] = << >>
    BY <1>1, EarlyAlone DEF Early
  <2> QED BY <1>1, <1>7, <2>1, RepliesKept DEF mapVars, netVars
<1> QED BY <1>9, <1>10, <1>11, <1>12 DEF SyncInv

LEMMA DrawAgainKeeps == ASSUME SyncInv, NEW r \in Request, DrawAgain(r) PROVE SyncInv'
<1>1. /\ task[r].pc = "draw_again" /\ Goto(r, "check") /\ UNCHANGED << mapVars, netVars, replies >>
      /\ packet_id_creater' = (packet_id_creater + Len(task[r].slaves)) % IdMod
  BY DEF DrawAgain
<1>2. /\ task' \in [Request -> TaskType]
      /\ task'[r].pc = "check" /\ task'[r].id = task[r].id /\ task'[r].slaves = task[r].slaves
      /\ task'[r].sent = task[r].sent /\ task'[r].code = task[r].code
      /\ \A q \in Request : q # r => task'[q] = task[q]
  <2>1. "check" \in Pcs
    BY DEF Pcs, Running
  <2> QED BY <1>1, <2>1, GotoTask DEF SyncInv
<1>3. Len(task[r].slaves) \in Nat /\ Len(task[r].slaves) <= MAX_DUP_COUNT
  BY TaskFacts, Lists DEF SyncInv
<1>4. packet_id_creater' \in 0 .. IdMod - 1
  BY <1>1, <1>3, NextId DEF SyncInv
<1>5. TypeOK'
  BY <1>1, <1>2, <1>4, TypeKept DEF SyncInv, TypeOK
<1>6. Tasks'
  BY <1>1, <1>2 DEF SyncInv, Tasks, Early
<1>7. Nodes' /\ Packets' /\ NodeHasChannel'
  BY <1>1, <1>2, EarlyKeeps DEF Early
<1>8. Replied'
  <2>1. replies[r] = << >>
    BY <1>1, EarlyAlone DEF Early
  <2> QED BY <1>1, <1>2, <2>1, RepliesKept DEF mapVars, netVars
<1> QED BY <1>5, <1>6, <1>7, <1>8 DEF SyncInv

LEMMA CheckSizeKeeps == ASSUME SyncInv, NEW r \in Request, CheckSize(r) PROVE SyncInv'
<1>1. /\ task[r].pc = "check" /\ UNCHANGED << packet_id_creater, mapVars, netVars, replies >>
      /\ \/ MapFull /\ Return(r, "busy")
         \/ ~MapFull /\ Goto(r, "insert")
  BY DEF CheckSize
<1>2. /\ task' \in [Request -> TaskType]
      /\ task'[r].id = task[r].id /\ task'[r].slaves = task[r].slaves /\ task'[r].sent = task[r].sent
      /\ \/ task'[r].pc = "finish" /\ task'[r].code = "busy"
         \/ task'[r].pc = "insert" /\ task'[r].code = task[r].code /\ ~MapFull
      /\ \A q \in Request : q # r => task'[q] = task[q]
  <2>1. "insert" \in Pcs /\ "busy" \in Codes
    BY DEF Pcs, Running, Codes
  <2>2. CASE Return(r, "busy")
    BY <2>1, <2>2, ReturnTask DEF SyncInv
  <2>3. CASE ~MapFull /\ Goto(r, "insert")
    BY <2>1, <2>3, GotoTask DEF SyncInv
  <2> QED BY <1>1, <2>2, <2>3
<1>3. TypeOK'
  BY <1>1, <1>2, TypeKept DEF SyncInv, TypeOK
<1>4. Tasks'
  BY <1>1, <1>2 DEF SyncInv, Tasks, Early
<1>5. Nodes' /\ Packets' /\ NodeHasChannel'
  BY <1>1, <1>2, EarlyKeeps DEF Early
<1>6. Replied'
  <2>1. replies[r] = << >>
    BY <1>1, EarlyAlone DEF Early
  <2> QED BY <1>1, <1>2, <2>1, RepliesKept DEF mapVars, netVars
<1> QED BY <1>3, <1>4, <1>5, <1>6 DEF SyncInv

\* The id is taken: by a write without slaves, or this is one.
LEMMA InsertRefused ==
  ASSUME SyncInv, NEW r \in Request, task[r].pc = "insert", NodesAt(task[r].id) # {},
         Return(r, "idmixed"), UNCHANGED << packet_id_creater, mapVars, netVars, replies >>
  PROVE  SyncInv'
<1>1. /\ task' \in [Request -> TaskType]
      /\ task'[r].pc = "finish" /\ task'[r].id = task[r].id /\ task'[r].slaves = task[r].slaves
      /\ task'[r].sent = task[r].sent /\ task'[r].code = "idmixed"
      /\ \A q \in Request : q # r => task'[q] = task[q]
  <2>1. "idmixed" \in Codes
    BY DEF Codes
  <2> QED BY <2>1, ReturnTask DEF SyncInv
<1>2. TypeOK'
  BY <1>1, TypeKept DEF SyncInv, TypeOK
<1>3. Tasks'
  BY <1>1 DEF SyncInv, Tasks, Early
<1>4. Nodes' /\ Packets' /\ NodeHasChannel'
  BY <1>1, EarlyKeeps DEF Early
<1>5. Replied'
  <2>1. replies[r] = << >>
    BY EarlyAlone DEF Early
  <2> QED BY <1>1, <2>1, RepliesKept DEF mapVars, netVars
<1> QED BY <1>2, <1>3, <1>4, <1>5 DEF SyncInv

\* The node written down waits for every slave.
LEMMA Inserted ==
  ASSUME SyncInv, NEW r \in Request, task[r].pc = "insert", NodesAt(task[r].id) = {},
         Goto(r, "send"), m_PkgWaitMap' = m_PkgWaitMap \cup {NewNode(r)},
         m_bucket_count' = changeBucketCount(BucketOf[r], 1),
         UNCHANGED << packet_id_creater, netVars, replies >>
  PROVE  SyncInv'
<1> USE DEF netVars
<1>1. PICK n : n = NewNode(r)
  OBVIOUS
<1> DEFINE t == task[r]
<1>2. /\ task' \in [Request -> TaskType]
      /\ task'[r].pc = "send" /\ task'[r].id = t.id /\ task'[r].slaves = t.slaves
      /\ task'[r].sent = t.sent /\ task'[r].code = t.code
      /\ \A q \in Request : q # r => task'[q] = task[q]
  <2>1. "send" \in Pcs
    BY DEF Pcs, Running
  <2> QED BY <2>1, GotoTask DEF SyncInv
<1>3. n.id = t.id /\ n.req = r /\ n.waits = Servers(t.slaves) /\ n \in NodeType
  <2>1. Len(t.slaves) \in Nat /\ Len(t.slaves) <= MAX_DUP_COUNT /\ Servers(t.slaves) \subseteq Server
        /\ t.id \in 0 .. IdMod - 1 /\ MAX_DUP_COUNT \in Nat
    BY TaskFacts, Lists, DupAssumption DEF SyncInv
  <2>2. {j \in 1 .. Len(t.slaves) : j <= MAX_DUP_COUNT} = 1 .. Len(t.slaves)
    BY SMTT(60), <2>1
  <2>3. n = [id |-> t.id, req |-> r, waits |-> Servers(t.slaves)]
    BY <1>1, <2>2 DEF NewNode, Servers
  <2> QED BY <2>1, <2>3 DEF NodeType
<1>4. t.sent = 0 /\ t.code = "ok" /\ replies[r] = << >> /\ \A k \in m_PkgWaitMap : k.req # r
  BY EarlyAlone DEF SyncInv, Tasks, Early
<1>5. \A k \in m_PkgWaitMap : k.id # n.id
  BY <1>3 DEF NodesAt
<1>6. m_PkgWaitMap' = m_PkgWaitMap \cup {n} /\ n \notin m_PkgWaitMap
  BY <1>1, <1>5
<1>7. m_bucket_count' \in [Bucket -> Nat]
  BY SMTT(60), DupAssumption, CountType
<1> HIDE DEF t
<1>8. TypeOK'
  BY <1>2, <1>3, <1>6, <1>7 DEF SyncInv, TypeOK
<1>9. Tasks'
  BY SMTT(60), <1>2, <1>4 DEF SyncInv, Tasks, Early, t
<1>10. \A k \in m_PkgWaitMap : k.req \in Request /\ task'[k.req] = task[k.req]
  BY <1>2, <1>4 DEF SyncInv, TypeOK, NodeType
<1>11. Nodes'
  <2>2. \A k, m \in m_PkgWaitMap' : k.id = m.id => k = m
    BY <1>5, <1>6 DEF SyncInv, Nodes
  <2>3. ASSUME NEW k \in m_PkgWaitMap PROVE NodeSound(k)'
    BY <1>10 DEF SyncInv, Nodes, NodeSound
  <2>4. NodeSound(n)'
    <3>1. n.req = r /\ task'[n.req].id = n.id /\ task'[n.req].pc = "send"
          /\ task'[n.req].slaves = t.slaves /\ task'[n.req].sent = 0 /\ n.waits = Servers(t.slaves)
      BY <1>2, <1>3, <1>4
    <3>2. \A j \in 0 + 1 .. Len(t.slaves) : t.slaves[j] \in Servers(t.slaves)
      BY SMTT(60) DEF Servers
    <3> QED BY <3>1, <3>2 DEF NodeSound, Early
  <2> QED BY <1>6, <2>2, <2>3, <2>4 DEF Nodes
<1>12. Packets'
  <2>1. ASSUME NEW c \in Request \X Server, SentTo(c) PROVE SentTo(c)'
    <3>1. task'[c[1]].sent = task[c[1]].sent /\ task'[c[1]].slaves = task[c[1]].slaves
      BY <1>2 DEF t
    <3> QED BY <2>1, <3>1 DEF SentTo
  <2>2. channels \cup wire \cup clearing \subseteq Request \X Server
        /\ \A a \in answers : a.chan \in Request \X Server
    BY DEF SyncInv, TypeOK
  <2> QED BY <2>1, <2>2 DEF SyncInv, Packets
<1>13. Replied'
  <2>1. \A q \in Request : replies[q] # << >> => q # r
    BY <1>4
  <2>2. \A q \in Request : replies'[q] # << >> =>
          \/ task'[q].pc = "done"
          \/ task'[q].pc = "finish" /\ task'[q].code = "wait"
          \/ task'[q].pc = "send" /\ task'[q].sent = Len(task'[q].slaves)
    BY <1>2, <2>1 DEF SyncInv, Replied
  <2>3. OneReply' /\ AnswerAfterAcks'
    BY <1>3, <1>4, <1>6 DEF SyncInv, Replied, OneReply, AnswerAfterAcks
  <2>4. OkMeansStored'
    <3>1. \A q \in Request : task'[q].slaves = task[q].slaves
      BY <1>2 DEF t
    <3> QED BY <3>1 DEF SyncInv, Replied, OkMeansStored
  <2> QED BY <2>2, <2>3, <2>4 DEF Replied
<1>14. NodeHasChannel'
  <2>1. ASSUME NEW k \in m_PkgWaitMap, NEW s \in k.waits \ MayStop PROVE Removable(k, s)'
    <3>1. Removable(k, s)
      BY DEF SyncInv, NodeHasChannel
    <3> QED BY <1>10, <3>1 DEF Removable
  <2>2. ASSUME NEW s \in n.waits PROVE Removable(n, s)'
    <3>1. PICK j \in 1 .. Len(t.slaves) : t.slaves[j] = s
      BY <1>3 DEF Servers
    <3>2. task'[n.req].pc = "send" /\ task'[n.req].sent = 0 /\ task'[n.req].slaves = t.slaves
      BY <1>2, <1>3, <1>4
    <3>3. j \in 0 + 1 .. Len(t.slaves)
      BY SMTT(60)
    <3> QED BY <3>1, <3>2, <3>3 DEF Removable
  <2> QED BY <1>6, <2>1, <2>2 DEF NodeHasChannel
<1> QED BY <1>8, <1>9, <1>11, <1>12, <1>13, <1>14 DEF SyncInv

LEMMA InsertKeeps == ASSUME SyncInv, NEW r \in Request, Insert(r) PROVE SyncInv'
BY InsertRefused, Inserted DEF Insert, mapVars

-----------------------------------------------------------------------------
(* The worker threads, after the insertion. *)

LEMMA SendKeeps == ASSUME SyncInv, NEW r \in Request, Send(r) PROVE SyncInv'
<1>1. /\ task[r].pc = "send" /\ task[r].sent < Len(task[r].slaves)
      /\ task' = [task EXCEPT ![r].sent = task[r].sent + 1]
      /\ UNCHANGED << packet_id_creater, m_PkgWaitMap, m_bucket_count, answers, clearing, stored,
                      replies, expired >>
  BY DEF Send, mapVars
<1>2. PICK c : c = << r, task[r].slaves[task[r].sent + 1] >>
               /\ channels' = channels \cup {c} /\ wire' = wire \cup {c}
  BY DEF Send
<1>3. task[r] \in TaskType /\ task[r].sent \in Nat /\ Len(task[r].slaves) \in Nat
      /\ \A i \in 1 .. Len(task[r].slaves) : task[r].slaves[i] \in Server
  BY TaskFacts, Lists DEF SyncInv
<1>4. /\ task' \in [Request -> TaskType]
      /\ task'[r].pc = "send" /\ task'[r].id = task[r].id /\ task'[r].slaves = task[r].slaves
      /\ task'[r].sent = task[r].sent + 1 /\ task'[r].code = task[r].code
      /\ \A q \in Request : q # r => task'[q] = task[q]
  <2>1. task' = [task EXCEPT ![r] = [task[r] EXCEPT !.sent = task[r].sent + 1]]
    BY <1>1 DEF SyncInv, TypeOK
  <2>2. [task[r] EXCEPT !.sent = task[r].sent + 1] \in TaskType
    BY SMTT(60), <1>3 DEF TaskType
  <2>3. task' \in [Request -> TaskType] /\ task'[r] = [task[r] EXCEPT !.sent = task[r].sent + 1]
        /\ \A q \in Request : q # r => task'[q] = task[q]
    BY <2>1, <2>2, Replaced DEF SyncInv
  <2> QED BY <1>1, <1>3, <2>3 DEF TaskType
<1>5. c \in Request \X Server /\ c[1] = r /\ c[2] = task[r].slaves[task[r].sent + 1]
  BY SMTT(60), <1>1, <1>2, <1>3
<1>6. TypeOK'
  BY <1>1, <1>2, <1>4, <1>5 DEF SyncInv, TypeOK
<1>7. Tasks'
  BY SMTT(60), <1>1, <1>3, <1>4 DEF SyncInv, Tasks, Early
<1>8. \A n \in m_PkgWaitMap : n.req \in Request
  BY DEF SyncInv, TypeOK, NodeType
<1>9. Nodes'
  <2>1. ASSUME NEW n \in m_PkgWaitMap PROVE NodeSound(n)'
    <3>1. NodeSound(n)
      BY DEF SyncInv, Nodes
    <3>2. CASE n.req = r
      <4>1. \A i \in task'[r].sent + 1 .. Len(task'[r].slaves) : task'[r].slaves[i] \in n.waits
        BY SMTT(60), <1>3, <1>4, <3>1, <3>2 DEF NodeSound
      <4> QED BY <1>1, <1>4, <3>1, <3>2, <4>1 DEF NodeSound, Early
    <3>3. CASE n.req # r
      BY <1>1, <1>4, <1>8, <3>1, <3>3 DEF NodeSound
    <3> QED BY <3>2, <3>3
  <2> QED BY <1>1, <2>1 DEF SyncInv, Nodes
<1>10. Packets'
  <2>1. ASSUME NEW d \in Request \X Server, SentTo(d) PROVE SentTo(d)'
    <3>1. PICK i \in 1 .. task[d[1]].sent : task[d[1]].slaves[i] = d[2]
      BY <2>1 DEF SentTo
    <3>2. i \in 1 .. task'[d[1]].sent /\ task'[d[1]].slaves = task[d[1]].slaves
      BY SMTT(60), <1>3, <1>4
    <3> QED BY <3>1, <3>2 DEF SentTo
  <2>2. SentTo(c)'
    <3>1. task[r].sent + 1 \in 1 .. task'[r].sent
      BY SMTT(60), <1>3, <1>4
    <3> QED BY <1>4, <1>5, <3>1 DEF SentTo
  <2>3. channels \cup wire \cup clearing \subseteq Request \X Server
        /\ \A a \in answers : a.chan \in Request \X Server
    BY DEF SyncInv, TypeOK
  <2> QED BY <1>1, <1>2, <2>1, <2>2, <2>3 DEF SyncInv, Packets
<1>11. Replied'
  <2>1. replies[r] = << >>
    BY SMTT(60), <1>1, <1>3 DEF SyncInv, Replied
  <2> QED BY <1>1, <1>4, <2>1, RepliesKept
<1>12. NodeHasChannel'
  <2> SUFFICES ASSUME NEW n \in m_PkgWaitMap, NEW s \in n.waits \ MayStop PROVE Removable(n, s)'
    BY <1>1 DEF NodeHasChannel
  <2>1. Removable(n, s)
    BY DEF SyncInv, NodeHasChannel
  <2>2. CASE n.req # r
    BY <1>1, <1>2, <1>4, <1>8, <2>1, <2>2 DEF Removable
  <2>3. CASE n.req = r
    <3>1. CASE << r, s >> \in channels \/ \E e \in clearing : e[1] = r
      BY <1>1, <1>2, <2>3, <3>1 DEF Removable
    <3>2. ASSUME NEW i \in task[r].sent + 1 .. Len(task[r].slaves), task[r].slaves[i] = s
          PROVE  Removable(n, s)'
      <4>1. CASE i = task[r].sent + 1
        <5>1. c = << n.req, s >>
          BY <1>2, <2>3, <3>2, <4>1
        <5> QED BY <1>2, <5>1 DEF Removable
      <4>2. CASE i # task[r].sent + 1
        <5>1. i \in task'[r].sent + 1 .. Len(task'[r].slaves)
          BY SMTT(60), <1>3, <1>4, <4>2
        <5> QED BY <1>4, <2>3, <3>2, <5>1 DEF Removable
      <4> QED BY <4>1, <4>2
    <3> QED BY <1>1, <2>1, <2>3, <3>1, <3>2 DEF Removable
  <2> QED BY <2>2, <2>3
<1> QED BY <1>6, <1>7, <1>9, <1>10, <1>11, <1>12 DEF SyncInv

\* A step of the handler past its insertion that sends nothing: what has to be shown
\* of it is that its nodes can still be removed and are still waited for.
LEMMA LateStep ==
  ASSUME SyncInv, NEW r \in Request, TypeOK', UNCHANGED << packet_id_creater, netVars >>,
         task[r].pc \in {"send", "clear", "finish"}, task'[r].pc \in {"clear", "finish", "done"},
         task'[r].pc = "clear" => task[r].sent < Len(task[r].slaves),
         task'[r].pc = "clear" => task'[r].code = "ok",
         task'[r].pc = "finish" => task'[r].code \in {"busy", "wait"},
         task'[r].id = task[r].id, task'[r].slaves = task[r].slaves, task'[r].sent = task[r].sent,
         \A q \in Request : q # r => task'[q] = task[q],
         m_PkgWaitMap' \subseteq m_PkgWaitMap,
         \A n \in m_PkgWaitMap' : n.req = r /\
            task'[r].pc \in {"finish", "done"} => task'[r].code = "wait",
         \A n \in m_PkgWaitMap' : n.req = r /\ task'[r].pc # "clear" =>
            \/ task[r].pc = "finish"
            \/ task[r].pc = "send" /\ task[r].sent = Len(task[r].slaves),
         Replied'
  PROVE  SyncInv'
<1> USE DEF netVars
<1>1. Tasks'
  BY SMTT(60) DEF SyncInv, Tasks, Early
<1>2. Nodes' /\ Packets'
  BY LateKeeps DEF Early
<1>3. NodeHasChannel'
  <2> SUFFICES ASSUME NEW n \in m_PkgWaitMap', NEW s \in n.waits \ MayStop PROVE Removable(n, s)'
    BY DEF NodeHasChannel
  <2>1. Removable(n, s) /\ n.req \in Request
    BY DEF SyncInv, NodeHasChannel, TypeOK, NodeType
  <2>2. CASE n.req # r
    BY <2>1, <2>2 DEF Removable
  <2>3. CASE n.req = r /\ task'[r].pc = "clear"
    BY <2>3 DEF Removable
  <2>4. CASE n.req = r /\ task'[r].pc # "clear"
    <3>1. \/ task[r].pc = "finish"
          \/ task[r].pc = "send" /\ task[r].sent = Len(task[r].slaves)
      BY <2>4
    <3>2. task[r].sent \in Nat /\ Len(task[r].slaves) \in Nat
      BY TaskFacts DEF SyncInv
    <3>3. << n.req, s >> \in channels \/ \E c \in clearing : c[1] = n.req
      BY SMTT(60), <2>1, <2>4, <3>1, <3>2 DEF Removable
    <3> QED BY <3>3 DEF Removable
  <2> QED BY <2>2, <2>3, <2>4
<1> QED BY <1>1, <1>2, <1>3 DEF SyncInv

LEMMA SendFailsKeeps == ASSUME SyncInv, NEW r \in Request, SendFails(r) PROVE SyncInv'
<1>1. /\ task[r].pc = "send" /\ task[r].sent < Len(task[r].slaves) /\ Goto(r, "clear")
      /\ UNCHANGED << packet_id_creater, mapVars, netVars, replies >>
  BY DEF SendFails
<1>2. /\ task' \in [Request -> TaskType]
      /\ task'[r].pc = "clear" /\ task'[r].id = task[r].id /\ task'[r].slaves = task[r].slaves
      /\ task'[r].sent = task[r].sent /\ task'[r].code = task[r].code
      /\ \A q \in Request : q # r => task'[q] = task[q]
  <2>1. "clear" \in Pcs
    BY DEF Pcs, Running
  <2> QED BY <1>1, <2>1, GotoTask DEF SyncInv
<1>3. TypeOK'
  BY <1>1, <1>2, TypeKept DEF SyncInv, TypeOK
<1>4. replies[r] = << >> /\ task[r].code = "ok"
  BY SMTT(60), <1>1, TaskFacts DEF SyncInv, Replied, Tasks
<1>5. Replied'
  BY <1>1, <1>2, <1>4, RepliesKept DEF mapVars, netVars
<1> QED BY <1>1, <1>2, <1>3, <1>4, <1>5, LateStep DEF mapVars

LEMMA ClearAfterFailureKeeps == ASSUME SyncInv, NEW r \in Request, ClearAfterFailure(r) PROVE SyncInv'
<1>1. /\ task[r].pc = "clear" /\ clear_waitnode(task[r].id) /\ Return(r, "busy")
      /\ UNCHANGED << packet_id_creater, netVars, replies >>
  BY DEF ClearAfterFailure
<1>2. /\ task' \in [Request -> TaskType]
      /\ task'[r].pc = "finish" /\ task'[r].id = task[r].id /\ task'[r].slaves = task[r].slaves
      /\ task'[r].sent = task[r].sent /\ task'[r].code = "busy"
      /\ \A q \in Request : q # r => task'[q] = task[q]
  <2>1. "busy" \in Codes
    BY DEF Codes
  <2> QED BY <1>1, <2>1, ReturnTask DEF SyncInv
<1>3. /\ m_PkgWaitMap' \subseteq m_PkgWaitMap /\ \A n \in m_PkgWaitMap' : n.id # task[r].id
      /\ m_bucket_count' \in [Bucket -> Nat]
  BY <1>1, Cleared
<1>4. \A n \in m_PkgWaitMap' : n.req # r
  BY <1>3 DEF SyncInv, Nodes, NodeSound
<1>5. TypeOK'
  BY <1>1, <1>2, <1>3 DEF SyncInv, TypeOK, netVars
<1>6. replies[r] = << >>
  BY <1>1 DEF SyncInv, Replied
<1>7. Replied'
  BY <1>1, <1>2, <1>3, <1>6, RepliesKept DEF netVars
<1> QED BY <1>1, <1>2, <1>3, <1>4, <1>5, <1>7, LateStep

LEMMA AllSentKeeps == ASSUME SyncInv, NEW r \in Request, AllSent(r) PROVE SyncInv'
<1>1. /\ task[r].pc = "send" /\ task[r].sent = Len(task[r].slaves) /\ Return(r, "wait")
      /\ UNCHANGED << packet_id_creater, mapVars, netVars, replies >>
  BY DEF AllSent
<1>2. /\ task' \in [Request -> TaskType]
      /\ task'[r].pc = "finish" /\ task'[r].id = task[r].id /\ task'[r].slaves = task[r].slaves
      /\ task'[r].sent = task[r].sent /\ task'[r].code = "wait"
      /\ \A q \in Request : q # r => task'[q] = task[q]
  <2>1. "wait" \in Codes
    BY DEF Codes
  <2> QED BY <1>1, <2>1, ReturnTask DEF SyncInv
<1>3. TypeOK'
  BY <1>1, <1>2, TypeKept DEF SyncInv, TypeOK
<1>4. Replied'
  BY <1>1, <1>2, RepliesKept DEF mapVars, netVars
<1> QED BY <1>1, <1>2, <1>3, <1>4, LateStep DEF mapVars

\* The handler of a put answers with an error only, whose node is gone.
LEMMA FinishKeeps == ASSUME SyncInv, NEW r \in Request, Finish(r) PROVE SyncInv'
<1>1. /\ task[r].pc = "finish" /\ Goto(r, "done") /\ UNCHANGED << packet_id_creater, mapVars, netVars >>
      /\ IF AnswersNow(Kind[r], task[r].code) THEN Reply(r, task[r].code) ELSE UNCHANGED replies
  BY DEF Finish
<1>2. /\ task' \in [Request -> TaskType]
      /\ task'[r].pc = "done" /\ task'[r].id = task[r].id /\ task'[r].slaves = task[r].slaves
      /\ task'[r].sent = task[r].sent /\ task'[r].code = task[r].code
      /\ \A q \in Request : q # r => task'[q] = task[q]
  <2>1. "done" \in Pcs
    BY DEF Pcs
  <2> QED BY <1>1, <2>1, GotoTask DEF SyncInv
<1>3. task[r].code \in Codes \ {"ok"}
  BY <1>1, TaskFacts DEF SyncInv, Tasks
<1>4. \A n \in m_PkgWaitMap : n.req = r => task[r].code = "wait"
  BY <1>1 DEF SyncInv, Nodes, NodeSound
<1>5. TypeOK'
  <2>1. replies' \in [Request -> Seq(Codes)]
    <3>1. CASE Reply(r, task[r].code)
      BY <1>3, <3>1, Answers DEF SyncInv
    <3>2. CASE UNCHANGED replies
      BY <3>2 DEF SyncInv, TypeOK
    <3> QED BY <1>1, <3>1, <3>2
  <2> QED BY <1>1, <1>2, <2>1, TypeKept DEF SyncInv, TypeOK
<1>6. Replied'
  <2>1. CASE AnswersNow(Kind[r], task[r].code)
    <3>1. Reply(r, task[r].code)
      BY <1>1, <2>1
    <3>2. Kind[r] = "lrem" \/ task[r].code # "wait"
      BY <2>1 DEF AnswersNow
    <3>3. task[r].code # "wait" => replies[r] = << >>
      BY <1>1 DEF SyncInv, Replied
    <3>4. Kind[r] = "lrem" \/ (replies[r] = << >> /\ \A n \in m_PkgWaitMap : n.req # r)
      BY <1>4, <3>2, <3>3
    <3> QED BY <1>1, <1>2, <1>3, <3>1, <3>4, ErrorReplied DEF mapVars, netVars
  <2>2. CASE UNCHANGED replies
    BY <1>1, <1>2, <2>2, RepliesKept DEF mapVars, netVars
  <2> QED BY <1>1, <2>1, <2>2
<1> QED BY <1>1, <1>2, <1>3, <1>4, <1>5, <1>6, LateStep DEF mapVars
=============================================================================
