---------------------------- MODULE DupAcks_proofs ----------------------------
(***************************************************************************)
(* The steps of the slaves, of the network thread and of the timeout       *)
(* thread keep what DupNodes_proofs says of the wait nodes, the packets    *)
(* and the answers; with the steps of the workers, every step does.        *)
(***************************************************************************)
EXTENDS DupNodes_proofs

\* Zenon proves the leaves that do not ask for SMT.
USE ZenonT(60)

LEMMA QuietTasks ==
  ASSUME SyncInv, UNCHANGED task
  PROVE  Tasks' /\ \A c : SentTo(c)' <=> SentTo(c)
BY DEF SyncInv, Tasks, SentTo

LEMMA QuietNodes ==
  ASSUME SyncInv, UNCHANGED task, m_PkgWaitMap' \subseteq m_PkgWaitMap, stored \subseteq stored'
  PROVE  Nodes'
BY DEF SyncInv, Nodes, NodeSound

LEMMA QuietReplies ==
  ASSUME SyncInv, UNCHANGED << task, replies >>, m_PkgWaitMap' \subseteq m_PkgWaitMap,
         stored \subseteq stored'
  PROVE  Replied'
BY DEF SyncInv, Replied, OneReply, AnswerAfterAcks, OkMeansStored

LEMMA SlaveKeeps ==
  ASSUME SyncInv, NEW c \in wire, SlaveStores(c) \/ SlaveRefuses(c)
  PROVE  SyncInv'
<1>1. /\ UNCHANGED << packet_id_creater, m_PkgWaitMap, m_bucket_count, task, channels, clearing,
                      replies, expired >>
      /\ wire' = wire \ {c}
  BY DEF SlaveStores, SlaveRefuses, mapVars
<1>2. PICK type \in {"ack", "return"} :
         /\ answers' = answers \cup {[chan |-> d, type |-> type] : d \in channels \cap {c}}
         /\ stored \subseteq stored' /\ stored' \subseteq stored \cup {c}
         /\ type = "ack" => c \in stored'
         /\ type = "return" => c[2] \in MayStop
  <2>1. CASE SlaveStores(c)
    <3>1. /\ answers' = answers \cup {[chan |-> d, type |-> "ack"] : d \in channels \cap {c}}
          /\ stored' = stored \cup {c}
      BY <2>1 DEF SlaveStores, Answer
    <3> QED BY <3>1
  <2>2. CASE SlaveRefuses(c)
    <3>1. /\ answers' = answers \cup {[chan |-> d, type |-> "return"] : d \in channels \cap {c}}
          /\ stored' = stored /\ c[2] \in MayStop
      BY <2>2 DEF SlaveRefuses, Answer
    <3> QED BY <3>1
  <2> QED BY <2>1, <2>2
<1>3. c \in Request \X Server
  BY DEF SyncInv, TypeOK
<1>4. \A a \in answers' : a \in answers \/ (a = [chan |-> c, type |-> type] /\ c \in channels)
  BY <1>2
<1>5. TypeOK'
  BY SMTT(60), <1>1, <1>2, <1>3, <1>4 DEF SyncInv, TypeOK
<1>6. Tasks' /\ \A d : SentTo(d)' <=> SentTo(d)
  BY <1>1, QuietTasks
<1>7. Nodes' /\ Replied'
  BY <1>1, <1>2, QuietNodes, QuietReplies
<1>8. Packets'
  <2>1. ASSUME NEW a \in answers'
        PROVE  /\ SentTo(a.chan) /\ (a.type = "ack" => a.chan \in stored')
               /\ (a.type = "return" => a.chan[2] \in MayStop)
    <3>1. CASE a \in answers
      BY <1>2, <3>1 DEF SyncInv, Packets
    <3>2. CASE a = [chan |-> c, type |-> type] /\ c \in channels
      BY <1>2, <3>2 DEF SyncInv, Packets
    <3> QED BY <1>4, <3>1, <3>2
  <2>2. \A d \in channels' \cup wire' \cup clearing' : SentTo(d)
    BY <1>1 DEF SyncInv, Packets
  <2>3. \A d, e \in clearing' : d = e
    BY <1>1 DEF SyncInv, Packets
  <2> QED BY <1>6, <2>1, <2>2, <2>3 DEF Packets
<1>9. NodeHasChannel'
  <2> SUFFICES ASSUME NEW n \in m_PkgWaitMap, NEW s \in n.waits \ MayStop PROVE Removable(n, s)'
    BY <1>1 DEF NodeHasChannel
  <2>1. Removable(n, s)
    BY DEF SyncInv, NodeHasChannel
  <2> QED BY <1>1, <2>1 DEF Removable
<1> QED BY <1>5, <1>6, <1>7, <1>8, <1>9 DEF SyncInv

\* An answer is taken off the network and its channel closed.
LEMMA ChannelClosed ==
  ASSUME SyncInv, UNCHANGED << packet_id_creater, task, wire, clearing, stored, expired >>,
         answers' \subseteq answers, channels' \subseteq channels
  PROVE  Packets'
<1>1. \A d : SentTo(d)' <=> SentTo(d)
  BY QuietTasks
<1> QED BY <1>1 DEF SyncInv, Packets

LEMMA HandleUnknownKeeps == ASSUME SyncInv, NEW a \in answers, HandleUnknown(a) PROVE SyncInv'
<1>1. /\ UNCHANGED << packet_id_creater, m_PkgWaitMap, m_bucket_count, task, wire, clearing, stored,
                      replies, expired >>
      /\ a.type = "return" /\ answers' = answers \ {a} /\ channels' = channels \ {a.chan}
  BY DEF HandleUnknown, mapVars
<1>2. TypeOK'
  BY <1>1 DEF SyncInv, TypeOK
<1>3. Tasks'
  BY <1>1, QuietTasks
<1>4. Nodes' /\ Replied' /\ Packets'
  BY <1>1, QuietNodes, QuietReplies, ChannelClosed
<1>5. a.chan[2] \in MayStop
  BY <1>1 DEF SyncInv, Packets
<1>6. NodeHasChannel'
  <2> SUFFICES ASSUME NEW n \in m_PkgWaitMap, NEW s \in n.waits \ MayStop PROVE Removable(n, s)'
    BY <1>1 DEF NodeHasChannel
  <2>1. Removable(n, s) /\ << n.req, s >> # a.chan
    BY SMTT(60), <1>5 DEF SyncInv, NodeHasChannel
  <2> QED BY <1>1, <2>1 DEF Removable
<1> QED BY <1>2, <1>3, <1>4, <1>6 DEF SyncInv

LEMMA StillRemovable ==
  ASSUME SyncInv, UNCHANGED << task, clearing >>, NEW c \in Request \X Server,
         channels' = channels \ {c}, NEW n \in m_PkgWaitMap, NEW s \in n.waits \ MayStop,
         n.req # c[1] \/ s # c[2]
  PROVE  Removable(n, s)'
<1>1. Removable(n, s) /\ << n.req, s >> # c
  BY SMTT(60) DEF SyncInv, NodeHasChannel
<1> QED BY <1>1 DEF Removable

\* Of the acknowledgement a of slave s for the write r.
AckOf(a, r, s) ==
  /\ a.type = "ack" /\ a.chan = << r, s >> /\ r \in Request /\ s \in Server
  /\ answers' = answers \ {a} /\ channels' = channels \ {a.chan}
  /\ UNCHANGED << packet_id_creater, task, wire, clearing, stored, expired >>

\* No node, or none that waits for s: the packet came late or twice.
LEMMA AckLate ==
  ASSUME SyncInv, NEW a \in answers, NEW r, NEW s, AckOf(a, r, s),
         \A n \in NodesAt(task[r].id) : s \notin n.waits, UNCHANGED << mapVars, replies >>
  PROVE  SyncInv'
<1> USE DEF AckOf, mapVars
<1>1. TypeOK'
  BY DEF SyncInv, TypeOK
<1>2. Tasks'
  BY QuietTasks
<1>3. Nodes' /\ Replied' /\ Packets'
  BY QuietNodes, QuietReplies, ChannelClosed
<1>4. NodeHasChannel'
  <2> SUFFICES ASSUME NEW n \in m_PkgWaitMap, NEW x \in n.waits \ MayStop PROVE Removable(n, x)'
    BY DEF NodeHasChannel
  <2>1. n.req = r => x # s
    BY DEF SyncInv, Nodes, NodeSound, NodesAt
  <2> QED BY SMTT(60), <2>1, StillRemovable
<1> QED BY <1>1, <1>2, <1>3, <1>4 DEF SyncInv

\* A node of its own write waits for s.
LEMMA AckedNode ==
  ASSUME SyncInv, IdsUnique, NEW a \in answers, NEW r, NEW s, AckOf(a, r, s),
         NEW n \in NodesAt(task[r].id), s \in n.waits
  PROVE  /\ n \in m_PkgWaitMap /\ n.req = r /\ NodeSound(n) /\ n \in NodeType
         /\ << r, s >> \in stored /\ SentTo(<< r, s >>)
         /\ \A m \in m_PkgWaitMap : m # n => m.req # r
<1>1. n \in m_PkgWaitMap /\ n.id = task[r].id /\ NodeSound(n) /\ n \in NodeType
  BY DEF NodesAt, SyncInv, Nodes, TypeOK
<1>2. << r, s >> \in stored /\ SentTo(<< r, s >>)
  BY DEF AckOf, SyncInv, Packets
<1>3. << r, s >> \in Request \X Server /\ << r, s >>[1] = r
  BY DEF AckOf
<1>4. n.req = r
  BY <1>1, <1>2, <1>3, Owner
<1>5. \A m \in m_PkgWaitMap : m # n => m.req # r
  BY <1>1, <1>4, OneNode
<1> QED BY <1>1, <1>2, <1>4, <1>5

\* ACK_WAIT: s is taken off the node.
LEMMA AckWait ==
  ASSUME SyncInv, IdsUnique, NEW a \in answers, NEW r, NEW s, AckOf(a, r, s),
         NEW n \in NodesAt(task[r].id), s \in n.waits,
         m_PkgWaitMap' = (m_PkgWaitMap \ {n}) \cup {[n EXCEPT !.waits = @ \ {s}]},
         UNCHANGED << m_bucket_count, replies >>
  PROVE  SyncInv'
<1>1. PICK k : k = [n EXCEPT !.waits = @ \ {s}]
  OBVIOUS
<1>2. /\ n \in m_PkgWaitMap /\ n.req = r /\ NodeSound(n) /\ n \in NodeType
      /\ << r, s >> \in stored /\ SentTo(<< r, s >>)
      /\ \A m \in m_PkgWaitMap : m # n => m.req # r
  BY AckedNode
<1>3. k.id = n.id /\ k.req = r /\ k.waits = n.waits \ {s} /\ k \in NodeType
  BY <1>1, <1>2 DEF NodeType
<1>4. m_PkgWaitMap' = (m_PkgWaitMap \ {n}) \cup {k} /\ k \notin m_PkgWaitMap \ {n}
  BY <1>1, <1>2, <1>3
<1>5. TypeOK'
  BY <1>3, <1>4 DEF SyncInv, TypeOK, AckOf
<1>6. Tasks'
  BY QuietTasks DEF AckOf
<1>7. Packets'
  BY ChannelClosed DEF AckOf
<1>8. Nodes'
  <2>1. \A x, y \in m_PkgWaitMap' : x.id = y.id => x = y
    BY <1>2, <1>3, <1>4 DEF SyncInv, Nodes
  <2>2. \A m \in m_PkgWaitMap : NodeSound(m)'
    BY DEF SyncInv, Nodes, NodeSound, AckOf
  <2>3. NodeSound(k)'
    <3> DEFINE t == task[r]
    <3>1. /\ t.id = n.id /\ t.pc \notin Early /\ (t.pc \in {"finish", "done"} => t.code = "wait")
          /\ n.waits \subseteq Servers(t.slaves)
          /\ \A j \in t.sent + 1 .. Len(t.slaves) : t.slaves[j] \in n.waits
          /\ \A x \in Servers(t.slaves) : x \in n.waits \/ << r, x >> \in stored
      BY <1>2 DEF NodeSound
    <3>2. PICK i \in 1 .. t.sent : t.slaves[i] = s
      BY <1>2 DEF SentTo
    <3>3. /\ t.sent \in Nat /\ Len(t.slaves) \in Nat /\ t.sent <= Len(t.slaves)
          /\ t.slaves \in SlaveLists \cup {<< >>}
      BY TaskFacts DEF SyncInv, Tasks, AckOf
    <3>4. \A j \in t.sent + 1 .. Len(t.slaves) : t.slaves[j] # s
      <4>1. \A x, y \in 1 .. Len(t.slaves) : t.slaves[x] = t.slaves[y] => x = y
        BY <3>3, Lists
      <4> HIDE DEF t
      <4> QED BY SMTT(60), <3>2, <3>3, <4>1
    <3>5. task' = task /\ stored' = stored
      BY DEF AckOf
    <3> QED BY <1>2, <1>3, <3>1, <3>4, <3>5 DEF NodeSound
  <2> QED BY <1>4, <2>1, <2>2, <2>3 DEF Nodes
<1>9. Replied'
  <2>1. AnswerAfterAcks'
    BY <1>2, <1>3, <1>4 DEF SyncInv, Replied, AnswerAfterAcks
  <2> QED BY <2>1 DEF SyncInv, Replied, OneReply, OkMeansStored, AckOf
<1>10. NodeHasChannel'
  <2>1. << r, s >> \in Request \X Server /\ channels' = channels \ {<< r, s >>}
        /\ UNCHANGED << task, clearing >>
    BY DEF AckOf
  <2>2. ASSUME NEW m \in m_PkgWaitMap, m # n, NEW x \in m.waits \ MayStop PROVE Removable(m, x)'
    BY <1>2, <2>1, <2>2, StillRemovable
  <2>3. ASSUME NEW x \in k.waits \ MayStop PROVE Removable(k, x)'
    <3>1. Removable(n, x)'
      BY <1>2, <1>3, <2>1, StillRemovable
    <3> QED BY <1>2, <1>3, <3>1 DEF Removable
  <2> QED BY <1>4, <2>2, <2>3 DEF NodeHasChannel
<1> QED BY <1>5, <1>6, <1>7, <1>8, <1>9, <1>10 DEF SyncInv

\* The last acknowledgement: every slave has the write, and nothing is left to send.
LEMMA AckComplete ==
  ASSUME SyncInv, IdsUnique, NEW a \in answers, NEW r, NEW s, AckOf(a, r, s),
         NEW n \in NodesAt(task[r].id), n.waits = {s}
  PROVE  /\ \A x \in Servers(task[r].slaves) : << r, x >> \in stored
         /\ \/ task[r].pc = "done"
            \/ task[r].pc = "finish" /\ task[r].code = "wait"
            \/ task[r].pc = "send" /\ task[r].sent = Len(task[r].slaves)
<1> DEFINE t == task[r]
<1>1. n.req = r /\ NodeSound(n) /\ << r, s >> \in stored /\ SentTo(<< r, s >>) /\ r \in Request
  BY AckedNode DEF AckOf
<1>2. /\ t.pc \notin Early /\ (t.pc \in {"finish", "done"} => t.code = "wait")
      /\ \A j \in t.sent + 1 .. Len(t.slaves) : t.slaves[j] = s
      /\ \A x \in Servers(t.slaves) : x = s \/ << r, x >> \in stored
  BY <1>1 DEF NodeSound
<1>3. PICK i \in 1 .. t.sent : t.slaves[i] = s
  BY <1>1 DEF SentTo
<1>4. /\ t.sent \in Nat /\ Len(t.slaves) \in Nat /\ t.sent <= Len(t.slaves)
      /\ t.slaves \in SlaveLists \cup {<< >>} /\ t \in TaskType
      /\ (t.pc = "clear" => t.sent < Len(t.slaves))
  BY <1>1, TaskFacts DEF SyncInv, Tasks
<1>5. \A x, y \in 1 .. Len(t.slaves) : t.slaves[x] = t.slaves[y] => x = y
  BY <1>4, Lists
<1>6. t.pc \in {"send", "clear", "finish", "done"}
  BY <1>2, <1>4 DEF TaskType, Running, Early
<1> HIDE DEF t
<1>7. t.sent = Len(t.slaves)
  BY SMTT(60), <1>2, <1>3, <1>4, <1>5
<1> QED BY SMTT(60), <1>1, <1>2, <1>4, <1>6, <1>7 DEF t

LEMMA AckReplied ==
  ASSUME SyncInv, IdsUnique, NEW a \in answers, NEW r, NEW s, AckOf(a, r, s),
         NEW n \in NodesAt(task[r].id), n.waits = {s},
         m_PkgWaitMap' = m_PkgWaitMap \ {n}, Reply(r, "ok")
  PROVE  Replied'
<1>1. /\ n \in m_PkgWaitMap /\ n.req = r /\ r \in Request
      /\ \A m \in m_PkgWaitMap : m # n => m.req # r
  BY SMTT(60), AckedNode DEF AckOf
<1>2. /\ \A x \in Servers(task[r].slaves) : << r, x >> \in stored
      /\ \/ task[r].pc = "done"
         \/ task[r].pc = "finish" /\ task[r].code = "wait"
         \/ task[r].pc = "send" /\ task[r].sent = Len(task[r].slaves)
  BY AckComplete
<1>3. UNCHANGED << task, stored >>
  BY DEF AckOf
<1>4. /\ Len(replies'[r]) = Len(replies[r]) + 1
      /\ \A q \in Request : q # r => replies'[q] = replies[q]
  <2>1. "ok" \in Codes
    BY DEF Codes
  <2> QED BY <1>1, <2>1, Answers DEF SyncInv
<1>5. \A q \in Request : replies'[q] # << >> =>
        \/ task'[q].pc = "done"
        \/ task'[q].pc = "finish" /\ task'[q].code = "wait"
        \/ task'[q].pc = "send" /\ task'[q].sent = Len(task'[q].slaves)
  BY <1>2, <1>3, <1>4 DEF SyncInv, Replied
<1>6. OneReply'
  <2>1. Kind[r] = "lrem" \/ replies[r] = << >>
    BY <1>1 DEF SyncInv, Replied, AnswerAfterAcks
  <2>2. replies[r] = << >> => Len(replies[r]) = 0
    BY SMTT(60)
  <2> QED BY SMTT(60), <1>4, <2>1, <2>2 DEF SyncInv, Replied, OneReply
<1>7. AnswerAfterAcks'
  <2>1. \A m \in m_PkgWaitMap : m.req \in Request
    BY DEF SyncInv, TypeOK, NodeType
  <2> QED BY <1>1, <1>4, <2>1 DEF SyncInv, Replied, AnswerAfterAcks
<1>8. OkMeansStored'
  <2> SUFFICES ASSUME NEW q \in Request, \E i \in 1 .. Len(replies'[q]) : replies'[q][i] = "ok"
               PROVE  \A x \in Servers(task[q].slaves) : << q, x >> \in stored
    BY <1>3 DEF OkMeansStored
  <2>1. CASE q = r
    BY <1>2, <2>1
  <2>2. CASE q # r
    BY <1>4, <2>2 DEF SyncInv, Replied, OkMeansStored
  <2> QED BY <2>1, <2>2
<1> QED BY <1>5, <1>6, <1>7, <1>8 DEF Replied

LEMMA AckLast ==
  ASSUME SyncInv, IdsUnique, NEW a \in answers, NEW r, NEW s, AckOf(a, r, s),
         NEW n \in NodesAt(task[r].id), n.waits = {s},
         m_PkgWaitMap' = m_PkgWaitMap \ {n}, m_bucket_count' = changeBucketCount(BucketOf[r], -1),
         Reply(n.req, "ok")
  PROVE  SyncInv'
<1>1. /\ n \in m_PkgWaitMap /\ n.req = r /\ r \in Request
      /\ \A m \in m_PkgWaitMap : m # n => m.req # r
  BY SMTT(60), AckedNode DEF AckOf
<1>2. m_bucket_count' \in [Bucket -> Nat]
  BY SMTT(60), <1>1, DupAssumption, CountType
<1>3. replies' \in [Request -> Seq(Codes)]
  <2>1. "ok" \in Codes
    BY DEF Codes
  <2> QED BY <1>1, <2>1, Answers DEF SyncInv
<1>4. TypeOK'
  BY <1>2, <1>3 DEF SyncInv, TypeOK, AckOf
<1>5. Tasks'
  BY QuietTasks DEF AckOf
<1>6. Nodes' /\ Packets'
  BY QuietNodes, ChannelClosed DEF AckOf
<1>7. Replied'
  BY <1>1, AckReplied
<1>8. NodeHasChannel'
  <2>1. << r, s >> \in Request \X Server /\ channels' = channels \ {<< r, s >>}
        /\ UNCHANGED << task, clearing >>
    BY DEF AckOf
  <2>2. ASSUME NEW m \in m_PkgWaitMap, m # n, NEW x \in m.waits \ MayStop PROVE Removable(m, x)'
    BY <1>1, <2>1, <2>2, StillRemovable
  <2> QED BY <2>2 DEF NodeHasChannel
<1> QED BY <1>4, <1>5, <1>6, <1>7, <1>8 DEF SyncInv

LEMMA HandleAckKeeps == ASSUME SyncInv, IdsUnique, NEW a \in answers, HandleAck(a) PROVE SyncInv'
<1>1. PICK r, s : a.chan = << r, s >> /\ r \in Request /\ s \in Server
  BY SMTT(60) DEF SyncInv, TypeOK
<1>2. AckOf(a, r, s) /\ doResponse(task[r].id, BucketOf[r], s)
  BY SMTT(60), <1>1 DEF HandleAck, AckOf
<1>3. CASE (\A n \in NodesAt(task[r].id) : s \notin n.waits) /\ UNCHANGED << mapVars, replies >>
  BY <1>2, <1>3, AckLate
<1>4. ASSUME NEW n \in NodesAt(task[r].id), s \in n.waits,
             m_PkgWaitMap' = (m_PkgWaitMap \ {n}) \cup {[n EXCEPT !.waits = @ \ {s}]},
             UNCHANGED << m_bucket_count, replies >>
      PROVE  SyncInv'
  BY <1>2, <1>4, AckWait
<1>5. ASSUME NEW n \in NodesAt(task[r].id), n.waits = {s}, m_PkgWaitMap' = m_PkgWaitMap \ {n},
             m_bucket_count' = changeBucketCount(BucketOf[r], -1), Reply(n.req, "ok")
      PROVE  SyncInv'
  BY <1>2, <1>5, AckLast
<1> QED BY <1>2, <1>3, <1>4, <1>5 DEF doResponse

LEMMA TimeoutKeeps == ASSUME SyncInv, NEW c \in channels, Timeout(c) PROVE SyncInv'
<1>1. /\ UNCHANGED << packet_id_creater, mapVars, task, wire, stored, replies >>
      /\ clearing = {} /\ clearing' = IF NodesAt(task[c[1]].id) = {} THEN {} ELSE {c}
      /\ channels' = channels \ {c} /\ answers' = {a \in answers : a.chan # c}
      /\ expired' = expired \cup {c[1]}
  BY DEF Timeout
<1>2. c \in Request \X Server
  BY DEF SyncInv, TypeOK
<1>3. TypeOK'
  BY <1>1, <1>2 DEF SyncInv, TypeOK, mapVars
<1>4. Tasks' /\ \A d : SentTo(d)' <=> SentTo(d)
  BY <1>1, QuietTasks
<1>5. Nodes' /\ Replied'
  BY <1>1, QuietNodes, QuietReplies DEF mapVars
<1>6. Packets'
  <2>1. clearing' \subseteq {c} /\ channels' \subseteq channels /\ answers' \subseteq answers
        /\ wire' = wire /\ stored' = stored
    BY <1>1
  <2> QED BY <1>4, <2>1 DEF SyncInv, Packets
<1>7. NodeHasChannel'
  <2> SUFFICES ASSUME NEW n \in m_PkgWaitMap, NEW s \in n.waits \ MayStop PROVE Removable(n, s)'
    BY <1>1 DEF NodeHasChannel, mapVars
  <2>1. Removable(n, s) /\ n.id = task[n.req].id
    BY DEF SyncInv, NodeHasChannel, Nodes, NodeSound
  <2>2. CASE n.req = c[1]
    <3>1. n \in NodesAt(task[c[1]].id)
      BY <2>1, <2>2 DEF NodesAt
    <3> QED BY <1>1, <2>2, <3>1 DEF Removable
  <2>3. CASE n.req # c[1]
    <3>1. << n.req, s >> # c
      BY SMTT(60), <1>2, <2>3
    <3> QED BY <1>1, <2>1, <3>1 DEF Removable
  <2> QED BY <2>2, <2>3
<1> QED BY <1>3, <1>4, <1>5, <1>6, <1>7 DEF SyncInv

LEMMA TimeoutClearKeeps == ASSUME SyncInv, NEW c \in clearing, TimeoutClear(c) PROVE SyncInv'
<1>1. /\ UNCHANGED << packet_id_creater, task, channels, wire, answers, stored, replies, expired >>
      /\ clearing' = {} /\ clear_waitnode(task[c[1]].id)
  BY DEF TimeoutClear
<1>2. /\ m_PkgWaitMap' \subseteq m_PkgWaitMap /\ \A n \in m_PkgWaitMap' : n.id # task[c[1]].id
      /\ m_bucket_count' \in [Bucket -> Nat]
  BY <1>1, Cleared
<1>3. TypeOK'
  BY <1>1, <1>2 DEF SyncInv, TypeOK
<1>4. Tasks' /\ \A d : SentTo(d)' <=> SentTo(d)
  BY <1>1, QuietTasks
<1>5. Nodes' /\ Replied'
  BY <1>1, <1>2, QuietNodes, QuietReplies
<1>6. Packets'
  BY <1>1, <1>4 DEF SyncInv, Packets
<1>7. NodeHasChannel'
  <2> SUFFICES ASSUME NEW n \in m_PkgWaitMap', NEW s \in n.waits \ MayStop PROVE Removable(n, s)'
    BY DEF NodeHasChannel
  <2>1. n \in m_PkgWaitMap /\ Removable(n, s) /\ n.req # c[1]
    BY <1>2 DEF SyncInv, NodeHasChannel, Nodes, NodeSound
  <2>2. \A d \in clearing : d[1] # n.req
    BY <2>1 DEF SyncInv, Packets
  <2> QED BY <1>1, <2>1, <2>2 DEF Removable
<1> QED BY <1>3, <1>4, <1>5, <1>6, <1>7 DEF SyncInv

-----------------------------------------------------------------------------

\* While two writes with slaves never share a packet id, every step of the worker,
\* network and timeout threads of dup_sync_manager keeps what the wait nodes, the
\* packets and answers on their way and the answers to the clients mean.
LEMMA SyncStep == SyncInv /\ IdsUnique /\ [Next]_vars => SyncInv'
<1> SUFFICES ASSUME SyncInv, IdsUnique, [Next]_vars PROVE SyncInv'
  OBVIOUS
<1>1. ASSUME NEW r \in Request, Worker(r) PROVE SyncInv'
  BY <1>1, LocalFailsKeeps, DrawIdKeeps, DrawAgainKeeps, CheckSizeKeeps, InsertKeeps, SendKeeps,
     SendFailsKeeps, ClearAfterFailureKeeps, AllSentKeeps, FinishKeeps DEF Worker
<1>2. CASE Slave
  BY <1>2, SlaveKeeps DEF Slave
<1>3. CASE Network
  <2>1. PICK a \in answers : HandleAck(a) \/ HandleUnknown(a)
    BY <1>3 DEF Network
  <2> QED BY <2>1, HandleAckKeeps, HandleUnknownKeeps
<1>4. CASE TimeoutThread
  BY <1>4, TimeoutKeeps, TimeoutClearKeeps DEF TimeoutThread
<1>5. CASE UNCHANGED vars
  <2>1. UNCHANGED << packet_id_creater, m_PkgWaitMap, m_bucket_count, task, channels, wire, answers,
                     clearing, stored, replies, expired >>
    BY <1>5 DEF vars
  <2>2. Tasks'
    BY <2>1, QuietTasks
  <2>3. Nodes' /\ Replied' /\ Packets'
    BY <2>1, QuietNodes, QuietReplies, ChannelClosed
  <2>4. TypeOK'
    BY <2>1 DEF SyncInv, TypeOK
  <2>5. NodeHasChannel'
    <3> SUFFICES ASSUME NEW n \in m_PkgWaitMap, NEW s \in n.waits \ MayStop PROVE Removable(n, s)'
      BY <2>1 DEF NodeHasChannel
    <3>1. Removable(n, s)
      BY DEF SyncInv, NodeHasChannel
    <3> QED BY <2>1, <3>1 DEF Removable
  <2> QED BY <2>2, <2>3, <2>4, <2>5 DEF SyncInv
<1> QED BY <1>1, <1>2, <1>3, <1>4, <1>5 DEF Next
===============================================================================
