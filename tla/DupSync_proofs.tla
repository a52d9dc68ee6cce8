--------------------------- MODULE DupSync_proofs ---------------------------
(***************************************************************************)
(* The safety of the synchronous duplication, for any writes, buckets,     *)
(* slaves, worker threads and limits, as long as the packet ids do not     *)
(* come round within the run (IdsAssumption).                              *)
(*                                                                         *)
(* A wait node is found by its packet id alone, so everything rests on the *)
(* ids: two writes that have slaves never have the same one (IdsApart).    *)
(* packet_id_creater only moves on, and each write moves it at most twice, *)
(* so an id stays behind it by less than a full round.  With that, the     *)
(* steps keep what DupNodes_proofs says of nodes, packets and answers; the *)
(* counts of the nodes are shown here.                                     *)
(***************************************************************************)
EXTENDS DupAcks_proofs, FiniteSetTheorems

\* Zenon proves the leaves that do not ask for SMT.
USE ZenonT(60)

Behind(last, id) == IF last >= id THEN last - id ELSE last - id + IdMod

\* What may still move packet_id_creater: a write draws, and draws again.
MayDraw == {r \in Request : task[r].pc \in {"queued", "draw_again"}}
Undrawn == {r \in Request : task[r].pc = "queued"}
DrawsLeft == Cardinality(MayDraw) + Cardinality(Undrawn)

IdsApart ==
  /\ \A r \in Request : task[r].slaves # << >> =>
        Behind(packet_id_creater, task[r].id) + MAX_DUP_COUNT * DrawsLeft < IdMod
  /\ \A r, q \in Request :
        task[r].id = task[q].id /\ task[r].slaves # << >> /\ task[q].slaves # << >> => r = q

\* A worker between its check of the size and its insertion.
Inserting == {r \in Request : task[r].pc = "insert"}
Busy == {r \in Request : task[r].pc \in Running}

Bounded ==
  /\ Cardinality(Busy) <= Threads
  /\ Cardinality(m_PkgWaitMap) + Cardinality(Inserting) <= TAIR_MAX_DUP_MAP_SIZE + Threads

NodesOf(b) == {n \in m_PkgWaitMap : BucketOf[n.req] = b}

Counted == IsFiniteSet(m_PkgWaitMap) /\ BucketCountExact /\ Bounded

DupInv == SyncInv /\ IdsApart /\ IdNeverMixed /\ Counted

-----------------------------------------------------------------------------
(* Ids modulo IdMod. *)

LEMMA ModOnce ==
  ASSUME NEW M \in Nat \ {0}, NEW x \in Nat, x < 2 * M
  PROVE  x % M = IF x < M THEN x ELSE x - M
BY SMTT(60)

LEMMA MovedOn ==
  ASSUME NEW last \in 0 .. IdMod - 1, NEW id \in 0 .. IdMod - 1, NEW k \in Nat,
         Behind(last, id) + k < IdMod
  PROVE  /\ (last + k) % IdMod \in 0 .. IdMod - 1
         /\ Behind((last + k) % IdMod, id) = Behind(last, id) + k
<1> DEFINE y == last + k
           x == y % IdMod
<1>1. IdMod \in Nat \ {0} /\ last \in Nat /\ id \in Nat /\ last < IdMod /\ id < IdMod
  BY SMTT(60), DupAssumption
<1>2. y \in Nat /\ y < 2 * IdMod
  BY SMTT(60), <1>1 DEF Behind
<1> HIDE DEF y
<1>3. x = IF y < IdMod THEN y ELSE y - IdMod
  BY <1>1, <1>2, ModOnce
<1> HIDE DEF x
<1>4. x \in 0 .. IdMod - 1 /\ Behind(x, id) = Behind(last, id) + k
  BY SMTT(60), <1>1, <1>2, <1>3 DEF Behind, y
<1> QED BY <1>4 DEF x, y

LEMMA BehindType ==
  ASSUME NEW last \in 0 .. IdMod - 1, NEW id \in 0 .. IdMod - 1
  PROVE  Behind(last, id) \in Nat /\ Behind(last, last) = 0
<1>1. IdMod \in Nat /\ last \in Nat /\ id \in Nat /\ id < IdMod
  BY SMTT(60), DupAssumption
<1> QED BY SMTT(60), <1>1 DEF Behind

LEMMA ProductType == ASSUME NEW m \in Nat, NEW k \in Nat PROVE m * k \in Nat
BY SMTT(60)

LEMMA SpendOne ==
  ASSUME NEW m \in Nat, NEW k \in Nat, NEW j \in Nat, j < k, NEW d \in Nat, NEW n \in Nat, n <= m,
         NEW M \in Nat, d + m * k < M
  PROVE  d + n + m * j < M
<1>1. m * k = m * j + m * (k - j)
  BY SMTT(60)
<1>2. m * (k - j) >= m
  BY SMTT(60)
<1>3. m * j \in Nat /\ m * k \in Nat /\ m * (k - j) \in Nat
  BY SMTT(60)
<1> QED BY SMTT(60), <1>1, <1>2, <1>3

LEMMA NoMore ==
  ASSUME NEW m \in Nat, NEW k \in Nat, NEW j \in Nat, j <= k
  PROVE  m * j <= m * k /\ m * j \in Nat /\ m * k \in Nat
<1>1. m * k = m * j + m * (k - j) /\ m * (k - j) \in Nat /\ m * j \in Nat /\ m * k \in Nat
  BY SMTT(60)
<1> QED BY SMTT(60), <1>1

LEMMA FirstDraw ==
  ASSUME NEW m \in Nat \ {0}, NEW c \in Nat, NEW j \in Nat, j < 2 * c, NEW M \in Nat, 2 * m * c <= M
  PROVE  m * j < M
<1>1. 2 * m * c = m * j + m * (2 * c - j)
  BY SMTT(60)
<1>2. m * (2 * c - j) >= 1 /\ m * j \in Nat
  BY SMTT(60)
<1> QED BY SMTT(60), <1>1, <1>2

-----------------------------------------------------------------------------
(* Counts. *)

LEMMA Fewer ==
  ASSUME NEW S, NEW T, IsFiniteSet(S), T \subseteq S
  PROVE  /\ IsFiniteSet(T) /\ Cardinality(T) \in Nat /\ Cardinality(S) \in Nat
         /\ Cardinality(T) <= Cardinality(S)
BY FS_Subset, FS_CardinalityType

LEMMA OneFewer ==
  ASSUME NEW S, NEW T, IsFiniteSet(S), NEW x \in S, T \subseteq S, x \notin T
  PROVE  /\ IsFiniteSet(T) /\ Cardinality(T) \in Nat /\ Cardinality(S) \in Nat
         /\ Cardinality(T) < Cardinality(S)
<1>1. Cardinality(T) <= Cardinality(S) /\ (Cardinality(S) = Cardinality(T) => S = T)
      /\ IsFiniteSet(T)
  BY FS_Subset
<1> QED BY SMTT(60), <1>1, FS_CardinalityType

LEMMA Subsets ==
  /\ IsFiniteSet(MayDraw) /\ IsFiniteSet(Undrawn) /\ IsFiniteSet(Inserting) /\ IsFiniteSet(Busy)
  /\ DrawsLeft \in Nat /\ Cardinality(Inserting) \in Nat /\ Cardinality(Busy) \in Nat
<1>1. IsFiniteSet(Request)
  BY DupAssumption
<1>2. MayDraw \subseteq Request /\ Undrawn \subseteq Request /\ Inserting \subseteq Request
      /\ Busy \subseteq Request
  BY DEF MayDraw, Undrawn, Inserting, Busy
<1>3. /\ IsFiniteSet(MayDraw) /\ IsFiniteSet(Undrawn) /\ IsFiniteSet(Inserting) /\ IsFiniteSet(Busy)
      /\ Cardinality(MayDraw) \in Nat /\ Cardinality(Undrawn) \in Nat
      /\ Cardinality(Inserting) \in Nat /\ Cardinality(Busy) \in Nat
  BY <1>1, <1>2, Fewer
<1> QED BY SMTT(60), <1>3 DEF DrawsLeft

-----------------------------------------------------------------------------
(* The ids. *)

LEMMA IdsKept ==
  ASSUME DupInv, UNCHANGED packet_id_creater, MayDraw' \subseteq MayDraw, Undrawn' \subseteq Undrawn,
         \A q \in Request : task'[q].id = task[q].id /\ task'[q].slaves = task[q].slaves
  PROVE  IdsApart'
<1>1. DrawsLeft' <= DrawsLeft /\ DrawsLeft' \in Nat /\ DrawsLeft \in Nat
  BY SMTT(60), Subsets, Fewer DEF DrawsLeft
<1>2. MAX_DUP_COUNT \in Nat /\ IdMod \in Nat
  BY DupAssumption
<1>3. /\ MAX_DUP_COUNT * DrawsLeft' <= MAX_DUP_COUNT * DrawsLeft
      /\ MAX_DUP_COUNT * DrawsLeft' \in Nat /\ MAX_DUP_COUNT * DrawsLeft \in Nat
  BY <1>1, <1>2, NoMore
<1>4. ASSUME NEW q \in Request, task'[q].slaves # << >>
      PROVE  Behind(packet_id_creater', task'[q].id) + MAX_DUP_COUNT * DrawsLeft' < IdMod
  <2>1. Behind(packet_id_creater, task[q].id) + MAX_DUP_COUNT * DrawsLeft < IdMod
    BY <1>4 DEF DupInv, IdsApart
  <2>2. Behind(packet_id_creater, task[q].id) \in Int
    <3>1. packet_id_creater \in Int /\ task[q].id \in Int
      BY SMTT(60), <1>2, TaskFacts DEF DupInv, SyncInv, SyncInv, TypeOK
    <3> QED BY SMTT(60), <1>2, <3>1 DEF Behind
  <2>3. Behind(packet_id_creater', task'[q].id) = Behind(packet_id_creater, task[q].id)
    OBVIOUS
  <2> QED BY SMTT(60), <1>2, <1>3, <2>1, <2>2, <2>3
<1> QED BY <1>4 DEF DupInv, IdsApart

LEMMA MixedKept ==
  ASSUME DupInv,
         \A q \in Request : task[q].pc # "queued" =>
            /\ task'[q].pc # "queued" /\ task'[q].id = task[q].id /\ task'[q].slaves = task[q].slaves
            /\ task'[q].code = "failed" => task[q].code = "failed",
         \A q \in Request : task'[q].code = "idmixed" => task[q].code = "idmixed"
  PROVE  IdNeverMixed'
<1>1. ASSUME NEW r \in Request, task'[r].code = "idmixed"
      PROVE  \E q \in Request : /\ task'[q].pc # "queued" /\ task'[q].code # "failed"
                                /\ task'[q].slaves = << >> /\ task'[q].id = task'[r].id
  <2>1. task[r].code = "idmixed"
    BY <1>1
  <2>2. task[r].pc # "queued"
    BY <2>1 DEF DupInv, SyncInv, Tasks, Early
  <2>3. PICK q \in Request : /\ task[q].pc # "queued" /\ task[q].code # "failed"
                             /\ task[q].slaves = << >> /\ task[q].id = task[r].id
    BY <2>1 DEF DupInv, IdNeverMixed
  <2> QED BY <2>2, <2>3
<1> QED BY <1>1 DEF IdNeverMixed

\* The handler of r moves on with its id and its slaves.
LEMMA SameDraw ==
  ASSUME DupInv, NEW r \in Request, UNCHANGED packet_id_creater,
         task[r].pc \notin {"queued", "draw_again"}, task'[r].pc \notin {"queued", "draw_again"},
         task'[r].id = task[r].id, task'[r].slaves = task[r].slaves,
         task'[r].code \notin {"idmixed", "failed"} \/ task'[r].code = task[r].code,
         \A q \in Request : q # r => task'[q] = task[q]
  PROVE  IdsApart' /\ IdNeverMixed'
<1>1. MayDraw' \subseteq MayDraw /\ Undrawn' \subseteq Undrawn
  BY DEF MayDraw, Undrawn
<1>2. IdsApart'
  BY <1>1, IdsKept
<1> QED BY <1>2, MixedKept

\* The counter moves on by the slaves of one write: an id drawn before stays behind
\* it by less than a round.
LEMMA StaysBehind ==
  ASSUME DupInv, NEW len \in Nat, len <= MAX_DUP_COUNT,
         packet_id_creater' = (packet_id_creater + len) % IdMod,
         DrawsLeft' \in Nat, DrawsLeft' < DrawsLeft, NEW q \in Request, task[q].slaves # << >>
  PROVE  /\ Behind(packet_id_creater', task[q].id) = Behind(packet_id_creater, task[q].id) + len
         /\ Behind(packet_id_creater, task[q].id) \in Nat
         /\ Behind(packet_id_creater', task[q].id) + MAX_DUP_COUNT * DrawsLeft' < IdMod
<1> DEFINE d == Behind(packet_id_creater, task[q].id)
<1>1. MAX_DUP_COUNT \in Nat /\ IdMod \in Nat /\ DrawsLeft \in Nat
  BY DupAssumption, Subsets
<1>2. packet_id_creater \in 0 .. IdMod - 1 /\ task[q].id \in 0 .. IdMod - 1
  BY TaskFacts DEF DupInv, SyncInv, TypeOK
<1>3. d \in Nat
  BY <1>2, BehindType
<1>4. d + MAX_DUP_COUNT * DrawsLeft < IdMod
  BY DEF DupInv, IdsApart
<1> HIDE DEF d
<1>5. d + len + MAX_DUP_COUNT * DrawsLeft' < IdMod
  BY <1>1, <1>3, <1>4, SpendOne
<1>6. MAX_DUP_COUNT * DrawsLeft' \in Nat
  BY <1>1, ProductType
<1>7. d + len < IdMod
  <2> DEFINE x == MAX_DUP_COUNT * DrawsLeft'
  <2>1. x \in Nat /\ d + len + x < IdMod
    BY <1>5, <1>6
  <2> HIDE DEF x
  <2> QED BY SMTT(60), <1>1, <1>3, <2>1
<1>8. Behind((packet_id_creater + len) % IdMod, task[q].id) = d + len
  BY <1>2, <1>7, MovedOn DEF d
<1> QED BY <1>3, <1>5, <1>8 DEF d

\* What DrawId does to the handler and to the counter.
LEMMA DrawIdTask ==
  ASSUME SyncInv, NEW r \in Request, DrawId(r)
  PROVE  /\ \E list \in SlaveLists :
               /\ packet_id_creater' = (packet_id_creater + Len(list)) % IdMod
               /\ task'[r].slaves = list
         /\ task'[r].pc \in {"draw_again", "check"} /\ task'[r].id = packet_id_creater'
         /\ task'[r].code = "ok" /\ \A q \in Request : q # r => task'[q] = task[q]
<1>1. PICK list \in SlaveLists :
         /\ packet_id_creater' = (packet_id_creater + Len(list)) % IdMod
         /\ task' = [task EXCEPT ![r] =
                       [pc |-> IF packet_id_creater' = 0 THEN "draw_again" ELSE "check",
                        id |-> packet_id_creater', slaves |-> list, sent |-> 0, code |-> "ok"]]
  BY DEF DrawId
<1> DEFINE pc == IF packet_id_creater' = 0 THEN "draw_again" ELSE "check"
           t == [pc |-> pc, id |-> packet_id_creater', slaves |-> list, sent |-> 0, code |-> "ok"]
<1>2. pc \in {"draw_again", "check"}
  OBVIOUS
<1> HIDE DEF pc
<1>3. task' = [task EXCEPT ![r] = t]
  BY <1>1 DEF pc
<1>4. task'[r] = t /\ \A q \in Request : q # r => task'[q] = task[q]
  BY <1>3 DEF SyncInv, TypeOK
<1> QED BY SMTT(60), <1>1, <1>2, <1>4

LEMMA DrawIdIds == ASSUME DupInv, NEW r \in Request, DrawId(r) PROVE IdsApart' /\ IdNeverMixed'
<1>1. task[r].pc = "queued"
  BY DEF DrawId
<1>2. PICK list \in SlaveLists :
         /\ packet_id_creater' = (packet_id_creater + Len(list)) % IdMod
         /\ task'[r].slaves = list
         /\ task'[r].pc \in {"draw_again", "check"} /\ task'[r].id = packet_id_creater'
         /\ task'[r].code = "ok" /\ \A q \in Request : q # r => task'[q] = task[q]
  BY DrawIdTask DEF DupInv
<1>3. Len(list) \in Nat /\ Len(list) <= MAX_DUP_COUNT /\ (list = << >> <=> Len(list) = 0)
  BY Lists
<1>4. packet_id_creater' \in 0 .. IdMod - 1
  BY <1>2, <1>3, NextId DEF DupInv, SyncInv
<1>5. DrawsLeft' \in Nat /\ DrawsLeft' < DrawsLeft /\ DrawsLeft' < 2 * Cardinality(Request)
      /\ Cardinality(Request) \in Nat
  <2>1. MayDraw' \subseteq MayDraw /\ Undrawn' \subseteq Undrawn /\ r \notin Undrawn' /\ r \in Undrawn
        /\ MayDraw \subseteq Request /\ Undrawn \subseteq Request
    BY <1>1, <1>2 DEF MayDraw, Undrawn
  <2>2. IsFiniteSet(Request) /\ IsFiniteSet(MayDraw) /\ IsFiniteSet(Undrawn)
    BY DupAssumption, Subsets
  <2>3. /\ Cardinality(MayDraw') <= Cardinality(MayDraw) /\ Cardinality(MayDraw) <= Cardinality(Request)
        /\ Cardinality(MayDraw') \in Nat /\ Cardinality(MayDraw) \in Nat /\ Cardinality(Request) \in Nat
    BY <2>1, <2>2, Fewer
  <2>4. /\ Cardinality(Undrawn') < Cardinality(Undrawn) /\ Cardinality(Undrawn') \in Nat
        /\ Cardinality(Undrawn) \in Nat
    BY <2>1, <2>2, OneFewer
  <2>5. Cardinality(Undrawn) <= Cardinality(Request)
    BY <2>1, <2>2, Fewer
  <2> QED BY SMTT(60), <2>3, <2>4, <2>5 DEF DrawsLeft
<1>6. ASSUME NEW q \in Request, q # r, task'[q].slaves # << >>
      PROVE  /\ Behind(packet_id_creater', task'[q].id) + MAX_DUP_COUNT * DrawsLeft' < IdMod
             /\ list # << >> => task'[q].id # packet_id_creater'
  <2>1. task'[q] = task[q]
    BY <1>2, <1>6
  <2>2. /\ Behind(packet_id_creater', task[q].id) = Behind(packet_id_creater, task[q].id) + Len(list)
        /\ Behind(packet_id_creater, task[q].id) \in Nat
        /\ Behind(packet_id_creater', task[q].id) + MAX_DUP_COUNT * DrawsLeft' < IdMod
    BY <1>2, <1>3, <1>5, <1>6, <2>1, StaysBehind
  <2>3. list # << >> => task[q].id # packet_id_creater'
    <3>1. Behind(packet_id_creater', packet_id_creater') = 0
      BY <1>4, BehindType
    <3> QED BY SMTT(60), <1>3, <2>2, <3>1
  <2> QED BY <2>1, <2>2, <2>3
<1>7. Behind(packet_id_creater', task'[r].id) + MAX_DUP_COUNT * DrawsLeft' < IdMod
  <2>1. MAX_DUP_COUNT * DrawsLeft' < IdMod /\ MAX_DUP_COUNT * DrawsLeft' \in Nat
    <3>1. MAX_DUP_COUNT \in Nat \ {0} /\ IdMod \in Nat
          /\ 2 * MAX_DUP_COUNT * Cardinality(Request) <= IdMod
      BY DupAssumption, IdsAssumption
    <3> QED BY <1>5, <3>1, FirstDraw, ProductType
  <2>2. Behind(packet_id_creater', task'[r].id) = 0
    BY <1>2, <1>4, BehindType
  <2> QED BY SMTT(60), <2>1, <2>2
<1>8. ASSUME NEW q \in Request, NEW p \in Request, task'[q].id = task'[p].id,
             task'[q].slaves # << >>, task'[p].slaves # << >>
      PROVE  q = p
  <2>1. CASE q = r \/ p = r
    BY <1>2, <1>6, <1>8, <2>1
  <2>2. CASE q # r /\ p # r
    BY <1>2, <1>8, <2>2 DEF DupInv, IdsApart
  <2> QED BY <2>1, <2>2
<1>9. \A q \in Request : task'[q].slaves # << >> =>
         Behind(packet_id_creater', task'[q].id) + MAX_DUP_COUNT * DrawsLeft' < IdMod
  BY <1>6, <1>7
<1>10. IdNeverMixed'
  BY <1>1, <1>2, MixedKept
<1> QED BY <1>8, <1>9, <1>10 DEF IdsApart

\* What DrawAgain does.
LEMMA DrawAgainTask ==
  ASSUME SyncInv, NEW r \in Request, DrawAgain(r)
  PROVE  /\ task'[r].pc = "check" /\ task'[r].id = task[r].id /\ task'[r].slaves = task[r].slaves
         /\ task'[r].code = task[r].code /\ \A q \in Request : q # r => task'[q] = task[q]
<1>1. "check" \in Pcs
  BY DEF Pcs, Running
<1> QED BY <1>1, GotoTask DEF SyncInv, DrawAgain

LEMMA DrawAgainIds == ASSUME DupInv, NEW r \in Request, DrawAgain(r) PROVE IdsApart' /\ IdNeverMixed'
<1>1. /\ task[r].pc = "draw_again"
      /\ packet_id_creater' = (packet_id_creater + Len(task[r].slaves)) % IdMod
  BY DEF DrawAgain
<1>2. /\ task'[r].pc = "check" /\ task'[r].id = task[r].id /\ task'[r].slaves = task[r].slaves
      /\ task'[r].code = task[r].code /\ \A q \in Request : q # r => task'[q] = task[q]
  BY DrawAgainTask DEF DupInv
<1>3. Len(task[r].slaves) \in Nat /\ Len(task[r].slaves) <= MAX_DUP_COUNT
  BY TaskFacts, Lists DEF DupInv, SyncInv
<1>4. DrawsLeft' \in Nat /\ DrawsLeft' < DrawsLeft
  <2>1. MayDraw' \subseteq MayDraw /\ Undrawn' \subseteq Undrawn /\ r \notin MayDraw' /\ r \in MayDraw
    BY <1>1, <1>2 DEF MayDraw, Undrawn
  <2>2. /\ Cardinality(MayDraw') < Cardinality(MayDraw) /\ Cardinality(MayDraw') \in Nat
        /\ Cardinality(MayDraw) \in Nat
    BY <2>1, Subsets, OneFewer
  <2>3. /\ Cardinality(Undrawn') <= Cardinality(Undrawn) /\ Cardinality(Undrawn') \in Nat
        /\ Cardinality(Undrawn) \in Nat
    BY <2>1, Subsets, Fewer
  <2> QED BY SMTT(60), <2>2, <2>3 DEF DrawsLeft
<1>5. \A q \in Request : task'[q].id = task[q].id /\ task'[q].slaves = task[q].slaves
  BY <1>2
<1>6. ASSUME NEW q \in Request, task[q].slaves # << >>
      PROVE  Behind(packet_id_creater', task[q].id) + MAX_DUP_COUNT * DrawsLeft' < IdMod
  BY <1>1, <1>3, <1>4, <1>6, StaysBehind
<1>7. IdsApart'
  BY <1>5, <1>6 DEF DupInv, IdsApart
<1>8. IdNeverMixed'
  BY <1>1, <1>2, MixedKept
<1> QED BY <1>7, <1>8

LEMMA LocalFailsTask ==
  ASSUME SyncInv, NEW r \in Request, LocalFails(r)
  PROVE  /\ task'[r].pc = "done" /\ task'[r].id = task[r].id /\ task'[r].slaves = task[r].slaves
         /\ task'[r].code = "failed" /\ \A q \in Request : q # r => task'[q] = task[q]
<1>1. "done" \in Pcs /\ "failed" \in Codes
  BY DEF Pcs, Codes
<1> QED BY <1>1, EndTask DEF SyncInv, LocalFails

LEMMA LocalFailsIds == ASSUME DupInv, NEW r \in Request, LocalFails(r) PROVE IdsApart' /\ IdNeverMixed'
<1>1. task[r].pc = "queued" /\ UNCHANGED packet_id_creater
  BY DEF LocalFails
<1>2. /\ task'[r].pc = "done" /\ task'[r].id = task[r].id /\ task'[r].slaves = task[r].slaves
      /\ task'[r].code = "failed" /\ \A q \in Request : q # r => task'[q] = task[q]
  BY LocalFailsTask DEF DupInv
<1>3. MayDraw' \subseteq MayDraw /\ Undrawn' \subseteq Undrawn
  BY <1>2 DEF MayDraw, Undrawn
<1>4. IdsApart'
  BY <1>1, <1>2, <1>3, IdsKept
<1> QED BY <1>1, <1>2, <1>4, MixedKept

LEMMA InsertTask ==
  ASSUME SyncInv, NEW r \in Request, Insert(r)
  PROVE  /\ task'[r].id = task[r].id /\ task'[r].slaves = task[r].slaves
         /\ \/ task'[r].pc = "finish" /\ task'[r].code = "idmixed" /\ NodesAt(task[r].id) # {}
            \/ task'[r].pc = "send" /\ task'[r].code = task[r].code /\ NodesAt(task[r].id) = {}
         /\ \A q \in Request : q # r => task'[q] = task[q]
<1>1. "send" \in Pcs /\ "idmixed" \in Codes
  BY DEF Pcs, Running, Codes
<1>2. CASE NodesAt(task[r].id) # {}
  <2>1. Return(r, "idmixed")
    BY <1>2 DEF Insert
  <2> QED BY <1>1, <1>2, <2>1, ReturnTask DEF SyncInv
<1>3. CASE NodesAt(task[r].id) = {}
  <2>1. Goto(r, "send")
    BY <1>3 DEF Insert
  <2> QED BY <1>1, <1>3, <2>1, GotoTask DEF SyncInv
<1> QED BY <1>2, <1>3

\* An id that is taken: by a write without slaves, or this is one.
LEMMA InsertIds == ASSUME DupInv, NEW r \in Request, Insert(r) PROVE IdsApart' /\ IdNeverMixed'
<1>1. task[r].pc = "insert" /\ UNCHANGED packet_id_creater
  BY DEF Insert
<1>2. /\ task'[r].id = task[r].id /\ task'[r].slaves = task[r].slaves
      /\ \/ task'[r].pc = "finish" /\ task'[r].code = "idmixed" /\ NodesAt(task[r].id) # {}
         \/ task'[r].pc = "send" /\ task'[r].code = task[r].code /\ NodesAt(task[r].id) = {}
      /\ \A q \in Request : q # r => task'[q] = task[q]
  BY InsertTask DEF DupInv
<1>3. IdsApart'
  <2>1. MayDraw' \subseteq MayDraw /\ Undrawn' \subseteq Undrawn
    BY <1>1, <1>2 DEF MayDraw, Undrawn
  <2> QED BY <1>1, <1>2, <2>1, IdsKept
<1>4. CASE NodesAt(task[r].id) = {}
  <2>1. IdNeverMixed'
    BY <1>1, <1>2, <1>4, MixedKept
  <2> QED BY <1>3, <2>1
<1>5. CASE NodesAt(task[r].id) # {}
  <2>1. PICK n \in m_PkgWaitMap : n.id = task[r].id
    BY <1>5 DEF NodesAt
  <2>2. n.req \in Request /\ n.req # r /\ task[n.req].id = task[r].id /\ task[n.req].pc \notin Early
        /\ task[n.req].code # "failed"
    BY <1>1, <2>1, EarlyAlone DEF DupInv, SyncInv, TypeOK, NodeType, Nodes, NodeSound, Tasks, Early
  <2>3. task[r].slaves = << >> \/ task[n.req].slaves = << >>
    BY <2>2 DEF DupInv, IdsApart
  <2>4. \E q \in Request : /\ task'[q].pc # "queued" /\ task'[q].code # "failed"
                           /\ task'[q].slaves = << >> /\ task'[q].id = task'[r].id
    <3>1. CASE task[r].slaves = << >>
      BY <1>2, <1>5, <3>1
    <3>2. CASE task[n.req].slaves = << >>
      <4>1. task'[n.req] = task[n.req]
        BY <1>2, <2>2
      <4> QED BY <1>2, <2>2, <3>2, <4>1 DEF Early
    <3> QED BY <2>3, <3>1, <3>2
  <2>5. ASSUME NEW p \in Request, p # r, task'[p].code = "idmixed"
        PROVE  \E q \in Request : /\ task'[q].pc # "queued" /\ task'[q].code # "failed"
                                  /\ task'[q].slaves = << >> /\ task'[q].id = task'[p].id
    <3>1. task'[p] = task[p]
      BY <1>2, <2>5
    <3>2. PICK q \in Request : /\ task[q].pc # "queued" /\ task[q].code # "failed"
                               /\ task[q].slaves = << >> /\ task[q].id = task[p].id
      BY <2>5, <3>1 DEF DupInv, IdNeverMixed
    <3> QED BY <1>2, <1>5, <3>1, <3>2
  <2>6. IdNeverMixed'
    BY <2>4, <2>5 DEF IdNeverMixed
  <2> QED BY <1>3, <2>6
<1> QED BY <1>4, <1>5

\* The other steps of a handler: it keeps its id and its slaves.
LEMMA OtherTask ==
  ASSUME SyncInv, NEW r \in Request,
         \/ CheckSize(r) \/ Send(r) \/ SendFails(r)
         \/ ClearAfterFailure(r) \/ AllSent(r) \/ Finish(r)
  PROVE  /\ UNCHANGED packet_id_creater /\ task'[r].id = task[r].id /\ task'[r].slaves = task[r].slaves
         /\ task[r].pc \in Running \ {"draw_again"}
         /\ task'[r].pc \in {"insert", "send", "clear", "finish", "done"}
         /\ task'[r].pc = "insert" => ~MapFull /\ UNCHANGED m_PkgWaitMap
         /\ task'[r].code \in {"busy", "wait"} \/ task'[r].code = task[r].code
         /\ \A q \in Request : q # r => task'[q] = task[q]
<1>1. /\ {"insert", "clear", "done", "finish"} \subseteq Pcs /\ {"busy", "wait"} \subseteq Codes
      /\ {"check", "send", "clear", "finish"} \subseteq Running \ {"draw_again"}
  BY DEF Pcs, Running, Codes
<1>2. CASE CheckSize(r)
  <2>1. task[r].pc = "check" /\ UNCHANGED << packet_id_creater, m_PkgWaitMap >>
    BY <1>2 DEF CheckSize, mapVars
  <2>2. CASE MapFull /\ Return(r, "busy")
    BY <1>1, <2>1, <2>2, ReturnTask DEF SyncInv
  <2>3. CASE ~MapFull /\ Goto(r, "insert")
    BY <1>1, <2>1, <2>3, GotoTask DEF SyncInv
  <2> QED BY <1>2, <2>2, <2>3 DEF CheckSize
<1>3. CASE Send(r)
  <2>1. task[r].pc = "send" /\ UNCHANGED packet_id_creater
        /\ task' = [task EXCEPT ![r].sent = task[r].sent + 1]
    BY <1>3 DEF Send
  <2>2. task[r] \in TaskType /\ task \in [Request -> TaskType]
    BY TaskFacts DEF SyncInv, TypeOK
  <2>3. task'[r] = [task[r] EXCEPT !.sent = task[r].sent + 1]
        /\ \A q \in Request : q # r => task'[q] = task[q]
    BY <2>1, <2>2
  <2>4. task'[r].pc = task[r].pc /\ task'[r].id = task[r].id /\ task'[r].slaves = task[r].slaves
        /\ task'[r].code = task[r].code
    BY <2>2, <2>3 DEF TaskType
  <2> QED BY <1>1, <2>1, <2>3, <2>4
<1>4. CASE SendFails(r)
  <2>1. task[r].pc = "send" /\ UNCHANGED packet_id_creater /\ Goto(r, "clear")
    BY <1>4 DEF SendFails
  <2> QED BY <1>1, <2>1, GotoTask DEF SyncInv
<1>5. CASE ClearAfterFailure(r)
  <2>1. task[r].pc = "clear" /\ UNCHANGED packet_id_creater /\ Return(r, "busy")
    BY <1>5 DEF ClearAfterFailure
  <2> QED BY <1>1, <2>1, ReturnTask DEF SyncInv
<1>6. CASE AllSent(r)
  <2>1. task[r].pc = "send" /\ UNCHANGED packet_id_creater /\ Return(r, "wait")
    BY <1>6 DEF AllSent
  <2> QED BY <1>1, <2>1, ReturnTask DEF SyncInv
<1>7. CASE Finish(r)
  <2>1. task[r].pc = "finish" /\ UNCHANGED packet_id_creater /\ Goto(r, "done")
    BY <1>7 DEF Finish
  <2> QED BY <1>1, <2>1, GotoTask DEF SyncInv
<1> QED BY <1>2, <1>3, <1>4, <1>5, <1>6, <1>7

LEMMA OtherIds ==
  ASSUME DupInv, NEW r \in Request,
         \/ CheckSize(r) \/ Send(r) \/ SendFails(r)
         \/ ClearAfterFailure(r) \/ AllSent(r) \/ Finish(r)
  PROVE  IdsApart' /\ IdNeverMixed'
<1>1. /\ UNCHANGED packet_id_creater /\ task'[r].id = task[r].id /\ task'[r].slaves = task[r].slaves
      /\ task[r].pc \in Running \ {"draw_again"}
      /\ task'[r].pc \in {"insert", "send", "clear", "finish", "done"}
      /\ task'[r].code \in {"busy", "wait"} \/ task'[r].code = task[r].code
      /\ \A q \in Request : q # r => task'[q] = task[q]
  BY OtherTask DEF DupInv
<1> QED BY <1>1, SameDraw DEF Running

LEMMA QuietIds ==
  ASSUME DupInv, UNCHANGED << task, packet_id_creater >> PROVE IdsApart' /\ IdNeverMixed'
<1>1. MayDraw' = MayDraw /\ Undrawn' = Undrawn
  BY DEF MayDraw, Undrawn
<1>2. IdsApart'
  BY <1>1, IdsKept
<1> QED BY <1>2 DEF DupInv, IdNeverMixed

LEMMA IdsStep == ASSUME DupInv, [Next]_vars PROVE IdsApart' /\ IdNeverMixed'
<1>1. ASSUME NEW r \in Request, Worker(r) PROVE IdsApart' /\ IdNeverMixed'
  BY <1>1, LocalFailsIds, DrawIdIds, DrawAgainIds, InsertIds, OtherIds DEF Worker
<1>2. Slave \/ Network \/ TimeoutThread \/ UNCHANGED vars => UNCHANGED << task, packet_id_creater >>
  BY DEF Slave, SlaveStores, SlaveRefuses, Network, HandleAck, HandleUnknown, TimeoutThread, Timeout,
         TimeoutClear, vars
<1> QED BY <1>1, <1>2, QuietIds DEF Next

-----------------------------------------------------------------------------
(* How many nodes there are. *)

LEMMA BucketFacts ==
  ASSUME Counted, NEW b \in Bucket
  PROVE  /\ m_bucket_count[b] = Cardinality(NodesOf(b)) /\ IsFiniteSet(NodesOf(b))
         /\ Cardinality(NodesOf(b)) \in Nat
<1>1. IsFiniteSet(m_PkgWaitMap) /\ NodesOf(b) \subseteq m_PkgWaitMap
  BY DEF Counted, NodesOf
<1>2. IsFiniteSet(NodesOf(b)) /\ Cardinality(NodesOf(b)) \in Nat
  BY <1>1, Fewer
<1> QED BY <1>2 DEF Counted, BucketCountExact, NodesOf

LEMMA MapSame ==
  ASSUME Counted, UNCHANGED mapVars
  PROVE  BucketCountExact' /\ IsFiniteSet(m_PkgWaitMap') /\ m_PkgWaitMap' = m_PkgWaitMap
BY DEF Counted, BucketCountExact, mapVars

LEMMA CountUp ==
  ASSUME DupInv, Counted, NEW n, n.req \in Request, n \notin m_PkgWaitMap,
         m_PkgWaitMap' = m_PkgWaitMap \cup {n}, m_bucket_count' = changeBucketCount(BucketOf[n.req], 1)
  PROVE  BucketCountExact'
<1> DEFINE b == BucketOf[n.req]
<1>1. b \in Bucket /\ m_bucket_count \in [Bucket -> Nat]
  BY DupAssumption DEF DupInv, SyncInv, TypeOK
<1>0. m_bucket_count' = changeBucketCount(b, 1)
  OBVIOUS
<1> HIDE DEF b
<1>2. m_bucket_count' = [m_bucket_count EXCEPT ![b] = m_bucket_count[b] + 1]
  <2>1. ~(m_bucket_count[b] + 1 < 0)
    BY SMTT(60), <1>1
  <2> QED BY <1>0, <2>1 DEF changeBucketCount
<1>3. ASSUME NEW x \in Bucket PROVE m_bucket_count'[x] = Cardinality(NodesOf(x)')
  <2>1. CASE x = b
    <3>1. NodesOf(x)' = NodesOf(x) \cup {n} /\ n \notin NodesOf(x)
      BY <2>1 DEF NodesOf, b
    <3>2. Cardinality(NodesOf(x)') = Cardinality(NodesOf(x)) + 1
      BY <3>1, BucketFacts, FS_AddElement
    <3> QED BY <1>1, <1>2, <2>1, <3>2, BucketFacts
  <2>2. CASE x # b
    <3>1. NodesOf(x)' = NodesOf(x)
      BY <2>2 DEF NodesOf, b
    <3> QED BY <1>1, <1>2, <2>2, <3>1, BucketFacts
  <2> QED BY <2>1, <2>2
<1> QED BY <1>3 DEF BucketCountExact, NodesOf

LEMMA CountDown ==
  ASSUME DupInv, Counted, NEW n \in m_PkgWaitMap,
         m_PkgWaitMap' = m_PkgWaitMap \ {n}, m_bucket_count' = changeBucketCount(BucketOf[n.req], -1)
  PROVE  BucketCountExact'
<1> DEFINE b == BucketOf[n.req]
<1>1. b \in Bucket /\ m_bucket_count \in [Bucket -> Nat]
  BY DupAssumption DEF DupInv, SyncInv, TypeOK, NodeType
<1>2. n \in NodesOf(b)
  BY DEF NodesOf
<1>3. \A x \in Bucket : x # b => NodesOf(x)' = NodesOf(x)
  BY DEF NodesOf
<1>4. NodesOf(b)' = NodesOf(b) \ {n}
  BY DEF NodesOf
<1>0. m_bucket_count' = changeBucketCount(b, -1)
  OBVIOUS
<1> HIDE DEF b
<1>5. Cardinality(NodesOf(b)') = Cardinality(NodesOf(b)) - 1 /\ Cardinality(NodesOf(b)') \in Nat
  <2>1. IsFiniteSet(NodesOf(b)) /\ Cardinality(NodesOf(b)) \in Nat
    BY <1>1, BucketFacts
  <2>2. Cardinality(NodesOf(b) \ {n}) = Cardinality(NodesOf(b)) - 1 /\ IsFiniteSet(NodesOf(b) \ {n})
    BY <1>2, <2>1, FS_RemoveElement
  <2> QED BY <1>4, <2>1, <2>2, FS_CardinalityType
<1>6. m_bucket_count[b] = Cardinality(NodesOf(b)) /\ Cardinality(NodesOf(b)) \in Nat
  BY <1>1, BucketFacts
<1>7. m_bucket_count' = [m_bucket_count EXCEPT ![b] = m_bucket_count[b] - 1]
  <2>1. ~(m_bucket_count[b] + (-1) < 0) /\ m_bucket_count[b] + (-1) = m_bucket_count[b] - 1
    BY SMTT(60), <1>5, <1>6
  <2> QED BY <1>0, <1>1, <2>1 DEF changeBucketCount
<1>8. ASSUME NEW x \in Bucket PROVE m_bucket_count'[x] = Cardinality(NodesOf(x)')
  <2>1. CASE x = b
    BY <1>1, <1>5, <1>6, <1>7, <2>1
  <2>2. CASE x # b
    BY <1>1, <1>3, <1>7, <2>2, BucketFacts
  <2> QED BY <2>1, <2>2
<1> QED BY <1>8 DEF BucketCountExact, NodesOf

LEMMA AckSwapCounts ==
  ASSUME DupInv, Counted, NEW n \in m_PkgWaitMap, NEW k, k \notin m_PkgWaitMap \ {n}, k.req = n.req,
         m_PkgWaitMap' = (m_PkgWaitMap \ {n}) \cup {k}, UNCHANGED m_bucket_count
  PROVE  /\ BucketCountExact' /\ IsFiniteSet(m_PkgWaitMap')
         /\ Cardinality(m_PkgWaitMap') = Cardinality(m_PkgWaitMap)
<1>1. ASSUME NEW S, IsFiniteSet(S), n \in S, k \notin S \ {n}
      PROVE  IsFiniteSet((S \ {n}) \cup {k}) /\ Cardinality((S \ {n}) \cup {k}) = Cardinality(S)
  <2>1. /\ IsFiniteSet(S \ {n}) /\ Cardinality(S \ {n}) = Cardinality(S) - 1
        /\ Cardinality(S) \in Nat
    BY <1>1, FS_RemoveElement, FS_CardinalityType
  <2>2. /\ IsFiniteSet((S \ {n}) \cup {k})
        /\ Cardinality((S \ {n}) \cup {k}) = Cardinality(S \ {n}) + 1
    BY <1>1, <2>1, FS_AddElement
  <2> QED BY SMTT(60), <2>1, <2>2
<1>2. /\ IsFiniteSet(m_PkgWaitMap')
      /\ Cardinality(m_PkgWaitMap') = Cardinality(m_PkgWaitMap)
  BY <1>1 DEF DupInv, Counted
<1>3. ASSUME NEW b \in Bucket PROVE m_bucket_count[b] = Cardinality(NodesOf(b)')
  <2>0. m_bucket_count[b] = Cardinality(NodesOf(b)) /\ IsFiniteSet(NodesOf(b))
    BY BucketFacts
  <2>1. CASE BucketOf[n.req] = b
    <3>1. NodesOf(b)' = (NodesOf(b) \ {n}) \cup {k} /\ n \in NodesOf(b) /\ k \notin NodesOf(b) \ {n}
      BY <2>1 DEF NodesOf
    <3> QED BY <1>1, <2>0, <3>1
  <2>2. CASE BucketOf[n.req] # b
    <3>1. NodesOf(b)' = NodesOf(b)
      BY <2>2 DEF NodesOf
    <3> QED BY <2>0, <3>1
  <2> QED BY <2>1, <2>2
<1>4. BucketCountExact'
  BY <1>3 DEF BucketCountExact, NodesOf
<1> QED BY <1>2, <1>4

LEMMA ClearCounts ==
  ASSUME DupInv, Counted, NEW id, clear_waitnode(id)
  PROVE  BucketCountExact' /\ m_PkgWaitMap' \subseteq m_PkgWaitMap
<1>1. CASE UNCHANGED mapVars
  BY <1>1, MapSame
<1>2. ASSUME NEW n \in NodesAt(id), m_PkgWaitMap' = m_PkgWaitMap \ {n},
             m_bucket_count' = changeBucketCount(BucketOf[n.req], -1)
      PROVE  BucketCountExact' /\ m_PkgWaitMap' \subseteq m_PkgWaitMap
  <2>1. n \in m_PkgWaitMap
    BY DEF NodesAt
  <2> QED BY <1>2, <2>1, CountDown
<1> QED BY <1>1, <1>2 DEF clear_waitnode

\* A step ends with no more threads at work, no more to insert and no more nodes.
LEMMA BoundKept ==
  ASSUME Counted, Busy' \subseteq Busy, Inserting' \subseteq Inserting, IsFiniteSet(m_PkgWaitMap'),
         Cardinality(m_PkgWaitMap') <= Cardinality(m_PkgWaitMap)
  PROVE  Bounded'
<1>1. IsFiniteSet(m_PkgWaitMap)
  BY DEF Counted
<1>2. /\ Cardinality(Busy') <= Cardinality(Busy) /\ Cardinality(Inserting') <= Cardinality(Inserting)
      /\ Cardinality(Busy') \in Nat /\ Cardinality(Busy) \in Nat
      /\ Cardinality(Inserting') \in Nat /\ Cardinality(Inserting) \in Nat
      /\ Cardinality(m_PkgWaitMap') \in Nat /\ Cardinality(m_PkgWaitMap) \in Nat
  BY <1>1, Subsets, Fewer, FS_CardinalityType
<1>3. TAIR_MAX_DUP_MAP_SIZE \in Nat /\ Threads \in Nat
  BY DupAssumption
<1> QED BY SMTT(60), <1>2, <1>3 DEF Counted, Bounded

LEMMA LessCounts ==
  ASSUME Counted, Busy' \subseteq Busy, Inserting' \subseteq Inserting,
         m_PkgWaitMap' \subseteq m_PkgWaitMap, BucketCountExact'
  PROVE  Counted'
<1>1. IsFiniteSet(m_PkgWaitMap') /\ Cardinality(m_PkgWaitMap') <= Cardinality(m_PkgWaitMap)
  BY Fewer DEF Counted
<1> QED BY <1>1, BoundKept DEF Counted

LEMMA DrawIdCounts == ASSUME DupInv, NEW r \in Request, DrawId(r) PROVE Counted'
<1>1. task[r].pc = "queued" /\ IdleThread /\ UNCHANGED mapVars
  BY DEF DrawId
<1>2. task'[r].pc \in {"draw_again", "check"} /\ \A q \in Request : q # r => task'[q] = task[q]
  BY DrawIdTask DEF DupInv
<1>3. Busy' = Busy \cup {r} /\ r \notin Busy /\ Inserting' = Inserting
  BY <1>1, <1>2 DEF Busy, Inserting, Running
<1>4. Cardinality(Busy) < Threads /\ Cardinality(Busy) \in Nat /\ Threads \in Nat
  BY <1>1, DupAssumption, Subsets DEF IdleThread, Busy
<1>5. Cardinality(Busy') = Cardinality(Busy) + 1
  BY <1>3, Subsets, FS_AddElement
<1>6. BucketCountExact' /\ IsFiniteSet(m_PkgWaitMap') /\ m_PkgWaitMap' = m_PkgWaitMap
  BY <1>1, MapSame DEF DupInv
<1> QED BY SMTT(60), <1>3, <1>4, <1>5, <1>6 DEF DupInv, Counted, Bounded

\* The handler leaves "insert" as its node comes into the map.
LEMMA InsertCounts == ASSUME DupInv, NEW r \in Request, Insert(r) PROVE Counted'
<1>1. task[r].pc = "insert" /\ Counted
  BY DEF Insert, DupInv
<1>2. task'[r].pc \in {"send", "finish"} /\ \A q \in Request : q # r => task'[q] = task[q]
  BY InsertTask DEF DupInv
<1>3. Busy' \subseteq Busy /\ Inserting' \subseteq Inserting /\ r \in Inserting /\ r \notin Inserting'
  BY <1>1, <1>2 DEF Busy, Inserting, Running
<1>4. CASE UNCHANGED mapVars
  <2>1. BucketCountExact' /\ m_PkgWaitMap' = m_PkgWaitMap
    BY <1>1, <1>4, MapSame
  <2> QED BY <1>1, <1>3, <2>1, LessCounts
<1>5. CASE /\ NodesAt(task[r].id) = {} /\ m_PkgWaitMap' = m_PkgWaitMap \cup {NewNode(r)}
           /\ m_bucket_count' = changeBucketCount(BucketOf[r], 1)
  <2>1. PICK n : n = NewNode(r)
    OBVIOUS
  <2>2. n.req = r /\ n.id = task[r].id
    BY <2>1 DEF NewNode
  <2>3. n \notin m_PkgWaitMap
    BY <1>5, <2>2 DEF NodesAt
  <2>4. m_PkgWaitMap' = m_PkgWaitMap \cup {n} /\ m_bucket_count' = changeBucketCount(BucketOf[n.req], 1)
    BY <1>5, <2>1, <2>2
  <2>5. BucketCountExact'
    BY <1>1, <2>2, <2>3, <2>4, CountUp
  <2>6. /\ Cardinality(m_PkgWaitMap') = Cardinality(m_PkgWaitMap) + 1
        /\ Cardinality(m_PkgWaitMap) \in Nat /\ IsFiniteSet(m_PkgWaitMap')
    BY <1>1, <2>3, <2>4, FS_AddElement, FS_CardinalityType DEF Counted
  <2>7. Cardinality(Inserting') < Cardinality(Inserting) /\ Cardinality(Inserting') \in Nat
        /\ Cardinality(Inserting) \in Nat
    BY <1>3, Subsets, OneFewer
  <2>8. Cardinality(Busy') <= Cardinality(Busy) /\ Cardinality(Busy') \in Nat /\ Cardinality(Busy) \in Nat
    BY <1>3, Subsets, Fewer
  <2>9. Bounded'
    BY SMTT(60), <1>1, <2>6, <2>7, <2>8, DupAssumption DEF Counted, Bounded
  <2> QED BY <2>5, <2>6, <2>9 DEF Counted
<1> QED BY <1>4, <1>5 DEF Insert

\* Who goes on to insert has found room, and there are no more of them than threads.
LEMMA RoomCounts ==
  ASSUME Counted, Busy' \subseteq Busy, UNCHANGED m_PkgWaitMap, ~MapFull, BucketCountExact'
  PROVE  Counted'
<1>1. Cardinality(m_PkgWaitMap) \in Nat /\ TAIR_MAX_DUP_MAP_SIZE \in Nat /\ Threads \in Nat
  BY DupAssumption, FS_CardinalityType DEF Counted
<1>2. Cardinality(m_PkgWaitMap) <= TAIR_MAX_DUP_MAP_SIZE
  BY SMTT(60), <1>1 DEF MapFull
<1>3. Inserting' \subseteq Busy
  BY DEF Inserting, Busy, Running
<1>4. /\ Cardinality(Inserting') <= Cardinality(Busy) /\ Cardinality(Inserting') \in Nat
      /\ Cardinality(Busy') <= Cardinality(Busy) /\ Cardinality(Busy') \in Nat
      /\ Cardinality(Busy) \in Nat
  BY <1>3, Subsets, Fewer
<1>5. Cardinality(Busy) <= Threads
  BY DEF Counted, Bounded
<1>6. Bounded'
  BY SMTT(60), <1>1, <1>2, <1>4, <1>5 DEF Bounded
<1> QED BY <1>6 DEF Counted

LEMMA OtherCounts ==
  ASSUME DupInv, NEW r \in Request,
         \/ CheckSize(r) \/ Send(r) \/ SendFails(r)
         \/ ClearAfterFailure(r) \/ AllSent(r) \/ Finish(r)
  PROVE  Counted'
<1>1. /\ task[r].pc \in Running
      /\ task'[r].pc = "insert" => ~MapFull /\ UNCHANGED m_PkgWaitMap
      /\ \A q \in Request : q # r => task'[q] = task[q]
  BY OtherTask DEF DupInv
<1>2. Busy' \subseteq Busy /\ (task'[r].pc # "insert" => Inserting' \subseteq Inserting)
  BY <1>1 DEF Busy, Inserting
<1>3. BucketCountExact' /\ m_PkgWaitMap' \subseteq m_PkgWaitMap
  <2>1. CASE ClearAfterFailure(r)
    BY <2>1, ClearCounts DEF ClearAfterFailure, DupInv
  <2>2. CASE CheckSize(r) \/ Send(r) \/ SendFails(r) \/ AllSent(r) \/ Finish(r)
    <3>1. UNCHANGED mapVars
      BY <2>2 DEF CheckSize, Send, SendFails, AllSent, Finish
    <3> QED BY <3>1, MapSame DEF DupInv
  <2> QED BY <2>1, <2>2
<1>4. Counted
  BY DEF DupInv
<1>5. CASE task'[r].pc = "insert"
  BY <1>1, <1>2, <1>3, <1>4, <1>5, RoomCounts
<1>6. CASE task'[r].pc # "insert"
  BY <1>2, <1>3, <1>4, <1>6, LessCounts
<1> QED BY <1>5, <1>6

LEMMA SameCounts ==
  ASSUME DupInv, UNCHANGED mapVars, Busy' \subseteq Busy, Inserting' \subseteq Inserting
  PROVE  Counted'
BY MapSame, LessCounts DEF DupInv

LEMMA HandleAckCounts ==
  ASSUME DupInv, IdsUnique, NEW a \in answers, HandleAck(a), Busy' = Busy, Inserting' = Inserting
  PROVE  Counted'
<1>1. PICK r, s : a.chan = << r, s >> /\ r \in Request /\ s \in Server
  BY SMTT(60) DEF DupInv, SyncInv, TypeOK
<1>2. AckOf(a, r, s) /\ doResponse(task[r].id, BucketOf[r], s)
  BY SMTT(60), <1>1 DEF HandleAck, AckOf
<1>3. CASE UNCHANGED mapVars
  BY <1>3, SameCounts
<1>4. ASSUME NEW n \in NodesAt(task[r].id), s \in n.waits
      PROVE  n \in m_PkgWaitMap /\ n.req = r /\ n \in NodeType /\ \A m \in m_PkgWaitMap : m # n => m.req # r
  BY <1>2, <1>4, AckedNode DEF DupInv
<1>5. ASSUME NEW n \in NodesAt(task[r].id), s \in n.waits,
             m_PkgWaitMap' = (m_PkgWaitMap \ {n}) \cup {[n EXCEPT !.waits = @ \ {s}]},
             UNCHANGED m_bucket_count
      PROVE  Counted'
  <2>1. PICK k : k = [n EXCEPT !.waits = @ \ {s}]
    OBVIOUS
  <2>2. n \in m_PkgWaitMap /\ k.req = n.req
    BY <1>4, <1>5, <2>1 DEF NodeType
  <2>3. k \notin m_PkgWaitMap \ {n}
    BY <1>4, <1>5, <2>2
  <2>4. m_PkgWaitMap' = (m_PkgWaitMap \ {n}) \cup {k}
    BY <1>5, <2>1
  <2>5. /\ BucketCountExact' /\ IsFiniteSet(m_PkgWaitMap')
        /\ Cardinality(m_PkgWaitMap') = Cardinality(m_PkgWaitMap)
    BY <1>5, <2>2, <2>3, <2>4, AckSwapCounts DEF DupInv
  <2>6. Cardinality(m_PkgWaitMap) \in Nat
    BY FS_CardinalityType DEF DupInv, Counted
  <2>7. Bounded'
    BY SMTT(60), <2>5, <2>6, BoundKept DEF DupInv
  <2> QED BY <2>5, <2>7 DEF Counted
<1>6. ASSUME NEW n \in NodesAt(task[r].id), n.waits = {s}, m_PkgWaitMap' = m_PkgWaitMap \ {n},
             m_bucket_count' = changeBucketCount(BucketOf[r], -1)
      PROVE  Counted'
  <2>1. n \in m_PkgWaitMap /\ n.req = r
    BY <1>4, <1>6
  <2>2. BucketCountExact' /\ m_PkgWaitMap' \subseteq m_PkgWaitMap
    BY <1>6, <2>1, CountDown DEF DupInv
  <2> QED BY <2>2, LessCounts DEF DupInv
<1> QED BY <1>2, <1>3, <1>5, <1>6 DEF doResponse, mapVars

LEMMA CountsStep == ASSUME DupInv, IdsUnique, [Next]_vars PROVE Counted'
<1>1. ASSUME NEW r \in Request, LocalFails(r) \/ DrawAgain(r) PROVE Counted'
  <2>1. UNCHANGED mapVars /\ task[r].pc \in {"queued", "draw_again"}
    BY <1>1 DEF LocalFails, DrawAgain
  <2>2. /\ task'[r].pc = "done" \/ (task[r].pc = "draw_again" /\ task'[r].pc = "check")
        /\ \A q \in Request : q # r => task'[q] = task[q]
    BY <1>1, LocalFailsTask, DrawAgainTask DEF DupInv, DrawAgain
  <2>3. Busy' \subseteq Busy /\ Inserting' \subseteq Inserting
    BY <2>2 DEF Busy, Inserting, Running
  <2> QED BY <2>1, <2>3, SameCounts
<1>2. ASSUME NEW r \in Request, Worker(r) PROVE Counted'
  BY <1>1, <1>2, DrawIdCounts, InsertCounts, OtherCounts DEF Worker
<1>3. CASE UNCHANGED task
  <2>1. Busy' = Busy /\ Inserting' = Inserting
    BY <1>3 DEF Busy, Inserting
  <2>2. ASSUME UNCHANGED mapVars PROVE Counted'
    BY <2>1, <2>2, SameCounts
  <2>3. ASSUME NEW a \in answers, HandleAck(a) PROVE Counted'
    BY <2>1, <2>3, HandleAckCounts
  <2>4. ASSUME NEW c \in clearing, TimeoutClear(c) PROVE Counted'
    <3>1. BucketCountExact' /\ m_PkgWaitMap' \subseteq m_PkgWaitMap
      BY <2>4, ClearCounts DEF TimeoutClear, DupInv
    <3> QED BY <2>1, <3>1, LessCounts DEF DupInv
  <2>5. /\ Slave \/ UNCHANGED vars => UNCHANGED mapVars
        /\ \A a \in answers : HandleUnknown(a) => UNCHANGED mapVars
        /\ \A c \in channels : Timeout(c) => UNCHANGED mapVars
    BY DEF Slave, SlaveStores, SlaveRefuses, HandleUnknown, Timeout, vars, mapVars
  <2> QED BY <1>2, <2>2, <2>3, <2>4, <2>5 DEF Next, Network, TimeoutThread
<1>4. (Slave \/ Network \/ TimeoutThread \/ UNCHANGED vars) => UNCHANGED task
  BY DEF Slave, SlaveStores, SlaveRefuses, Network, HandleAck, HandleUnknown, TimeoutThread, Timeout,
         TimeoutClear, vars
<1> QED BY <1>2, <1>3, <1>4 DEF Next

-----------------------------------------------------------------------------
(* The inductive invariant, and what it gives. *)

LEMMA DupInit == Init => DupInv
<1> SUFFICES ASSUME Init PROVE DupInv
  OBVIOUS
<1>1. /\ m_PkgWaitMap = {} /\ m_bucket_count = [b \in Bucket |-> 0]
      /\ \A r \in Request : task[r].pc = "queued" /\ task[r].slaves = << >> /\ task[r].code = "ok"
  BY DEF Init, Queued
<1>2. IdsApart /\ IdNeverMixed
  BY <1>1 DEF IdsApart, IdNeverMixed
<1>3. Cardinality({}) = 0 /\ IsFiniteSet({})
  BY FS_EmptySet
<1>4. BucketCountExact
  <2>1. \A b \in Bucket : {n \in m_PkgWaitMap : BucketOf[n.req] = b} = {}
    BY <1>1
  <2> QED BY <1>1, <1>3, <2>1 DEF BucketCountExact
<1>5. Bounded
  <2>1. Busy = {} /\ Inserting = {}
    BY <1>1 DEF Busy, Inserting, Running
  <2> QED BY SMTT(60), <1>1, <1>3, <2>1, DupAssumption DEF Bounded
<1> QED BY <1>1, <1>2, <1>3, <1>4, <1>5, SyncInit DEF DupInv, Counted

LEMMA DupStep == DupInv /\ [Next]_vars => DupInv'
<1> SUFFICES ASSUME DupInv, [Next]_vars PROVE DupInv'
  OBVIOUS
<1>1. IdsUnique
  BY DEF DupInv, IdsApart, IdsUnique
<1>2. SyncInv'
  BY <1>1, SyncStep DEF DupInv
<1>3. IdsApart' /\ IdNeverMixed' /\ Counted'
  BY <1>1, IdsStep, CountsStep
<1> QED BY <1>2, <1>3 DEF DupInv

LEMMA DupAlways == Spec => []DupInv
BY DupInit, DupStep, PTL DEF Spec

(***************************************************************************)
(* do_duplicate_response answers a client with success only when every     *)
(* slave that get_slaves returned has the write, whatever the order of     *)
(* acknowledgements, failed sends and timeouts.                            *)
(***************************************************************************)
THEOREM OkCorrect == Spec => []OkMeansStored
<1>1. DupInv => OkMeansStored
  BY DEF DupInv, SyncInv, Replied
<1> QED BY <1>1, DupAlways, PTL

(***************************************************************************)
(* The worker, the network thread and the timeout thread never answer the  *)
(* same client twice, lrem left out.                                       *)
(***************************************************************************)
THEOREM OneReplyCorrect == Spec => []OneReply
<1>1. DupInv => OneReply
  BY DEF DupInv, SyncInv, Replied
<1> QED BY <1>1, DupAlways, PTL

(***************************************************************************)
(* No client is answered while a node of its write is in m_PkgWaitMap,     *)
(* lrem left out.                                                          *)
(***************************************************************************)
THEOREM AnswersWait == Spec => []AnswerAfterAcks
<1>1. DupInv => AnswerAfterAcks
  BY DEF DupInv, SyncInv, Replied
<1> QED BY <1>1, DupAlways, PTL

(***************************************************************************)
(* m_bucket_count is the number of wait nodes of each bucket, and a node   *)
(* that waits for a working slave still has what removes it.               *)
(***************************************************************************)
THEOREM WaitMapCorrect == Spec => []WaitMapTracked
<1>1. DupInv => WaitMapTracked
  BY DEF DupInv, SyncInv, Counted, WaitMapTracked
<1> QED BY <1>1, DupAlways, PTL

(***************************************************************************)
(* addWaitNode finds an id taken only because of a write without slaves,   *)
(* for which packet_id_creater is not moved.                               *)
(***************************************************************************)
THEOREM IdsCorrect == Spec => []IdNeverMixed
<1>1. DupInv => IdNeverMixed
  BY DEF DupInv
<1> QED BY <1>1, DupAlways, PTL

(***************************************************************************)
(* The check of the size and the insertion are two holds of the lock: the  *)
(* map passes TAIR_MAX_DUP_MAP_SIZE by at most one node per thread.        *)
(***************************************************************************)
THEOREM MapBoundCorrect == Spec => []MapBounded
<1>1. ASSUME DupInv PROVE MapBounded
  <2>1. /\ Cardinality(m_PkgWaitMap) \in Nat
        /\ Cardinality(m_PkgWaitMap) + Cardinality(Inserting) <= TAIR_MAX_DUP_MAP_SIZE + Threads
    BY <1>1, FS_CardinalityType DEF DupInv, Counted, Bounded
  <2>2. Cardinality(Inserting) \in Nat
    BY Subsets
  <2> QED BY SMTT(60), <2>1, <2>2, DupAssumption DEF MapBounded
<1> QED BY <1>1, DupAlways, PTL

=============================================================================
