----------------------- MODULE ServerConnection_proofs -----------------------
(***************************************************************************)
(* An accepted connection is deleted only when nobody can still use it     *)
(* (DeletedUnreferenced), for any number of requests and workers, any      *)
(* length of the task queue and any number of rounds of grace.             *)
(*                                                                         *)
(* The count of references alone does not say so.  The argument needs that *)
(* every request is in one place only (Placed), so that no answer drops a  *)
(* reference that is not its own; that the component was closed before it  *)
(* was listed for deletion, so that no answer drops one afterwards; and    *)
(* that the count covers the requests under way until the component is     *)
(* deleted (Counted).                                                      *)
(***************************************************************************)
EXTENDS ServerConnection, FiniteSetTheorems, TLAPS

\* Zenon proves the leaves that do not ask for SMT.
USE ZenonT(60)

Pending == {r \in Reqs : req[r] \in {"queued", "working"}}

SrvTypeOK ==
  /\ conn \in [state : {"connected", "closed"}, ref : Int, used : BOOLEAN, stale : BOOLEAN]
  /\ place \in {"list", "del", "mydel", "deleted"}
  /\ req \in [Reqs -> {"none", "queued", "working", "answered", "lost"}]
  /\ queue \in Seq(Reqs)
  /\ pushing \in 0..MaxRequests
  /\ work \in [Workers -> Int]

\* A request is at push, in the queue or at a worker, and only once.
Placed ==
  /\ pushing # 0 => req[pushing] = "queued" /\ \A i \in 1..Len(queue) : queue[i] # pushing
  /\ \A i \in 1..Len(queue) : req[queue[i]] = "queued"
  /\ \A i, j \in 1..Len(queue) : queue[i] = queue[j] => i = j
  /\ \A w \in Workers : work[w] \in Reqs => req[work[w]] = "working"
  /\ \A v, w \in Workers : work[v] \in Reqs /\ work[v] = work[w] => v = w

\* A component that left the list is closed, and the timeout thread learns of it
\* before it can delete it.
Unlisted ==
  /\ place # "list" => conn.state = "closed"
  /\ mylist => place = "list" \/ (place = "del" /\ changed)

\* The references cover the requests under way.
Counted ==
  ~twice =>
    /\ place \in {"list", "del"} => conn.ref >= Cardinality(Pending)
    /\ place = "mydel" => Pending = {} \/ conn.ref >= Cardinality(Pending)
    /\ place = "deleted" => Pending = {} \/ conn.stale

SrvInv == SrvTypeOK /\ Placed /\ Unlisted /\ Counted

-----------------------------------------------------------------------------

\* The set of the requests under way is finite, and counts as expected.
LEMMA PendingFinite == IsFiniteSet(Pending) /\ Cardinality(Pending) \in Nat
<1>1. IsFiniteSet(Reqs)
  BY SMTT(60), FS_Interval, ServerAssumption DEF Reqs
<1>2. Pending \subseteq Reqs
  BY DEF Pending
<1> QED BY <1>1, <1>2, FS_Subset, FS_CardinalityType

\* Counting with one request more, one less, or some fewer.
LEMMA CountMore ==
  ASSUME NEW S, NEW T, NEW r, IsFiniteSet(S), T \subseteq S \cup {r}
  PROVE  IsFiniteSet(T) /\ Cardinality(T) <= Cardinality(S) + 1
<1> Cardinality(S) \in Nat
  BY FS_CardinalityType
<1>1. IsFiniteSet(S \cup {r}) /\ Cardinality(S \cup {r}) \in Nat
      /\ Cardinality(S \cup {r}) \in {Cardinality(S), Cardinality(S) + 1}
  BY SMTT(60), FS_AddElement
<1>2. IsFiniteSet(T) /\ Cardinality(T) <= Cardinality(S \cup {r}) /\ Cardinality(T) \in Nat
  BY <1>1, FS_Subset, FS_CardinalityType
<1> QED BY SMTT(60), <1>1, <1>2

LEMMA CountLess ==
  ASSUME NEW S, NEW r \in S, IsFiniteSet(S)
  PROVE  Cardinality(S \ {r}) = Cardinality(S) - 1
BY FS_RemoveElement

LEMMA CountFewer ==
  ASSUME NEW S, NEW T, IsFiniteSet(S), T \subseteq S
  PROVE  Cardinality(T) <= Cardinality(S)
BY FS_Subset

\* Requests that only leave what is under way disturb no count.
LEMMA FewerCounted ==
  ASSUME SrvTypeOK, Counted, Pending' \subseteq Pending, UNCHANGED <<conn, place, twice>>
  PROVE  Counted'
<1>1. Cardinality(Pending') <= Cardinality(Pending)
  BY PendingFinite, CountFewer
<1>2. Cardinality(Pending) \in Nat /\ Cardinality(Pending') \in Nat
  BY PendingFinite, FS_Subset, FS_CardinalityType
<1>3. conn.ref \in Int
  BY DEF SrvTypeOK
<1> QED BY SMTT(60), <1>1, <1>2, <1>3 DEF Counted

-----------------------------------------------------------------------------

LEMMA SrvInitInv == SrvInit => SrvInv
<1> SUFFICES ASSUME SrvInit PROVE SrvInv
  OBVIOUS
<1> USE ServerAssumption
<1>1. SrvTypeOK
  BY SMTT(60) DEF SrvInit, SrvTypeOK, IdleW
<1>2. Placed
  BY SMTT(60) DEF SrvInit, Placed, IdleW, Reqs
<1>3. Unlisted
  BY DEF SrvInit, Unlisted
<1>4. Pending = {}
  BY DEF SrvInit, Pending
<1>5. Counted
  BY SMTT(60), <1>4, FS_EmptySet DEF SrvInit, Counted
<1> QED BY <1>1, <1>2, <1>3, <1>5 DEF SrvInv

LEMMA ReadKeeps == ASSUME SrvInv, NEW r \in Reqs, ReadRequest(r) PROVE SrvInv'
<1> USE ServerAssumption DEF SrvInv
<1>0. PICK x \in {"lost", "queued"} : req' = [req EXCEPT ![r] = x] /\ (x = "lost" => pushing' = 0)
                                    /\ (x = "queued" => pushing' = r)
  BY DEF ReadRequest
<1>1. SrvTypeOK'
  <2>1. conn' \in [state : {"connected", "closed"}, ref : Int, used : BOOLEAN, stale : BOOLEAN]
    <3>1. conn' = [conn EXCEPT !.ref = conn.ref + 1, !.stale = FALSE]
      BY DEF ReadRequest
    <3>2. conn.ref + 1 \in Int
      BY SMTT(60) DEF SrvTypeOK
    <3> QED BY <3>1, <3>2 DEF SrvTypeOK
  <2>2. req' \in [Reqs -> {"none", "queued", "working", "answered", "lost"}] /\ pushing' \in 0..MaxRequests
    BY SMTT(60), <1>0 DEF SrvTypeOK, Reqs
  <2> QED BY <2>1, <2>2 DEF SrvTypeOK, ReadRequest
<1>2. Placed'
  <2>1. UNCHANGED <<queue, work>> /\ pushing = 0 /\ req[r] = "none"
    BY DEF ReadRequest
  <2>2. \A i \in 1..Len(queue) : queue[i] \in Reqs /\ queue[i] # r
    BY SMTT(60), <2>1 DEF SrvTypeOK, Placed
  <2>3. \A w \in Workers : work[w] \in Reqs => work[w] # r
    BY <2>1 DEF Placed
  <2>4. pushing' # 0 => req'[pushing'] = "queued" /\ \A i \in 1..Len(queue) : queue[i] # pushing'
    BY <1>0, <2>2 DEF SrvTypeOK
  <2>5. \A q \in Reqs : q # r => req'[q] = req[q]
    BY <1>0 DEF SrvTypeOK
  <2> QED BY SMTT(60), <2>1, <2>2, <2>3, <2>4, <2>5 DEF Placed
<1>3. Unlisted'
  BY DEF SrvTypeOK, Unlisted, ReadRequest
<1>4. Pending' \subseteq Pending \cup {r}
  BY DEF SrvTypeOK, Pending, ReadRequest
<1>5. Cardinality(Pending') <= Cardinality(Pending) + 1 /\ Cardinality(Pending') \in Nat
  BY <1>4, PendingFinite, CountMore, FS_CardinalityType
<1>6. conn'.ref = conn.ref + 1 /\ conn.ref \in Int /\ place = "list" /\ place' = "list"
      /\ twice' = twice
  BY DEF SrvTypeOK, ReadRequest
<1>7. Counted'
  BY SMTT(60), <1>5, <1>6, PendingFinite DEF Counted
<1> QED BY <1>1, <1>2, <1>3, <1>7

LEMMA PushKeeps == ASSUME SrvInv, Push PROVE SrvInv'
<1> USE ServerAssumption DEF SrvInv
<1>1. SrvTypeOK'
  BY SMTT(60) DEF SrvTypeOK, Push, Reqs
<1>2. Placed'
  BY SMTT(60) DEF SrvTypeOK, Placed, Push, Reqs
<1>3. Unlisted'
  BY DEF Unlisted, Push
<1>4. Pending' \subseteq Pending /\ UNCHANGED <<conn, place, twice>>
  BY DEF Pending, Push
<1> QED BY <1>1, <1>2, <1>3, <1>4, FewerCounted

LEMMA RemoveKeeps == ASSUME SrvInv, removeComponent PROVE SrvInv'
<1> USE DEF SrvInv
<1>1. SrvTypeOK'
  BY DEF SrvTypeOK, removeComponent
<1>2. Placed'
  BY DEF Placed, removeComponent
<1>3. Unlisted'
  BY DEF SrvTypeOK, Unlisted, removeComponent
<1>4. Pending' = Pending /\ conn'.ref = conn.ref /\ place = "list" /\ place' = "del" /\ twice' = twice
  BY DEF SrvTypeOK, Pending, removeComponent
<1>5. Counted'
  BY <1>4 DEF Counted
<1> QED BY <1>1, <1>2, <1>3, <1>5

\* Handing the first packet of the queue to a worker, from run() before or after
\* _stop.
LEMMA HandOver ==
  ASSUME SrvTypeOK, Placed, NEW w \in Workers, work[w] \notin Reqs, queue # <<>>,
         work' = [work EXCEPT ![w] = Head(queue)],
         req' = [req EXCEPT ![Head(queue)] = "working"], queue' = Tail(queue),
         UNCHANGED pushing
  PROVE  Placed' /\ Pending' = Pending /\ work' \in [Workers -> Int] /\ queue' \in Seq(Reqs)
         /\ req' \in [Reqs -> {"none", "queued", "working", "answered", "lost"}]
<1> USE ServerAssumption
<1>1. Head(queue) \in Reqs /\ queue[1] = Head(queue) /\ 1 \in 1..Len(queue) /\ Reqs \subseteq Int
  BY SMTT(60) DEF SrvTypeOK, Reqs
<1>2. queue' \in Seq(Reqs) /\ Len(queue') = Len(queue) - 1
      /\ \A i \in 1..Len(queue') : queue'[i] = queue[i + 1] /\ i + 1 \in 1..Len(queue)
  BY SMTT(60), <1>1 DEF SrvTypeOK
<1>3. req[Head(queue)] = "queued"
  BY <1>1 DEF Placed
<1>4. Pending' = Pending
  BY <1>1, <1>3 DEF SrvTypeOK, Pending
<1>5. \A i \in 1..Len(queue') : queue'[i] # Head(queue) /\ queue'[i] \in Reqs
  BY SMTT(60), <1>1, <1>2 DEF SrvTypeOK, Placed
<1>6. \A i \in 1..Len(queue') : req'[queue'[i]] = "queued"
  BY SMTT(60), <1>2, <1>5 DEF SrvTypeOK, Placed
<1>7. \A i, j \in 1..Len(queue') : queue'[i] = queue'[j] => i = j
  BY SMTT(60), <1>2 DEF SrvTypeOK, Placed
<1>8. \A v \in Workers : v # w /\ work[v] \in Reqs => work[v] # Head(queue)
  BY <1>1, <1>3 DEF Placed
<1>9. \A v \in Workers : work'[v] \in Reqs => req'[work'[v]] = "working"
  BY <1>1, <1>8 DEF SrvTypeOK, Placed
<1>10. \A u, v \in Workers : work'[u] \in Reqs /\ work'[u] = work'[v] => u = v
  BY <1>1, <1>8 DEF SrvTypeOK, Placed
<1>11. pushing' # 0 => req'[pushing'] = "queued" /\ \A i \in 1..Len(queue') : queue'[i] # pushing'
  BY SMTT(60), <1>1, <1>2 DEF SrvTypeOK, Placed
<1>12. Placed'
  BY <1>6, <1>7, <1>9, <1>10, <1>11 DEF Placed
<1>13. work' \in [Workers -> Int] /\ req' \in [Reqs -> {"none", "queued", "working", "answered", "lost"}]
  BY <1>1 DEF SrvTypeOK
<1> QED BY <1>2, <1>4, <1>12, <1>13

LEMMA TakeKeeps == ASSUME SrvInv, NEW w \in Workers, Take(w) PROVE SrvInv'
<1> USE ServerAssumption DEF SrvInv
<1>1. UNCHANGED <<conn, place, changed, mylist, pushing, twice>> /\ work[w] \notin Reqs
  BY SMTT(60) DEF Take, IdleW, Reqs
<1>2. CASE queue # <<>> /\ work' = [work EXCEPT ![w] = Head(queue)]
           /\ req' = [req EXCEPT ![Head(queue)] = "working"] /\ queue' = Tail(queue)
  <2>1. Placed' /\ Pending' = Pending /\ work' \in [Workers -> Int] /\ queue' \in Seq(Reqs)
        /\ req' \in [Reqs -> {"none", "queued", "working", "answered", "lost"}]
    BY <1>1, <1>2, HandOver
  <2>2. SrvTypeOK' /\ Unlisted'
    BY <1>1, <2>1 DEF SrvTypeOK, Unlisted
  <2> QED BY <1>1, <2>1, <2>2, FewerCounted
<1>3. CASE work' = [work EXCEPT ![w] = DrainW] /\ UNCHANGED <<req, queue>>
  <2>1. SrvTypeOK' /\ Unlisted'
    BY SMTT(60), <1>1, <1>3 DEF SrvTypeOK, Unlisted, DrainW
  <2>2. Placed'
    BY SMTT(60), <1>1, <1>3 DEF SrvTypeOK, Placed, DrainW, Reqs
  <2>3. Pending' \subseteq Pending
    BY <1>3 DEF Pending
  <2> QED BY <1>1, <2>1, <2>2, <2>3, FewerCounted
<1> QED BY <1>2, <1>3 DEF Take

LEMMA DrainKeeps == ASSUME SrvInv, NEW w \in Workers, Drain(w) PROVE SrvInv'
<1> USE ServerAssumption DEF SrvInv
<1>1. UNCHANGED <<conn, place, changed, mylist, pushing, twice>> /\ work[w] \notin Reqs
  BY SMTT(60) DEF Drain, DrainW, Reqs
<1>2. CASE queue # <<>> /\ work' = [work EXCEPT ![w] = Head(queue)]
           /\ req' = [req EXCEPT ![Head(queue)] = "working"] /\ queue' = Tail(queue)
  <2>1. Placed' /\ Pending' = Pending /\ work' \in [Workers -> Int] /\ queue' \in Seq(Reqs)
        /\ req' \in [Reqs -> {"none", "queued", "working", "answered", "lost"}]
    BY <1>1, <1>2, HandOver
  <2>2. SrvTypeOK' /\ Unlisted'
    BY <1>1, <2>1 DEF SrvTypeOK, Unlisted
  <2> QED BY <1>1, <2>1, <2>2, FewerCounted
<1>3. CASE work' = [work EXCEPT ![w] = GoneW] /\ UNCHANGED <<req, queue>>
  <2>1. SrvTypeOK' /\ Unlisted'
    BY SMTT(60), <1>1, <1>3 DEF SrvTypeOK, Unlisted, GoneW
  <2>2. Placed'
    BY SMTT(60), <1>1, <1>3 DEF SrvTypeOK, Placed, GoneW, Reqs
  <2>3. Pending' \subseteq Pending
    BY <1>3 DEF Pending
  <2> QED BY <1>1, <2>1, <2>2, <2>3, FewerCounted
<1>4. CASE work' = [work EXCEPT ![w] = GoneW] /\ queue' = <<>>
           /\ req' = [r \in Reqs |-> IF r \in Waiting THEN "lost" ELSE req[r]]
  <2>1. SrvTypeOK' /\ Unlisted'
    BY SMTT(60), <1>1, <1>4 DEF SrvTypeOK, Unlisted, GoneW
  <2>2. \A v \in Workers : work[v] \in Reqs => work[v] \notin Waiting
    BY SMTT(60) DEF SrvTypeOK, Placed, Waiting
  <2>3. pushing \in Reqs => pushing \notin Waiting
    BY SMTT(60) DEF SrvTypeOK, Placed, Waiting, Reqs
  <2>4. Placed'
    BY SMTT(60), <1>1, <1>4, <2>2, <2>3 DEF SrvTypeOK, Placed, GoneW, Reqs
  <2>5. Pending' \subseteq Pending
    BY <1>4 DEF Pending
  <2> QED BY <1>1, <2>1, <2>4, <2>5, FewerCounted
<1> QED BY <1>2, <1>3, <1>4 DEF Drain

\* An answer drops one reference, its own, unless it is the second one.
LEMMA RespondKeeps == ASSUME SrvInv, NEW w \in Workers, NEW n \in 0..2, Respond(w, n) PROVE SrvInv'
<1> USE ServerAssumption DEF SrvInv
<1>1. UNCHANGED <<place, changed, mylist, queue, pushing>> /\ work[w] \in Reqs
      /\ twice' = (twice \/ n = 2)
  BY DEF Respond
<1>2. req[work[w]] = "working"
  BY <1>1 DEF Placed
<1>3. PICK x \in {"answered", "lost"} : req' = [req EXCEPT ![work[w]] = x]
  BY DEF Respond
<1>4. PICK y \in {IdleW, DrainW} : work' = [work EXCEPT ![w] = y]
  BY DEF Respond
<1>5. y \in Int /\ y \notin Reqs
  BY SMTT(60) DEF IdleW, DrainW, Reqs
<1>6. conn' \in [state : {"connected", "closed"}, ref : Int, used : BOOLEAN, stale : BOOLEAN]
      /\ conn'.state = conn.state /\ conn'.stale = conn.stale /\ conn'.ref >= conn.ref - n
      /\ (conn.state # "connected" => conn' = conn)
  <2>1. CASE conn.state = "connected"
    <3>1. conn' = [conn EXCEPT !.ref = conn.ref - n]
      BY <2>1 DEF Respond, Answered
    <3>2. conn.ref - n \in Int
      BY SMTT(60) DEF SrvTypeOK
    <3>3. conn' \in [state : {"connected", "closed"}, ref : Int, used : BOOLEAN, stale : BOOLEAN]
      BY <3>1, <3>2 DEF SrvTypeOK
    <3>4. conn'.state = conn.state /\ conn'.stale = conn.stale /\ conn'.ref = conn.ref - n
      BY <3>1 DEF SrvTypeOK
    <3> QED BY SMTT(60), <2>1, <3>2, <3>3, <3>4
  <2>2. CASE conn.state # "connected"
    <3>1. conn' = conn
      BY <2>2 DEF Respond, Answered
    <3>2. conn.ref \in Int
      BY DEF SrvTypeOK
    <3> QED BY SMTT(60), <2>2, <3>1, <3>2 DEF SrvTypeOK
  <2> QED BY <2>1, <2>2
<1>7. SrvTypeOK' /\ Unlisted'
  BY <1>1, <1>3, <1>4, <1>5, <1>6 DEF SrvTypeOK, Unlisted
<1>8. Placed'
  BY SMTT(60), <1>1, <1>2, <1>3, <1>4, <1>5 DEF SrvTypeOK, Placed
<1>9. Pending' = Pending \ {work[w]} /\ work[w] \in Pending
  BY <1>1, <1>2, <1>3 DEF SrvTypeOK, Pending
<1>10. Cardinality(Pending') = Cardinality(Pending) - 1 /\ Cardinality(Pending) \in Nat
  BY <1>9, PendingFinite, CountLess
<1>11. Counted'
  <2>1. CASE twice \/ n = 2
    BY <1>1, <2>1 DEF Counted
  <2>2. CASE ~twice /\ n < 2 /\ place = "list"
    <3>1. conn'.ref >= Cardinality(Pending')
      BY SMTT(60), <1>6, <1>10, <2>2 DEF Counted, SrvTypeOK
    <3> QED BY <1>1, <2>2, <3>1 DEF Counted
  <2>3. CASE ~twice /\ place # "list"
    <3>1. conn' = conn
      BY <1>6, <2>3 DEF Unlisted
    <3> QED BY SMTT(60), <1>1, <1>9, <1>10, <2>3, <3>1 DEF Counted, SrvTypeOK
  <2> QED BY SMTT(60), <2>1, <2>2, <2>3
<1> QED BY <1>7, <1>8, <1>11

LEMMA StopKeeps == ASSUME SrvInv, NEW how, stop(how) PROVE SrvInv'
<1>1. Pending' \subseteq Pending /\ UNCHANGED <<conn, place, twice>>
  BY DEF stop, Pending
<1>2. SrvTypeOK' /\ Placed' /\ Unlisted'
  BY SMTT(60) DEF SrvInv, stop, SrvTypeOK, Placed, Unlisted
<1> QED BY <1>1, <1>2, FewerCounted DEF SrvInv

LEMMA CopyKeeps == ASSUME SrvInv, CopyLists PROVE SrvInv'
<1> USE DEF SrvInv
<1>1. SrvTypeOK' /\ Placed'
  BY SMTT(60) DEF CopyLists, SrvTypeOK, Placed
<1>2. Unlisted'
  BY DEF CopyLists, SrvTypeOK, Unlisted
<1>3. Pending' = Pending
  BY DEF CopyLists, Pending
<1>4. Counted'
  BY <1>3 DEF CopyLists, SrvTypeOK, Counted
<1> QED BY <1>1, <1>2, <1>4

LEMMA CheckKeeps == ASSUME SrvInv, CheckTimeouts PROVE SrvInv'
<1> USE DEF SrvInv
<1>1. UNCHANGED <<place, changed, mylist, req, queue, pushing, work, twice>>
  BY DEF CheckTimeouts
<1>2. conn' \in [state : {"connected", "closed"}, ref : Int, used : BOOLEAN, stale : BOOLEAN]
      /\ conn'.ref = conn.ref /\ conn'.stale = conn.stale
      /\ (conn.state = "closed" => conn'.state = "closed")
  BY DEF CheckTimeouts, SrvTypeOK
<1>3. SrvTypeOK' /\ Placed' /\ Unlisted'
  BY SMTT(60), <1>1, <1>2 DEF SrvTypeOK, Placed, Unlisted
<1>4. Counted'
  BY <1>1, <1>2 DEF Counted, Pending
<1> QED BY <1>3, <1>4

\* A component with requests under way has a positive count, so its count does
\* not go down and only the 15 minutes can delete it.
LEMMA DeleteKeeps == ASSUME SrvInv, DeleteUnused PROVE SrvInv'
<1> USE ServerAssumption DEF SrvInv
<1>1. UNCHANGED <<changed, mylist, req, queue, pushing, work, twice>>
  BY DEF DeleteUnused
<1>2. Pending' = Pending
  BY <1>1 DEF Pending
<1>3. SrvTypeOK' /\ Placed' /\ Unlisted'
  <2>1. conn' \in [state : {"connected", "closed"}, ref : Int, used : BOOLEAN, stale : BOOLEAN]
        /\ conn'.state = conn.state
    <3>1. conn' \in {conn, [conn EXCEPT !.ref = conn.ref - 1], [conn EXCEPT !.ref = conn.ref]}
      BY DEF DeleteUnused
    <3>2. conn.ref - 1 \in Int
      BY SMTT(60) DEF SrvTypeOK
    <3> QED BY <3>1, <3>2 DEF SrvTypeOK
  <2>2. place' = place \/ (place = "mydel" /\ place' = "deleted")
    BY DEF DeleteUnused
  <2> QED BY SMTT(60), <1>1, <2>1, <2>2 DEF SrvTypeOK, Placed, Unlisted
<1>4. Pending # {} => Cardinality(Pending) >= 1
  BY SMTT(60), PendingFinite, FS_EmptySet
<1>5. Cardinality(Pending) \in Nat
  BY PendingFinite
<1>6. CASE place # "mydel"
  BY SMTT(60), <1>1, <1>2, <1>3, <1>6 DEF DeleteUnused, Counted
<1>7. CASE place = "mydel" /\ conn.ref <= 0
  <2>1. ~twice => Pending = {}
    BY SMTT(60), <1>4, <1>5, <1>7 DEF Counted, SrvTypeOK
  <2>2. place' \in {"mydel", "deleted"}
    BY <1>7 DEF DeleteUnused
  <2> QED BY <1>1, <1>2, <1>3, <2>1, <2>2 DEF Counted
<1>8. CASE place = "mydel" /\ conn.ref > 0
  <2>1. conn'.ref = conn.ref /\ conn'.stale = conn.stale
        /\ place' = IF conn.stale THEN "deleted" ELSE "mydel"
    BY SMTT(60), <1>8 DEF DeleteUnused, SrvTypeOK
  <2> QED BY <1>1, <1>2, <1>3, <1>8, <2>1 DEF Counted
<1> QED BY SMTT(60), <1>6, <1>7, <1>8 DEF SrvTypeOK

LEMMA IdleKeeps == ASSUME SrvInv, GoesIdle PROVE SrvInv'
<1> USE DEF SrvInv
<1>1. UNCHANGED <<place, changed, mylist, req, queue, pushing, work, twice>>
  BY DEF GoesIdle
<1>2. conn' \in [state : {"connected", "closed"}, ref : Int, used : BOOLEAN, stale : BOOLEAN]
      /\ conn'.ref = conn.ref /\ conn'.state = conn.state /\ conn'.stale = TRUE
  BY DEF GoesIdle, SrvTypeOK
<1>3. SrvTypeOK' /\ Placed' /\ Unlisted'
  BY <1>1, <1>2 DEF SrvTypeOK, Placed, Unlisted
<1>4. Counted'
  BY <1>1, <1>2 DEF Counted, Pending
<1> QED BY <1>3, <1>4

\* The strengthened invariant is kept by every step of the event loop, the
\* workers and the timeout thread.
LEMMA SrvStep == SrvInv /\ [SrvNext]_srvVars => SrvInv'
<1> SUFFICES ASSUME SrvInv, [SrvNext]_srvVars PROVE SrvInv'
  OBVIOUS
<1>1. CASE UNCHANGED srvVars
  BY SMTT(60), <1>1 DEF srvVars, SrvInv, SrvTypeOK, Placed, Unlisted, Counted, Pending
<1>2. CASE Push
  BY <1>2, PushKeeps
<1>3. ASSUME NEW r \in Reqs, ReadRequest(r) PROVE SrvInv'
  BY <1>3, ReadKeeps
<1>4. CASE removeComponent
  BY <1>4, RemoveKeeps
<1>5. CASE Working
  BY <1>5, TakeKeeps, DrainKeeps, RespondKeeps DEF Working
<1>6. ASSUME NEW how, stop(how) PROVE SrvInv'
  BY <1>6, StopKeeps
<1>7. CASE Sweep
  BY <1>7, CopyKeeps, CheckKeeps, DeleteKeeps DEF Sweep
<1>8. CASE GoesIdle
  BY <1>8, IdleKeeps
<1> QED BY <1>1, <1>2, <1>3, <1>4, <1>5, <1>6, <1>7, <1>8 DEF SrvNext

\* Transport::timeoutLoop deletes an accepted connection only after it stopped
\* looking at it, and while requests of it wait or are handled only by the 15
\* minutes or after an lrem was answered twice.
THEOREM DeleteSafe == SrvSpec => []DeletedUnreferenced
<1>1. SrvInv => DeletedUnreferenced
  BY DEF SrvInv, SrvTypeOK, Unlisted, Counted, Pending, DeletedUnreferenced, Alive
<1> QED BY <1>1, SrvInitInv, SrvStep, PTL DEF SrvSpec

=============================================================================
