-------------------------- MODULE ServerConnection --------------------------
(***************************************************************************)
(* An accepted connection of a tbnet server, from the accept to the delete *)
(* (TCPAcceptor, Transport, TCPComponent, IOComponent; tbnet/src), with    *)
(* the queue in which the data server's requests wait for a worker         *)
(* (PacketQueueThread; tair_server::handlePacket).  A request counts as a  *)
(* reference to its component until it is answered; Transport::timeoutLoop *)
(* deletes a removed component whose count stays at or below zero for some *)
(* rounds, or that was not used for 15 minutes.                            *)
(***************************************************************************)
EXTENDS Integers, Sequences, FiniteSets

CONSTANTS
  MaxRequests,  \* bound on the requests of the connection
  Workers,      \* the threads of the queue
  QueueSize,    \* task_queue_size
  Grace         \* a removed component is deleted at -Grace references: 10

ASSUME ServerAssumption == MaxRequests \in Nat /\ Grace \in Nat \ {0} /\ Workers \subseteq Nat

VARIABLES
  conn,      \* the component: [state, ref, used, stale], stale: unused for 15 minutes
  place,     \* "list", "del" (_delList), "mydel" or "deleted"
  changed,   \* _iocListChanged
  mylist,    \* timeoutLoop: the component is in mylist
  sweep,     \* timeoutLoop: "copy", "check" or "delete"
  hangup,    \* the event loop will see the socket shut down
  req,       \* of each request: "none", "queued", "working", "answered", "lost"
  queue,     \* PacketQueueThread::_queue
  pushing,   \* the request that push has let pass but not yet queued, or 0
  work,      \* of each worker: its request, or IdleW, DrainW, GoneW
  stopping,  \* _stop with _waitFinish: "no", "finish" or "discard"
  twice      \* a request was answered twice

srvVars == <<conn, place, changed, mylist, sweep, hangup, req, queue, pushing, work, stopping,
             twice>>

Reqs == 1..MaxRequests

IdleW  == 0
DrainW == -1
GoneW  == -2

\* TCPAcceptor::handleReadEvent: a new component, initialised and added.
SrvInit ==
  /\ conn = [state |-> "connected", ref |-> 0, used |-> TRUE, stale |-> FALSE]
  /\ place = "list" /\ changed = TRUE /\ mylist = FALSE /\ sweep = "copy" /\ hangup = FALSE
  /\ req = [r \in Reqs |-> "none"] /\ queue = <<>>
  /\ pushing = 0 /\ work = [w \in Workers |-> IdleW] /\ stopping = "no" /\ twice = FALSE

Alive == place # "deleted"

Waiting == {queue[i] : i \in DOMAIN queue}

-----------------------------------------------------------------------------
(* The event loop. *)

\* handleReadEvent of the component: a request is decoded and counted; a full
\* queue frees it, a stopped one deletes it.
ReadRequest(r) ==
  /\ conn.state = "connected" /\ place = "list" /\ pushing = 0
  /\ req[r] = "none" /\ \A q \in 1..(r - 1) : req[q] # "none"
  /\ conn' = [conn EXCEPT !.ref = @ + 1, !.stale = FALSE]
  /\ IF stopping # "no" \/ Len(queue) >= QueueSize
     THEN req' = [req EXCEPT ![r] = "lost"] /\ UNCHANGED pushing
     ELSE req' = [req EXCEPT ![r] = "queued"] /\ pushing' = r
  /\ UNCHANGED <<place, changed, mylist, sweep, hangup, queue, work, stopping, twice>>

\* The rest of push, under the lock of the queue; _stop is not looked at again.
Push ==
  /\ pushing # 0 /\ queue' = Append(queue, pushing) /\ pushing' = 0
  /\ UNCHANGED <<conn, place, changed, mylist, sweep, hangup, req, work, stopping, twice>>

\* Mutant: the timeout thread is not told that the list has changed.
removeComponent_unmarked ==
  /\ place = "list" /\ pushing = 0
  /\ conn' = [conn EXCEPT !.state = "closed", !.used = FALSE]
  /\ place' = "del" /\ hangup' = FALSE
  /\ UNCHANGED <<changed, mylist, sweep, req, queue, pushing, work, stopping, twice>>

\* removeComponent, after a read that failed, an error, or the shutdown of an
\* idle connection: a server does not reconnect, so the component goes to
\* _delList.
removeComponent ==
  /\ place = "list" /\ pushing = 0
  /\ conn' = [conn EXCEPT !.state = "closed", !.used = FALSE]
  /\ place' = "del" /\ changed' = TRUE /\ hangup' = FALSE
  /\ UNCHANGED <<mylist, sweep, req, queue, pushing, work, stopping, twice>>

-----------------------------------------------------------------------------
(* The workers. *)

\* PacketQueueThread::run takes a packet, or sees _stop.
Take(w) ==
  /\ work[w] = IdleW
  /\ \/ /\ stopping = "no" /\ queue # <<>>
        /\ work' = [work EXCEPT ![w] = Head(queue)]
        /\ req' = [req EXCEPT ![Head(queue)] = "working"] /\ queue' = Tail(queue)
     \/ stopping # "no" /\ work' = [work EXCEPT ![w] = DrainW] /\ UNCHANGED <<req, queue>>
  /\ UNCHANGED <<conn, place, changed, mylist, sweep, hangup, pushing, stopping, twice>>

\* After _stop: what is left is done, or freed.
Drain(w) ==
  /\ work[w] = DrainW
  /\ \/ /\ queue = <<>> /\ work' = [work EXCEPT ![w] = GoneW] /\ UNCHANGED <<req, queue>>
     \/ /\ queue # <<>> /\ stopping = "finish"
        /\ work' = [work EXCEPT ![w] = Head(queue)]
        /\ req' = [req EXCEPT ![Head(queue)] = "working"] /\ queue' = Tail(queue)
     \/ /\ queue # <<>> /\ stopping = "discard"
        /\ work' = [work EXCEPT ![w] = GoneW] /\ queue' = <<>>
        /\ req' = [r \in Reqs |-> IF r \in Waiting THEN "lost" ELSE req[r]]
  /\ UNCHANGED <<conn, place, changed, mylist, sweep, hangup, pushing, stopping, twice>>

\* postPacket of n answers: on a connection that is no longer open it returns
\* before it drops the reference.
Answered(n) == IF conn.state = "connected" THEN [conn EXCEPT !.ref = @ - n] ELSE conn

\* handlePacketQueue.  n: most requests are answered once, some never (a get on
\* a server that cannot work), lrem of a duplicated key twice.
Respond(w, n) ==
  /\ work[w] \in Reqs
  /\ work' = [work EXCEPT ![w] = IF stopping = "no" THEN IdleW ELSE DrainW]
  /\ req' = [req EXCEPT ![work[w]] = IF n > 0 /\ conn.state = "connected" THEN "answered"
                                     ELSE "lost"]
  /\ conn' = Answered(n) /\ twice' = (twice \/ n = 2)
  /\ UNCHANGED <<place, changed, mylist, sweep, hangup, queue, pushing, stopping>>

stop(how) ==
  /\ stopping = "no" /\ stopping' = how
  /\ UNCHANGED <<conn, place, changed, mylist, sweep, hangup, req, queue, pushing, work, twice>>

-----------------------------------------------------------------------------
(* Transport::timeoutLoop. *)

\* A round that finds nothing to do is left out.
SweepFinds ==
  \/ changed \/ place = "del" \/ (mylist /\ conn.state = "connected" /\ conn.stale)
  \/ place = "mydel" /\ (conn.ref <= 0 \/ conn.stale)

CopyLists ==
  /\ sweep = "copy" /\ SweepFinds /\ sweep' = "check"
  /\ mylist' = (IF changed THEN place = "list" ELSE mylist)
  /\ changed' = FALSE
  /\ place' = IF place = "del" THEN "mydel" ELSE place
  /\ UNCHANGED <<conn, hangup, req, queue, pushing, work, stopping, twice>>

\* TCPComponent::checkTimeout: an idle connection is shut down.
CheckTimeouts ==
  /\ sweep = "check" /\ sweep' = "delete"
  /\ IF mylist /\ conn.state = "connected" /\ conn.stale
     THEN conn' = [conn EXCEPT !.state = "closed"] /\ hangup' = TRUE
     ELSE UNCHANGED <<conn, hangup>>
  /\ UNCHANGED <<place, changed, mylist, req, queue, pushing, work, stopping, twice>>

\* Mutant: a component goes by its references only.
DeleteUnused_byCount ==
  /\ sweep = "delete" /\ sweep' = "copy"
  /\ LET ref == IF conn.ref <= 0 THEN conn.ref - 1 ELSE conn.ref
     IN IF place = "mydel"
        THEN /\ conn' = [conn EXCEPT !.ref = ref]
             /\ place' = IF ref <= -Grace THEN "deleted" ELSE place
        ELSE UNCHANGED <<conn, place>>
  /\ UNCHANGED <<changed, mylist, hangup, req, queue, pushing, work, stopping, twice>>

DeleteUnused ==
  /\ sweep = "delete" /\ sweep' = "copy"
  /\ LET ref == IF conn.ref <= 0 THEN conn.ref - 1 ELSE conn.ref
     IN IF place = "mydel"
        THEN /\ conn' = [conn EXCEPT !.ref = ref]
             /\ place' = IF ref <= -Grace \/ conn.stale THEN "deleted" ELSE place
        ELSE UNCHANGED <<conn, place>>
  /\ UNCHANGED <<changed, mylist, hangup, req, queue, pushing, work, stopping, twice>>

\* 15 minutes pass without an event on the socket.
GoesIdle ==
  /\ Alive /\ ~conn.stale /\ conn' = [conn EXCEPT !.stale = TRUE]
  /\ UNCHANGED <<place, changed, mylist, sweep, hangup, req, queue, pushing, work, stopping,
                 twice>>

-----------------------------------------------------------------------------

Working == \E w \in Workers : Take(w) \/ Drain(w) \/ \E n \in 0..2 : Respond(w, n)

Sweep == Alive /\ (CopyLists \/ CheckTimeouts \/ DeleteUnused)

RemoveHungUp == hangup /\ removeComponent

SrvNext ==
  \/ Push \/ \E r \in Reqs : ReadRequest(r)
  \/ removeComponent
  \/ Working
  \/ \E how \in {"finish", "discard"} : stop(how)
  \/ Sweep
  \/ GoesIdle

SrvProgress == Push \/ RemoveHungUp \/ Working \/ Sweep \/ GoesIdle

\* The threads run and time passes.  Each step happens only a bounded number of
\* times, so one weak fairness serves for all.
SrvSpec == SrvInit /\ [][SrvNext]_srvVars /\ WF_srvVars(SrvProgress)

\* A component is deleted only after the timeout thread stopped looking at it,
\* and while one of its requests waits or is being handled only if it was not
\* used for 15 minutes or lrem's second answer had dropped a reference that
\* was not its own.
DeletedUnreferenced ==
  ~Alive =>
    /\ ~mylist
    /\ \/ \A r \in Reqs : req[r] \notin {"queued", "working"}
       \/ conn.stale \/ twice

\* Every removed component is deleted, also when answers were lost with the
\* connection, and every request that was taken is answered or let go.  One
\* that was pushed while the queue stopped may stay in it when the last worker
\* has gone.
Collected ==
  /\ place \in {"list", "deleted"} /\ ~hangup /\ pushing = 0
  /\ \A r \in Reqs :
       \/ req[r] \notin {"queued", "working"}
       \/ r \in Waiting /\ \A w \in Workers : work[w] = GoneW

=============================================================================
