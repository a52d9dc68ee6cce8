-------------------------- MODULE ClientConnection --------------------------
(***************************************************************************)
(* A connection of tbnet seen from the side that asks (Connection,         *)
(* TCPConnection, TCPComponent, ChannelPool, PacketQueue; tbnet/src): the  *)
(* threads that call postPacket, the thread of Transport::eventLoop, the   *)
(* thread of Transport::timeoutLoop, and a peer that answers, lets         *)
(* requests lie, or drops the connection.  Connections of                  *)
(* ConnectionManager reconnect by themselves and never block a caller.     *)
(*                                                                         *)
(* Calls are numbered in the order in which they begin, and a call is also *)
(* its channel: ids are handed out in turn, and the list of the channels   *)
(* in use has the order of the numbers.  All posts have the same timeout,  *)
(* so they fall due in that order.  A request on the wire is a head and a  *)
(* tail, a response a header and a body; a body that is read where a       *)
(* header is expected has the wrong flag.                                  *)
(***************************************************************************)
EXTENDS Integers, Sequences, FiniteSets

CONSTANTS
  MaxCalls,     \* bound on the calls of postPacket
  QueueLimit,   \* _queueLimit
  ClosedLimit,  \* how many packets may wait for a reconnect: 10
  MaxDrops      \* bound on dropped connections

ASSUME CallsAssumption == MaxCalls \in Nat

VARIABLES
  stage,     \* of each call: "new", "alloc", "posted", "refused"
  state,     \* IOComponent::_state: "connecting", "connected", "closed"
  startSet,  \* _startConnectTime > 0
  writeOn,   \* the socket is watched for being writable
  inUse,     \* ChannelPool: the channels of the use list
  unsent,    \* those of them whose _expireTime is still TBNET_MAX_TIME + 1
  outq,      \* _outputQueue
  myq,       \* _myQueue
  out,       \* _output, as pieces of requests
  header,    \* the channel of _packetHeader, 0 if _gotHeader is false
  loop,      \* the event loop: "events", or a step of closing the connection
  timer,     \* the timeout thread: "channels" or "packets"
  late,      \* the calls up to this one are past their time
  line,      \* the peer: [up, heard, asked, wire]
  got,       \* what the handler of each call was called with
  drops,     \* how often the connection was dropped
  kept       \* a connection was closed between a header and its body

connVars == <<stage, state, startSet, writeOn, inUse, unsent, outq, myq, out, header, loop, timer,
              late, line, got, drops, kept>>

Calls == 1..MaxCalls

LineDown == [up |-> FALSE, heard |-> <<>>, asked |-> {}, wire |-> <<>>]
LineUp == [up |-> TRUE, heard |-> <<>>, asked |-> {}, wire |-> <<>>]

CallAll(S, what) == [p \in Calls |-> IF p \in S THEN Append(got[p], what) ELSE got[p]]

\* sendPacket: getConnection makes the component just before the first post, and
\* its first socketConnect is taken together with that post.
ConnInit ==
  /\ stage = [p \in Calls |-> "new"]
  /\ state = "closed" /\ startSet = FALSE /\ writeOn = TRUE
  /\ inUse = {} /\ unsent = {} /\ outq = <<>> /\ myq = <<>> /\ out = <<>>
  /\ header = 0 /\ loop = "events" /\ timer = "channels"
  /\ late = 0 /\ line = LineDown
  /\ got = [p \in Calls |-> <<>>] /\ drops = 0 /\ kept = FALSE

-----------------------------------------------------------------------------
(* postPacket. *)

isConnectState == state \in {"connected", "connecting"}

\* socketConnect: at once, in progress, or refused, which init() lets pass on a
\* connection that reconnects.
socketConnect ==
  \/ state' = "connected" /\ startSet' = TRUE /\ writeOn' = TRUE /\ line' = LineUp
  \/ state' = "connecting" /\ writeOn' = TRUE /\ line' \in {LineUp, LineDown} /\ UNCHANGED startSet
  \/ state' = "closed" /\ line' = LineDown /\ UNCHANGED <<startSet, writeOn>>

allocChannel(p) == inUse' = inUse \cup {p} /\ unsent' = unsent \cup {p}

\* Up to the channel: reconnect if need be, then the limit of the queue.
StartPost(p) ==
  LET refuse == stage' = [stage EXCEPT ![p] = "refused"] /\ UNCHANGED <<inUse, unsent>>
      queueTotalSize == Len(outq) + Len(myq) + Cardinality(inUse)
  IN /\ stage[p] = "new" /\ \A q \in 1..(p - 1) : stage[q] # "new"
     /\ \/ /\ ~isConnectState /\ Len(outq) > ClosedLimit
           /\ refuse /\ UNCHANGED <<state, startSet, writeOn, line>>
        \/ /\ \/ isConnectState /\ UNCHANGED <<state, startSet, writeOn, line>>
              \/ ~isConnectState /\ Len(outq) <= ClosedLimit /\ socketConnect
           /\ IF QueueLimit > 0 /\ queueTotalSize >= QueueLimit THEN refuse
              ELSE stage' = [stage EXCEPT ![p] = "alloc"] /\ allocChannel(p)
     /\ UNCHANGED <<outq, myq, out, header, loop, timer, late, got, drops, kept>>

\* The packet joins the queue, in a critical section of its own; only the first
\* one asks for the socket to be watched.
FinishPost(p) ==
  /\ stage[p] = "alloc"
  /\ stage' = [stage EXCEPT ![p] = "posted"]
  /\ outq' = Append(outq, p)
  /\ writeOn' = (writeOn \/ outq = <<>>)
  /\ UNCHANGED <<state, startSet, inUse, unsent, myq, out, header, loop, timer, late, line, got,
                 drops, kept>>

-----------------------------------------------------------------------------
(* Timeouts: Connection::checkTimeout, in its two critical sections, called *)
(* by the timeout thread with the time and by disconnect() with             *)
(* TBNET_MAX_TIME, past which lies only a channel whose request is unsent.  *)

\* The head of the use list up to the first channel that is not past.
Overdue(past) == {p \in inUse : \A q \in inUse : q <= p => q \in past \ unsent}

\* Mutant: the handlers are called while the channels can still be found.
ExpireChannels_keeps(past) == got' = CallAll(Overdue(past), "timeout") /\ UNCHANGED inUse

\* ChannelPool::getTimeoutList and the handlers of what it gives.
ExpireChannels(past) ==
  got' = CallAll(Overdue(past), "timeout") /\ inUse' = inUse \ Overdue(past)

\* PacketQueue::getTimeoutList: the first n packets, up to one that is not past.
OverduePackets(n, past) ==
  (\A i \in 1..n : outq[i] \in past) /\ (n < Len(outq) => outq[n + 1] \notin past)

\* The handler and freeChannel of each of them.
ExpirePackets(past) ==
  \E n \in 0..Len(outq) :
    LET gone == {outq[i] : i \in 1..n}
    IN /\ OverduePackets(n, past)
       /\ outq' = SubSeq(outq, n + 1, Len(outq))
       /\ inUse' = inUse \ gone /\ unsent' = unsent \ gone
       /\ got' = CallAll(gone, "timeout")

\* A round of the timeout thread that finds nothing is left out.
RoundFinds == Overdue(1..late) # {} \/ (outq # <<>> /\ outq[1] \in 1..late)

\* TCPComponent::checkTimeout: a connect that takes too long is given up, but
\* only if an earlier one had succeeded at once.
CheckChannels ==
  /\ timer = "channels" /\ timer' = "packets"
  /\ \/ RoundFinds /\ UNCHANGED <<state, line>>
     \/ state = "connecting" /\ startSet /\ state' = "closed" /\ line' = LineDown
  /\ ExpireChannels(1..late)
  /\ UNCHANGED <<stage, startSet, writeOn, unsent, outq, myq, out, header, loop, late, drops, kept>>

CheckPackets ==
  /\ timer = "packets" /\ timer' = "channels"
  /\ ExpirePackets(1..late)
  /\ UNCHANGED <<stage, state, startSet, writeOn, myq, out, header, loop, late, line, drops, kept>>

\* Time passes.
Expire ==
  /\ late < MaxCalls /\ stage[late + 1] # "new"
  /\ late' = late + 1
  /\ UNCHANGED <<stage, state, startSet, writeOn, inUse, unsent, outq, myq, out, header, loop, timer,
                 line, got, drops, kept>>

-----------------------------------------------------------------------------
(* The event loop. *)

\* What the peer makes of a piece it gets: a head waits for its tail, a whole
\* request is taken up, and a tail without its head makes it close the
\* connection.
Hear(l, piece) ==
  CASE ~l.up -> l
    [] l.up /\ piece[2] = "head" -> [l EXCEPT !.heard = <<piece>>]
    [] l.up /\ piece[2] = "tail" /\ l.heard = <<>> -> [l EXCEPT !.up = FALSE, !.asked = {}]
    [] OTHER -> [l EXCEPT !.heard = <<>>, !.asked = @ \cup {piece[1]}]

\* writeData: all that was posted moves to _myQueue; a packet of it may be
\* encoded into the buffer, where its channel gets its expire time, and a piece
\* of the buffer written.  A longer write is several of these.
writeData ==
  LET q      == myq \o outq
      buffer == IF q = <<>> THEN out ELSE out \o <<<<q[1], "head">>, <<q[1], "tail">>>>
  IN /\ \/ outq' = <<>> /\ myq' = q /\ UNCHANGED <<unsent, line, out>>
        \/ outq' = <<>> /\ myq' = q /\ out # <<>>
           /\ out' = Tail(out) /\ line' = Hear(line, Head(out)) /\ UNCHANGED unsent
        \/ q # <<>> /\ outq' = <<>> /\ myq' = Tail(q) /\ unsent' = unsent \ {q[1]}
           /\ out' = buffer /\ UNCHANGED line
     /\ writeOn' = (myq' # <<>> \/ out' # <<>>)

handleWriteEvent ==
  /\ loop = "events" /\ writeOn
  /\ \/ state = "connected" /\ writeData /\ UNCHANGED state
     \/ state = "connecting" /\ line.up
        /\ state' = "connected" /\ out' = <<>> /\ UNCHANGED <<writeOn, unsent, outq, myq, line>>
     \/ state = "connecting" /\ ~line.up
        /\ state' = "closed" /\ UNCHANGED <<writeOn, unsent, outq, myq, out, line>>
  /\ UNCHANGED <<stage, startSet, inUse, header, loop, timer, late, got, drops, kept>>

\* handlePacket: the body is decoded for the channel of the header, or drained
\* if that is no longer in use.
handlePacket(body) ==
  IF header \notin inUse THEN UNCHANGED <<inUse, got>>
  ELSE /\ inUse' = inUse \ {header}
       /\ got' = CallAll({header}, IF body = <<header, "body">> THEN "response" ELSE "garbage")

\* readData: a piece is read, or the end of the stream of a dead line.  A longer
\* read is several of these.  A stream that is out of step, or at its end, has
\* the connection removed; _gotHeader is cleared in the first case only.
readData ==
  /\ line' = [line EXCEPT !.wire = IF @ = <<>> THEN @ ELSE Tail(@)]
  /\ \/ line.wire = <<>> /\ ~line.up /\ loop' = "disconnect" /\ UNCHANGED <<inUse, got, header>>
     \/ /\ line.wire # <<>> /\ header # 0
        /\ handlePacket(Head(line.wire)) /\ header' = 0 /\ UNCHANGED loop
     \/ /\ line.wire # <<>> /\ header = 0 /\ Head(line.wire)[2] = "header"
        /\ header' = Head(line.wire)[1] /\ UNCHANGED <<inUse, got, loop>>
     \/ /\ line.wire # <<>> /\ header = 0 /\ Head(line.wire)[2] = "body"
        /\ loop' = "disconnect" /\ UNCHANGED <<inUse, got, header>>

handleReadEvent ==
  /\ loop = "events" /\ state = "connected"
  /\ readData
  /\ UNCHANGED <<stage, state, startSet, writeOn, unsent, outq, myq, out, timer, late, drops, kept>>

\* An error event: the connection is removed without a read.
ErrorEvent ==
  /\ loop = "events" /\ isConnectState /\ ~line.up
  /\ loop' = "disconnect"
  /\ UNCHANGED <<stage, state, startSet, writeOn, inUse, unsent, outq, myq, out, header, timer, late,
                 line, got, drops, kept>>

\* removeComponent, TCPComponent::close: disconnect() puts back what was not
\* sent and expires everything, in three critical sections, while callers may
\* still post; then the socket is closed and the input cleared.
Disconnect ==
  /\ loop = "disconnect"
  /\ IF isConnectState
     THEN loop' = "expireChannels" /\ outq' = outq \o myq /\ myq' = <<>>
     ELSE loop' = "close" /\ UNCHANGED <<outq, myq>>
  /\ UNCHANGED <<stage, state, startSet, writeOn, inUse, unsent, out, header, timer, late, line, got,
                 drops, kept>>

DisconnectChannels ==
  /\ loop = "expireChannels" /\ loop' = "expirePackets"
  /\ ExpireChannels(Calls)
  /\ UNCHANGED <<stage, state, startSet, writeOn, unsent, outq, myq, out, header, timer, late, line,
                 drops, kept>>

DisconnectPackets ==
  /\ loop = "expirePackets" /\ loop' = "close"
  /\ ExpirePackets(Calls)
  /\ UNCHANGED <<stage, state, startSet, writeOn, myq, out, header, timer, late, line, drops, kept>>

CloseSocket ==
  /\ loop = "close" /\ loop' = "events"
  /\ state' = "closed" /\ line' = LineDown
  /\ kept' = (kept \/ header # 0)
  /\ UNCHANGED <<stage, startSet, writeOn, inUse, unsent, outq, myq, out, header, timer, late, got,
                 drops>>

-----------------------------------------------------------------------------
(* The peer and the network. *)

PeerAnswers ==
  /\ \E p \in line.asked :
       line' = [line EXCEPT !.asked = @ \ {p}, !.wire = @ \o <<<<p, "header">>, <<p, "body">>>>]
  /\ UNCHANGED <<stage, state, startSet, writeOn, inUse, unsent, outq, myq, out, header, loop, timer,
                 late, got, drops, kept>>

\* The connection goes down; what arrived before that can still be read.
PeerDrops ==
  /\ line.up /\ drops < MaxDrops
  /\ drops' = drops + 1
  /\ \E n \in 0..Len(line.wire) : line' = [LineDown EXCEPT !.wire = SubSeq(line.wire, 1, n)]
  /\ UNCHANGED <<stage, state, startSet, writeOn, inUse, unsent, outq, myq, out, header, loop, timer,
                 late, got, kept>>

-----------------------------------------------------------------------------

Posting == \E p \in Calls : FinishPost(p)

Closing == ErrorEvent \/ Disconnect \/ DisconnectChannels \/ DisconnectPackets \/ CloseSocket

ConnNext ==
  \/ \E p \in Calls : StartPost(p)
  \/ Posting
  \/ CheckChannels \/ CheckPackets \/ Expire
  \/ handleWriteEvent \/ handleReadEvent \/ Closing
  \/ PeerAnswers \/ PeerDrops

\* The threads run, time passes, and a socket with something to write becomes
\* writable or dies.  Each of these happens only a bounded number of times, so
\* one weak fairness serves for all.  The peer may leave any request unanswered.
ConnProgress ==
  Posting \/ CheckChannels \/ CheckPackets \/ Expire \/ handleWriteEvent \/ Closing

ConnSpec == ConnInit /\ [][ConnNext]_connVars /\ WF_connVars(ConnProgress)

\* The handler of a packet that postPacket took is called at most once, with
\* the response to that packet or with TimeoutPacket; that of a packet that was
\* refused is never called.  The exception is a connection that was closed
\* between the header and the body of a response: _gotHeader stays set, so the
\* bytes of the next connection are read as that body.
CalledOnce ==
  \A p \in Calls :
    /\ Len(got[p]) <= 1
    /\ got[p] # <<>> => stage[p] = "posted"
    /\ got[p] = <<"garbage">> => kept

\* Every packet that postPacket took has had its call.
PostsAnswered == \A p \in Calls : stage[p] = "posted" => got[p] # <<>>

=============================================================================
