----------------------- MODULE ClientConnection_proofs -----------------------
(***************************************************************************)
(* The handler of a posted packet is called at most once, and with its own *)
(* response or a timeout (CalledOnce), for any number of calls and drops   *)
(* and any limits of the queue.                                            *)
(*                                                                         *)
(* A call is answered from four places: the response, the expired channel, *)
(* the expired packet, and each of the last two from the timeout thread or *)
(* from the thread that closes the connection.  They exclude each other    *)
(* because a packet that is still queued has a channel that cannot expire  *)
(* (Queues), because only a channel whose request was encoded can come     *)
(* back in a response (Channels), and because the channel leaves the use   *)
(* list with the call (Answers).  That the response is the right one needs *)
(* that the stream is in step as long as no connection was closed between  *)
(* a header and its body (InStep).                                         *)
(***************************************************************************)
EXTENDS ClientConnection, TLAPS

\* Zenon proves the leaves that do not ask for SMT.
USE ZenonT(60)

Requested == Calls \X {"head", "tail"}
Answered == Calls \X {"header", "body"}

ConnTypeOK ==
  /\ stage \in [Calls -> {"new", "alloc", "posted", "refused"}]
  /\ inUse \subseteq Calls /\ unsent \subseteq Calls
  /\ outq \in Seq(Calls) /\ myq \in Seq(Calls)
  /\ out \in Seq(Requested)
  /\ header \in 0..MaxCalls
  /\ line \in [up : BOOLEAN, heard : Seq(Requested), asked : SUBSET Calls, wire : Seq(Answered)]
  /\ got \in [Calls -> Seq({"response", "timeout", "garbage"})]

Distinct(s) == \A i, j \in 1..Len(s) : s[i] = s[j] => i = j
Apart(s, t) == \A i \in 1..Len(s), j \in 1..Len(t) : s[i] # t[j]

\* A queued packet is in one place of one queue, and its channel cannot expire.
Ready(p) == p \in inUse /\ p \in unsent /\ stage[p] = "posted"
AllReady(s) == \A i \in 1..Len(s) : Ready(s[i])
Queues ==
  /\ \A p \in Calls : stage[p] = "alloc" => p \in inUse /\ p \in unsent
  /\ \A p \in inUse : stage[p] \in {"alloc", "posted"}
  /\ AllReady(outq) /\ AllReady(myq)
  /\ Distinct(outq) /\ Distinct(myq) /\ Apart(outq, myq)

\* What was encoded, written, heard or answered has a channel that can expire.
Sent(p) == stage[p] = "posted" /\ p \notin unsent
Channels ==
  /\ \A i \in 1..Len(out) : Sent(out[i][1])
  /\ \A i \in 1..Len(line.wire) : Sent(line.wire[i][1])
  /\ \A p \in line.asked : Sent(p)
  /\ header # 0 => Sent(header)

\* The handler of a channel in use was not called yet.
Answers ==
  /\ \A p \in inUse : got[p] = <<>>
  /\ CalledOnce

\* Headers and bodies alternate, a body is that of the header before it, and the
\* peer stops between the two only when the line goes down.
InStep ==
  /\ line.asked # {} => line.up
  /\ ~kept =>
       /\ header # 0 => state = "connected"
       /\ \A i \in 1..Len(line.wire) :
            \/ /\ line.wire[i][2] = "header"
               /\ IF i = 1 THEN header = 0 ELSE line.wire[i - 1][2] = "body"
            \/ /\ line.wire[i][2] = "body"
               /\ IF i = 1 THEN header = line.wire[1][1]
                  ELSE line.wire[i - 1] = <<line.wire[i][1], "header">>
       /\ line.up => IF line.wire = <<>> THEN header = 0
                     ELSE line.wire[Len(line.wire)][2] = "body"

ConnInv == ConnTypeOK /\ Queues /\ Channels /\ Answers /\ InStep

-----------------------------------------------------------------------------
(* Sequences and the calls of handlers. *)

LEMMA Joined ==
  ASSUME NEW S, NEW s \in Seq(S), NEW t \in Seq(S)
  PROVE  /\ s \o t \in Seq(S)
         /\ Len(s \o t) = Len(s) + Len(t)
         /\ \A i \in 1..Len(s \o t) :
              \/ i \in 1..Len(s) /\ (s \o t)[i] = s[i]
              \/ i - Len(s) \in 1..Len(t) /\ (s \o t)[i] = t[i - Len(s)]
BY SMTT(60)

LEMMA JoinedDistinct ==
  ASSUME NEW S, NEW s \in Seq(S), NEW t \in Seq(S), Distinct(s), Distinct(t), Apart(s, t)
  PROVE  Distinct(s \o t)
<1> DEFINE u == s \o t
<1>1. Len(s) \in Nat /\ Len(t) \in Nat
  BY SMTT(60)
<1>2. \A i \in 1..Len(u) : \/ i \in 1..Len(s) /\ u[i] = s[i]
                           \/ i - Len(s) \in 1..Len(t) /\ u[i] = t[i - Len(s)]
  BY Joined
<1>3. Len(u) = Len(s) + Len(t)
  BY Joined
<1> HIDE DEF u
<1>4. ASSUME NEW i \in 1..Len(u), NEW j \in 1..Len(u), u[i] = u[j]
      PROVE  i = j
  <2>1. CASE i \in 1..Len(s) /\ j \in 1..Len(s) /\ u[i] = s[i] /\ u[j] = s[j]
    BY <1>4, <2>1 DEF Distinct
  <2>2. CASE i \in 1..Len(s) /\ j - Len(s) \in 1..Len(t) /\ u[i] = s[i] /\ u[j] = t[j - Len(s)]
    BY <1>4, <2>2 DEF Apart
  <2>3. CASE i - Len(s) \in 1..Len(t) /\ j \in 1..Len(s) /\ u[i] = t[i - Len(s)] /\ u[j] = s[j]
    BY <1>4, <2>3 DEF Apart
  <2>4. CASE i - Len(s) \in 1..Len(t) /\ j - Len(s) \in 1..Len(t) /\ u[i] = t[i - Len(s)]
             /\ u[j] = t[j - Len(s)]
    <3>1. i - Len(s) = j - Len(s)
      BY <1>4, <2>4 DEF Distinct
    <3>2. i \in Int /\ j \in Int
      BY SMTT(60)
    <3> QED BY SMTT(60), <1>1, <3>1, <3>2
  <2> QED BY <1>2, <2>1, <2>2, <2>3, <2>4
<1> QED BY <1>4 DEF Distinct, u

LEMMA JoinedPair ==
  ASSUME NEW S, NEW s \in Seq(S), NEW a \in S, NEW b \in S, NEW u, u = s \o <<a, b>>
  PROVE  /\ u \in Seq(S) /\ Len(u) = Len(s) + 2 /\ Len(s) \in Nat
         /\ \A i \in 1..Len(s) : u[i] = s[i]
         /\ u[Len(s) + 1] = a /\ u[Len(s) + 2] = b
         /\ \A i \in 1..Len(u) : i \in 1..Len(s) \/ i = Len(s) + 1 \/ i = Len(s) + 2
<1> DEFINE t == <<a, b>>
<1>1. t \in Seq(S) /\ Len(t) = 2 /\ t[1] = a /\ t[2] = b
  BY SMTT(60)
<1>2. u = s \o t
  OBVIOUS
<1> HIDE DEF t
<1>3. u \in Seq(S) /\ Len(u) = Len(s) + 2 /\ Len(s) \in Nat
  BY SMTT(60), <1>1, <1>2
<1>4. \A i \in 1..Len(s) : u[i] = s[i]
  BY SMTT(60), <1>1, <1>2
<1>5. u[Len(s) + 1] = t[1] /\ u[Len(s) + 2] = t[2]
  BY SMTT(60), <1>1, <1>2
<1> QED BY SMTT(60), <1>1, <1>3, <1>4, <1>5

LEMMA JoinedReady ==
  ASSUME NEW S, NEW s \in Seq(S), NEW t \in Seq(S), AllReady(s), AllReady(t)
  PROVE  AllReady(s \o t)
<1> DEFINE u == s \o t
<1>1. \A i \in 1..Len(u) : \/ i \in 1..Len(s) /\ u[i] = s[i]
                           \/ i - Len(s) \in 1..Len(t) /\ u[i] = t[i - Len(s)]
  BY Joined
<1> HIDE DEF u
<1>2. \A i \in 1..Len(u) : Ready(u[i])
  BY <1>1 DEF AllReady
<1> QED BY <1>2 DEF AllReady, u

LEMMA Shortened ==
  ASSUME NEW S, NEW s \in Seq(S), s # <<>>
  PROVE  /\ Tail(s) \in Seq(S) /\ Len(Tail(s)) = Len(s) - 1 /\ Len(s) \in Nat \ {0}
         /\ Head(s) = s[1] /\ s[1] \in S
         /\ \A i \in 1..Len(Tail(s)) : Tail(s)[i] = s[i + 1] /\ i + 1 \in 1..Len(s)
BY SMTT(60)

LEMMA Suffix ==
  ASSUME NEW S, NEW s \in Seq(S), NEW n \in 0..Len(s)
  PROVE  LET u == SubSeq(s, n + 1, Len(s))
         IN /\ u \in Seq(S) /\ Len(u) = Len(s) - n
            /\ \A i \in 1..Len(u) : u[i] = s[n + i] /\ n + i \in 1..Len(s)
<1> DEFINE u == SubSeq(s, n + 1, Len(s))
<1>1. u \in Seq(S) /\ Len(u) = Len(s) - n
  BY SMTT(60)
<1>2. \A i \in 1..Len(u) : u[i] = s[n + i]
  BY SMTT(60)
<1>3. \A i \in 1..Len(u) : n + i \in 1..Len(s)
  BY SMTT(60), <1>1
<1> QED BY <1>1, <1>2, <1>3

\* The handlers of channels that leave the use list are called for the first
\* time.
LEMMA CalledNow ==
  ASSUME ConnTypeOK, Answers, NEW G \in SUBSET inUse, NEW what \in {"response", "timeout", "garbage"},
         \A p \in G : stage[p] = "posted", what = "garbage" => kept,
         got' = CallAll(G, what), inUse' = inUse \ G, UNCHANGED <<stage, kept>>
  PROVE  Answers' /\ got' \in [Calls -> Seq({"response", "timeout", "garbage"})]
<1>1. \A p \in Calls : got'[p] = IF p \in G THEN Append(got[p], what) ELSE got[p]
  BY DEF CallAll
<1>2. \A p \in G : p \in Calls /\ got[p] = <<>>
  BY DEF ConnTypeOK, Answers
<1>3. \A p \in G : got'[p] = <<what>>
  <2>1. Append(<<>>, what) = <<what>>
    BY SMTT(60)
  <2> QED BY <1>1, <1>2, <2>1
<1>4. got' \in [Calls -> Seq({"response", "timeout", "garbage"})]
  BY SMTT(60) DEF CallAll, ConnTypeOK
<1>5. \A p \in inUse' : got'[p] = <<>>
  BY <1>1 DEF Answers, ConnTypeOK
<1>6. Len(<<what>>) = 1 /\ (<<what>> = <<"garbage">> => what = "garbage")
  OBVIOUS
<1>7. ASSUME NEW p \in Calls
      PROVE  Len(got'[p]) <= 1 /\ (got'[p] # <<>> => stage'[p] = "posted")
             /\ (got'[p] = <<"garbage">> => kept')
  <2>1. CASE p \in G
    <3>1. got'[p] = <<what>> /\ stage'[p] = "posted"
      BY <1>3, <2>1
    <3>2. what = "garbage" => kept'
      OBVIOUS
    <3> QED BY SMTT(60), <1>6, <3>1, <3>2
  <2>2. CASE p \notin G
    BY <1>1, <2>2 DEF Answers, CalledOnce
  <2> QED BY <2>1, <2>2
<1> QED BY <1>4, <1>5, <1>7 DEF Answers, CalledOnce

\* What was sent stays sent, so a step that adds nothing to the streams keeps
\* Channels.
LEMMA ChannelsKept ==
  ASSUME Channels, \A p \in Calls : Sent(p) => Sent(p)',
         ConnTypeOK, UNCHANGED <<out, header>>, line'.wire = line.wire \/ line'.wire = <<>>,
         line'.asked \subseteq line.asked
  PROVE  Channels'
<1>1. \A i \in 1..Len(out) : out[i][1] \in Calls
  BY SMTT(60) DEF ConnTypeOK, Requested
<1>2. \A i \in 1..Len(line.wire) : line.wire[i][1] \in Calls
  BY SMTT(60) DEF ConnTypeOK, Answered
<1>3. header # 0 => header \in Calls
  BY SMTT(60), CallsAssumption DEF ConnTypeOK, Calls
<1>4. line.asked \subseteq Calls
  BY DEF ConnTypeOK
<1>5. (\A i \in 1..Len(out) : Sent(out[i][1]))'
  BY <1>1 DEF Channels, Sent
<1>6. (\A i \in 1..Len(line.wire) : Sent(line.wire[i][1]))'
  BY SMTT(60), <1>2 DEF Channels, Sent
<1>7. (\A p \in line.asked : Sent(p))'
  BY <1>4 DEF Channels, Sent
<1>8. (header # 0 => Sent(header))'
  BY <1>3 DEF Channels, Sent
<1> QED BY <1>5, <1>6, <1>7, <1>8 DEF Channels

\* What a conjunct speaks of and a step leaves alone.
LEMMA QueuesSame == ASSUME Queues, UNCHANGED <<stage, inUse, unsent, outq, myq>> PROVE Queues'
BY DEF Queues, AllReady, Ready, Distinct, Apart

\* The packets move from one queue to the other.
LEMMA QueuesJoined ==
  ASSUME Queues, UNCHANGED <<stage, inUse, unsent>>, outq' = <<>>, AllReady(myq'), Distinct(myq')
  PROVE  Queues'
<1>1. AllReady(myq)' /\ AllReady(outq)' /\ Distinct(outq') /\ Apart(outq', myq')
  BY SMTT(60) DEF AllReady, Ready, Distinct, Apart
<1> QED BY <1>1 DEF Queues, Distinct, Apart

LEMMA AnswersSame == ASSUME Answers, UNCHANGED <<stage, inUse, got, kept>> PROVE Answers'
BY DEF Answers, CalledOnce

LEMMA ChannelsSame ==
  ASSUME Channels, UNCHANGED <<stage, unsent, out, header>>,
         line'.wire = line.wire \/ line'.wire = <<>>, line'.asked \subseteq line.asked
  PROVE  Channels'
BY SMTT(60) DEF Channels, Sent

LEMMA InStepSame ==
  ASSUME InStep, UNCHANGED <<state, header, kept>>, line'.wire = line.wire,
         line'.up => line.up, line'.asked # {} => line'.up
  PROVE  InStep'
BY SMTT(60) DEF InStep

LEMMA LineTypes ==
  LineUp \in [up : BOOLEAN, heard : Seq(Requested), asked : SUBSET Calls, wire : Seq(Answered)]
  /\ LineDown \in [up : BOOLEAN, heard : Seq(Requested), asked : SUBSET Calls, wire : Seq(Answered)]
BY SMTT(60) DEF LineUp, LineDown

-----------------------------------------------------------------------------

LEMMA ConnInitInv == ConnInit => ConnInv
<1> SUFFICES ASSUME ConnInit PROVE ConnInv
  OBVIOUS
<1> USE CallsAssumption
<1>1. ConnTypeOK
  BY SMTT(60), LineTypes DEF ConnInit, ConnTypeOK
<1>2. Queues
  BY SMTT(60) DEF ConnInit, Queues, AllReady, Distinct, Apart
<1>3. Channels
  BY SMTT(60) DEF ConnInit, Channels, LineDown
<1>4. Answers
  BY SMTT(60) DEF ConnInit, Answers, CalledOnce
<1>5. InStep
  BY SMTT(60) DEF ConnInit, InStep, LineDown
<1> QED BY <1>1, <1>2, <1>3, <1>4, <1>5 DEF ConnInv

LEMMA StartKeeps == ASSUME ConnInv, NEW p \in Calls, StartPost(p) PROVE ConnInv'
<1> USE DEF ConnInv
<1>1. UNCHANGED <<outq, myq, out, header, got, kept>> /\ stage[p] = "new"
  BY DEF StartPost
<1>2. UNCHANGED <<state, line>> \/ (state # "connected" /\ line' \in {LineUp, LineDown})
  BY DEF StartPost, isConnectState, socketConnect
<1>3. \/ stage' = [stage EXCEPT ![p] = "refused"] /\ UNCHANGED <<inUse, unsent>>
      \/ stage' = [stage EXCEPT ![p] = "alloc"] /\ allocChannel(p)
  BY DEF StartPost
<1>4. p \notin inUse /\ got[p] = <<>>
  BY <1>1 DEF Queues, Answers, CalledOnce, ConnTypeOK
<1>5. \A q \in Calls : q # p => /\ stage'[q] = stage[q] /\ (q \in inUse' <=> q \in inUse)
                                /\ (q \in unsent' <=> q \in unsent)
  BY <1>3 DEF allocChannel, ConnTypeOK
<1>6. stage'[p] \in {"refused", "alloc"} /\ (stage'[p] = "alloc" => p \in inUse' /\ p \in unsent')
      /\ (p \in inUse' => stage'[p] = "alloc")
  BY <1>3, <1>4 DEF allocChannel, ConnTypeOK
<1>7. ConnTypeOK'
  <2>1. line' \in [up : BOOLEAN, heard : Seq(Requested), asked : SUBSET Calls, wire : Seq(Answered)]
    BY <1>2, LineTypes DEF ConnTypeOK
  <2>2. stage' \in [Calls -> {"new", "alloc", "posted", "refused"}] /\ inUse' \subseteq Calls
        /\ unsent' \subseteq Calls
    BY <1>3 DEF allocChannel, ConnTypeOK
  <2> QED BY <1>1, <2>1, <2>2 DEF ConnTypeOK
<1>8. Queues'
  <2>1. \A i \in 1..Len(outq) : outq[i] \in Calls /\ outq[i] # p
    BY <1>1 DEF Queues, AllReady, Ready, ConnTypeOK
  <2>2. \A i \in 1..Len(myq) : myq[i] \in Calls /\ myq[i] # p
    BY <1>1 DEF Queues, AllReady, Ready, ConnTypeOK
  <2>3. AllReady(outq)' /\ AllReady(myq)'
    BY <1>1, <1>5, <2>1, <2>2 DEF Queues, AllReady, Ready
  <2>4. \A q \in Calls : stage'[q] = "alloc" => q \in inUse' /\ q \in unsent'
    BY <1>5, <1>6 DEF Queues
  <2>5. \A q \in inUse' : stage'[q] \in {"alloc", "posted"}
    BY <1>5, <1>6, <1>7 DEF Queues, ConnTypeOK
  <2> QED BY <1>1, <2>3, <2>4, <2>5 DEF Queues, Distinct, Apart
<1>9. Channels'
  <2>1. \A q \in Calls : Sent(q) => Sent(q)'
    BY <1>1, <1>5 DEF Sent
  <2> QED BY SMTT(60), <1>1, <1>2, <2>1, ChannelsKept DEF LineUp, LineDown
<1>10. Answers'
  <2>1. \A q \in inUse' : got'[q] = <<>>
    BY <1>1, <1>4, <1>5, <1>7 DEF Answers, ConnTypeOK
  <2>2. CalledOnce'
    BY <1>1, <1>4, <1>5 DEF Answers, CalledOnce
  <2> QED BY <2>1, <2>2 DEF Answers
<1>11. InStep'
  <2>1. CASE UNCHANGED <<state, line>>
    BY <1>1, <2>1 DEF InStep
  <2>2. CASE state # "connected" /\ line' \in {LineUp, LineDown}
    <3>1. ~kept => header = 0
      BY <2>2 DEF InStep
    <3>2. line'.wire = <<>> /\ line'.asked = {}
      BY SMTT(60), <2>2 DEF LineUp, LineDown
    <3> QED BY SMTT(60), <1>1, <3>1, <3>2 DEF InStep
  <2> QED BY <1>2, <2>1, <2>2
<1> QED BY <1>7, <1>8, <1>9, <1>10, <1>11

LEMMA FinishKeeps == ASSUME ConnInv, NEW p \in Calls, FinishPost(p) PROVE ConnInv'
<1> USE DEF ConnInv
<1>1. UNCHANGED <<state, inUse, unsent, myq, out, header, line, got, kept>> /\ stage[p] = "alloc"
      /\ stage' = [stage EXCEPT ![p] = "posted"] /\ outq' = Append(outq, p)
  BY DEF FinishPost
<1>2. \A q \in Calls : q # p => stage'[q] = stage[q]
  BY <1>1 DEF ConnTypeOK
<1>3. stage'[p] = "posted" /\ p \in inUse /\ p \in unsent
  BY <1>1 DEF ConnTypeOK, Queues
<1>4. ConnTypeOK'
  BY SMTT(60), <1>1 DEF ConnTypeOK
<1>5. Len(outq') = Len(outq) + 1 /\ Len(outq) \in Nat /\ outq'[Len(outq) + 1] = p
      /\ \A i \in 1..Len(outq) : outq'[i] = outq[i]
  BY SMTT(60), <1>1 DEF ConnTypeOK
<1>6. \A i \in 1..Len(outq) : outq[i] \in Calls /\ outq[i] # p
  BY <1>1 DEF Queues, AllReady, Ready, ConnTypeOK
<1>7. \A i \in 1..Len(myq) : myq[i] \in Calls /\ myq[i] # p
  BY <1>1 DEF Queues, AllReady, Ready, ConnTypeOK
<1>8. \A i \in 1..Len(outq') : (i \in 1..Len(outq) /\ outq'[i] = outq[i]) \/ (i = Len(outq) + 1 /\ outq'[i] = p)
  BY SMTT(60), <1>5
<1>9. Queues'
  <2>1. AllReady(outq)'
    BY SMTT(60), <1>1, <1>2, <1>3, <1>6, <1>8 DEF Queues, AllReady, Ready
  <2>2. AllReady(myq)'
    BY <1>1, <1>2, <1>7 DEF Queues, AllReady, Ready
  <2>3. Distinct(outq')
    BY <1>6, <1>8 DEF Queues, Distinct
  <2>4. Apart(outq', myq)
    BY <1>7, <1>8 DEF Queues, Apart
  <2>5. \A q \in Calls : stage'[q] = "alloc" => q \in inUse' /\ q \in unsent'
    BY <1>1, <1>2, <1>3 DEF Queues
  <2>6. \A q \in inUse' : stage'[q] \in {"alloc", "posted"}
    BY <1>1, <1>2, <1>3 DEF Queues, ConnTypeOK
  <2> QED BY <1>1, <2>1, <2>2, <2>3, <2>4, <2>5, <2>6 DEF Queues, Distinct, Apart
<1>10. Channels'
  <2>1. \A q \in Calls : Sent(q) => Sent(q)'
    BY <1>1, <1>2 DEF Sent
  <2> QED BY <1>1, <2>1, ChannelsKept
<1>11. Answers'
  BY <1>1, <1>2, <1>3 DEF Answers, CalledOnce
<1>12. InStep'
  BY <1>1 DEF InStep
<1> QED BY <1>4, <1>9, <1>10, <1>11, <1>12

\* An expired channel was sent, so it is in no queue, and it leaves the use list
\* with its call.
LEMMA ExpireChannelsKeeps ==
  ASSUME ConnTypeOK, Queues, Answers, NEW past, ExpireChannels(past),
         UNCHANGED <<stage, unsent, outq, myq, kept>>
  PROVE  Queues' /\ Answers' /\ inUse' \subseteq Calls
         /\ got' \in [Calls -> Seq({"response", "timeout", "garbage"})]
<1> DEFINE G == Overdue(past)
<1>1. G \subseteq inUse /\ \A p \in G : p \notin unsent
  BY SMTT(60), CallsAssumption DEF Overdue, ConnTypeOK, Calls
<1>2. inUse' = inUse \ G /\ got' = CallAll(G, "timeout")
  BY DEF ExpireChannels
<1>3. \A p \in G : stage[p] = "posted"
  BY <1>1 DEF Queues, ConnTypeOK
<1> HIDE DEF G
<1>4. Answers' /\ got' \in [Calls -> Seq({"response", "timeout", "garbage"})]
  BY <1>1, <1>2, <1>3, CalledNow
<1>5. \A p \in unsent : p \in inUse => p \in inUse'
  BY <1>1, <1>2
<1>6. AllReady(outq)' /\ AllReady(myq)'
  BY <1>5 DEF Queues, AllReady, Ready
<1>7. Queues'
  BY <1>2, <1>5, <1>6 DEF Queues, Distinct, Apart
<1> QED BY <1>2, <1>4, <1>7 DEF ConnTypeOK

\* An expired packet leaves its queue, and its channel the use list, with its
\* call.
LEMMA ExpirePacketsKeeps ==
  ASSUME ConnTypeOK, Queues, Answers, NEW past, ExpirePackets(past), UNCHANGED <<stage, myq, kept>>
  PROVE  Queues' /\ Answers' /\ inUse' \subseteq Calls /\ outq' \in Seq(Calls) /\ unsent' \subseteq unsent
         /\ got' \in [Calls -> Seq({"response", "timeout", "garbage"})]
<1>1. PICK n \in 0..Len(outq) :
        /\ outq' = SubSeq(outq, n + 1, Len(outq))
        /\ inUse' = inUse \ {outq[i] : i \in 1..n} /\ unsent' = unsent \ {outq[i] : i \in 1..n}
        /\ got' = CallAll({outq[i] : i \in 1..n}, "timeout")
  BY DEF ExpirePackets
<1> DEFINE G == {outq[i] : i \in 1..n}
<1>0. \A p \in G : \E i \in 1..Len(outq) : p = outq[i]
  BY SMTT(60) DEF ConnTypeOK
<1>2. \A p \in G : Ready(p)
  BY <1>0 DEF Queues, AllReady
<1>3. outq' \in Seq(Calls) /\ Len(outq') = Len(outq) - n /\ Len(outq) \in Nat
      /\ \A i \in 1..Len(outq') : outq'[i] = outq[n + i] /\ n + i \in 1..Len(outq)
  <2>1. outq \in Seq(Calls)
    BY DEF ConnTypeOK
  <2>2. Len(outq) \in Nat
    BY SMTT(60), <2>1
  <2> QED BY <1>1, <2>1, <2>2, Suffix
<1>4. \A i \in 1..Len(outq') : outq'[i] \notin G
  <2> SUFFICES ASSUME NEW i \in 1..Len(outq'), NEW j \in 1..n, outq'[i] = outq[j] PROVE FALSE
    OBVIOUS
  <2>1. n + i \in 1..Len(outq) /\ j \in 1..Len(outq) /\ outq[n + i] = outq[j] /\ n + i # j
    BY SMTT(60), <1>3
  <2> QED BY <2>1 DEF Queues, Distinct
<1>5. \A i \in 1..Len(myq) : myq[i] \notin G
  BY <1>0 DEF Queues, Apart
<1>6. inUse' = inUse \ G /\ unsent' = unsent \ G /\ got' = CallAll(G, "timeout")
  BY <1>1
<1> HIDE DEF G
<1>7. Answers' /\ got' \in [Calls -> Seq({"response", "timeout", "garbage"})]
  BY <1>2, <1>6, CalledNow DEF Ready
<1>8. Queues'
  <2>1. AllReady(outq)'
    BY <1>3, <1>4, <1>6 DEF Queues, AllReady, Ready
  <2>2. AllReady(myq)'
    BY <1>5, <1>6 DEF Queues, AllReady, Ready
  <2>3. Distinct(outq')
    <3> SUFFICES ASSUME NEW i \in 1..Len(outq'), NEW j \in 1..Len(outq'), outq'[i] = outq'[j]
                 PROVE  i = j
      BY DEF Distinct
    <3>1. n + i \in 1..Len(outq) /\ n + j \in 1..Len(outq) /\ outq[n + i] = outq[n + j]
      BY <1>3
    <3>2. n + i = n + j
      BY <3>1 DEF Queues, Distinct
    <3> QED BY SMTT(60), <3>2
  <2>4. Apart(outq', myq)
    BY SMTT(60), <1>3 DEF Queues, Apart
  <2>5. \A p \in Calls : stage[p] = "alloc" => p \notin G
    BY <1>2 DEF Ready
  <2> QED BY <1>6, <2>1, <2>2, <2>3, <2>4, <2>5 DEF Queues, Distinct, Apart
<1> QED BY <1>3, <1>6, <1>7, <1>8 DEF ConnTypeOK

LEMMA CheckChannelsKeeps == ASSUME ConnInv, CheckChannels PROVE ConnInv'
<1> USE DEF ConnInv
<1>1. UNCHANGED <<stage, unsent, outq, myq, out, header, kept>> /\ ExpireChannels(1..late)
  BY DEF CheckChannels
<1>2. UNCHANGED <<state, line>> \/ (state = "connecting" /\ line' = LineDown)
  BY DEF CheckChannels
<1>3. Queues' /\ Answers' /\ inUse' \subseteq Calls
      /\ got' \in [Calls -> Seq({"response", "timeout", "garbage"})]
  BY <1>1, ExpireChannelsKeeps
<1>4. ConnTypeOK'
  BY <1>1, <1>2, <1>3, LineTypes DEF ConnTypeOK
<1>5. Channels'
  <2>1. \A q \in Calls : Sent(q) => Sent(q)'
    BY <1>1 DEF Sent
  <2> QED BY SMTT(60), <1>1, <1>2, <2>1, ChannelsKept DEF LineDown
<1>6. InStep'
  <2>1. CASE UNCHANGED <<state, line>>
    BY <1>1, <2>1 DEF InStep
  <2>2. CASE state = "connecting" /\ line' = LineDown
    <3>1. ~kept => header = 0
      BY <2>2 DEF InStep
    <3>2. line'.wire = <<>> /\ line'.asked = {} /\ line'.up = FALSE /\ Len(line'.wire) = 0
      BY <2>2 DEF LineDown
    <3> QED BY SMTT(60), <1>1, <2>2, <3>1, <3>2 DEF InStep
  <2> QED BY <1>2, <2>1, <2>2
<1> QED BY <1>3, <1>4, <1>5, <1>6

LEMMA CheckPacketsKeeps == ASSUME ConnInv, CheckPackets \/ DisconnectPackets PROVE ConnInv'
<1> USE DEF ConnInv
<1>1. UNCHANGED <<stage, state, myq, out, header, line, kept>> /\ \E past : ExpirePackets(past)
  BY DEF CheckPackets, DisconnectPackets
<1>2. Queues' /\ Answers' /\ inUse' \subseteq Calls /\ outq' \in Seq(Calls) /\ unsent' \subseteq unsent
      /\ got' \in [Calls -> Seq({"response", "timeout", "garbage"})]
  BY <1>1, ExpirePacketsKeeps
<1>3. ConnTypeOK'
  BY <1>1, <1>2 DEF ConnTypeOK
<1>4. Channels'
  <2>1. \A q \in Calls : Sent(q) => Sent(q)'
    BY <1>1, <1>2 DEF Sent
  <2> QED BY <1>1, <2>1, ChannelsKept
<1>5. InStep'
  BY <1>1 DEF InStep
<1> QED BY <1>2, <1>3, <1>4, <1>5

LEMMA DisconnectChannelsKeeps == ASSUME ConnInv, DisconnectChannels PROVE ConnInv'
<1> USE DEF ConnInv
<1>1. UNCHANGED <<stage, state, unsent, outq, myq, out, header, line, kept>> /\ ExpireChannels(Calls)
  BY DEF DisconnectChannels
<1>2. Queues' /\ Answers' /\ inUse' \subseteq Calls
      /\ got' \in [Calls -> Seq({"response", "timeout", "garbage"})]
  BY <1>1, ExpireChannelsKeeps
<1>3. ConnTypeOK'
  BY <1>1, <1>2 DEF ConnTypeOK
<1>4. Channels'
  BY <1>1 DEF Channels, Sent
<1>5. InStep'
  BY <1>1 DEF InStep
<1> QED BY <1>2, <1>3, <1>4, <1>5

\* Moving the one queue behind the other.
LEMMA Moved ==
  ASSUME ConnTypeOK, Queues
  PROVE  /\ myq \o outq \in Seq(Calls) /\ AllReady(myq \o outq) /\ Distinct(myq \o outq)
         /\ outq \o myq \in Seq(Calls) /\ AllReady(outq \o myq) /\ Distinct(outq \o myq)
<1>1. outq \in Seq(Calls) /\ myq \in Seq(Calls)
  BY DEF ConnTypeOK
<1>2. Distinct(outq) /\ Distinct(myq) /\ Apart(outq, myq) /\ Apart(myq, outq)
  BY DEF Queues, Apart
<1>3. AllReady(outq) /\ AllReady(myq)
  BY DEF Queues
<1>5. AllReady(myq \o outq)
  BY <1>1, <1>3, JoinedReady
<1>6. AllReady(outq \o myq)
  BY <1>1, <1>3, JoinedReady
<1>7. myq \o outq \in Seq(Calls) /\ outq \o myq \in Seq(Calls)
  BY SMTT(60), <1>1
<1>8. Distinct(myq \o outq)
  BY <1>1, <1>2, JoinedDistinct
<1>9. Distinct(outq \o myq)
  BY <1>1, <1>2, JoinedDistinct
<1> QED BY <1>5, <1>6, <1>7, <1>8, <1>9

LEMMA DisconnectKeeps == ASSUME ConnInv, Disconnect PROVE ConnInv'
<1> USE DEF ConnInv
<1>1. UNCHANGED <<stage, state, inUse, unsent, out, header, line, got, kept>>
  BY DEF Disconnect
<1>2. UNCHANGED <<outq, myq>> \/ (outq' = outq \o myq /\ myq' = <<>>)
  BY DEF Disconnect
<1>3. outq' \in Seq(Calls) /\ AllReady(outq') /\ Distinct(outq')
  BY <1>2, Moved DEF Queues, ConnTypeOK
<1>4. myq' \in Seq(Calls) /\ AllReady(myq') /\ Distinct(myq') /\ Apart(outq', myq')
  <2>1. CASE UNCHANGED <<outq, myq>>
    BY <2>1 DEF Queues, ConnTypeOK, AllReady, Distinct, Apart
  <2>2. CASE myq' = <<>>
    BY SMTT(60), <2>2 DEF AllReady, Distinct, Apart
  <2> QED BY <1>2, <2>1, <2>2
<1>5. ConnTypeOK'
  BY <1>1, <1>3, <1>4 DEF ConnTypeOK
<1>6. Queues'
  BY <1>1, <1>3, <1>4 DEF Queues, AllReady, Ready, Distinct, Apart
<1>7. Channels' /\ Answers'
  BY <1>1 DEF Channels, Sent, Answers, CalledOnce
<1>8. InStep'
  BY <1>1 DEF InStep
<1> QED BY <1>5, <1>6, <1>7, <1>8

LEMMA CloseKeeps == ASSUME ConnInv, CloseSocket PROVE ConnInv'
<1> USE DEF ConnInv
<1>1. UNCHANGED <<stage, inUse, unsent, outq, myq, out, header, got>> /\ line' = LineDown
      /\ kept' = (kept \/ header # 0)
  BY DEF CloseSocket
<1>2. ConnTypeOK'
  BY <1>1, LineTypes DEF ConnTypeOK
<1>3. Queues'
  BY <1>1, QueuesSame
<1>4. Channels'
  <2>1. line'.wire = <<>> /\ line'.asked = {}
    BY <1>1 DEF LineDown
  <2> QED BY <1>1, <2>1, ChannelsSame
<1>5. Answers'
  BY <1>1 DEF Answers, CalledOnce
<1>6. InStep'
  <2>1. line'.wire = <<>> /\ line'.asked = {} /\ line'.up = FALSE /\ Len(line'.wire) = 0
    BY <1>1 DEF LineDown
  <2>2. ~kept' => header' = 0
    BY <1>1
  <2> QED BY SMTT(60), <2>1, <2>2 DEF InStep
<1> QED BY <1>2, <1>3, <1>4, <1>5, <1>6

\* What the peer hears changes neither its answers nor the stream.
LEMMA Heard ==
  ASSUME ConnTypeOK, NEW piece \in Requested
  PROVE  LET l == Hear(line, piece)
         IN /\ l \in [up : BOOLEAN, heard : Seq(Requested), asked : SUBSET Calls, wire : Seq(Answered)]
            /\ l.wire = line.wire /\ l.asked \subseteq line.asked \cup {piece[1]}
            /\ l.up => line.up
            /\ (line.asked # {} => line.up) => (l.asked # {} => l.up)
<1>1. CASE ~line.up
  BY <1>1 DEF Hear, ConnTypeOK
<1>2. CASE line.up /\ piece[2] = "head"
  <2>1. Hear(line, piece) = [line EXCEPT !.heard = <<piece>>] /\ <<piece>> \in Seq(Requested)
    BY SMTT(60), <1>2 DEF Hear
  <2> QED BY <1>2, <2>1 DEF ConnTypeOK
<1>3. CASE line.up /\ piece[2] = "tail" /\ line.heard = <<>>
  BY <1>3 DEF Hear, ConnTypeOK
<1>4. CASE line.up /\ piece[2] # "head" /\ ~(piece[2] = "tail" /\ line.heard = <<>>)
  <2>1. Hear(line, piece) = [line EXCEPT !.heard = <<>>, !.asked = line.asked \cup {piece[1]}]
    BY <1>4 DEF Hear
  <2>2. line.asked \cup {piece[1]} \in SUBSET Calls /\ <<>> \in Seq(Requested)
    BY SMTT(60) DEF Requested, ConnTypeOK
  <2> QED BY <1>4, <2>1, <2>2 DEF ConnTypeOK
<1> QED BY <1>1, <1>2, <1>3, <1>4

LEMMA WriteKeeps ==
  ASSUME ConnInv, writeData, UNCHANGED <<stage, state, inUse, header, got, kept>>
  PROVE  ConnInv'
<1> USE DEF ConnInv
<1> DEFINE q == myq \o outq
<1>1. q \in Seq(Calls) /\ AllReady(q) /\ Distinct(q)
  BY Moved
<1>2. outq' = <<>> /\ outq' \in Seq(Calls)
  <2>1. <<>> \in Seq(Calls)
    BY SMTT(60)
  <2> QED BY <2>1 DEF writeData
<1>0. \/ myq' = q /\ UNCHANGED <<unsent, line, out>>
      \/ myq' = q /\ out # <<>> /\ out' = Tail(out) /\ line' = Hear(line, Head(out)) /\ UNCHANGED unsent
      \/ /\ q # <<>> /\ myq' = Tail(q) /\ unsent' = unsent \ {q[1]} /\ UNCHANGED line
         /\ out' = out \o <<<<q[1], "head">>, <<q[1], "tail">>>>
  BY DEF writeData
<1> HIDE DEF q
<1>3. CASE myq' = q /\ UNCHANGED <<unsent, line, out>>
  <2>1. ConnTypeOK'
    BY <1>1, <1>2, <1>3 DEF ConnTypeOK
  <2>2. Queues'
    BY <1>1, <1>2, <1>3, QueuesJoined
  <2>3. Channels' /\ Answers' /\ InStep'
    <3>1. line.asked # {} => line.up
      BY DEF InStep
    <3> QED BY <1>3, <3>1, ChannelsSame, AnswersSame, InStepSame
  <2> QED BY <2>1, <2>2, <2>3
<1>4. CASE myq' = q /\ out # <<>> /\ out' = Tail(out) /\ line' = Hear(line, Head(out)) /\ UNCHANGED unsent
  <2>1. out \in Seq(Requested)
    BY DEF ConnTypeOK
  <2>2. out' \in Seq(Requested) /\ Head(out) = out[1] /\ out[1] \in Requested /\ 1 \in 1..Len(out)
        /\ \A i \in 1..Len(out') : out'[i] = out[i + 1] /\ i + 1 \in 1..Len(out)
    BY SMTT(60), <1>4, <2>1, Shortened
  <2>3. line' \in [up : BOOLEAN, heard : Seq(Requested), asked : SUBSET Calls, wire : Seq(Answered)]
        /\ line'.wire = line.wire /\ line'.asked \subseteq line.asked \cup {out[1][1]}
        /\ (line'.up => line.up) /\ ((line.asked # {} => line.up) => (line'.asked # {} => line'.up))
    BY <1>4, <2>2, Heard
  <2>4. ConnTypeOK'
    BY <1>1, <1>2, <1>4, <2>2, <2>3 DEF ConnTypeOK
  <2>5. Queues'
    BY <1>1, <1>2, <1>4, QueuesJoined
  <2>6. Channels'
    <3>1. \A p : Sent(p)' <=> Sent(p)
      BY <1>4 DEF Sent
    <3>2. \A i \in 1..Len(out') : Sent(out'[i][1])
      BY <2>2 DEF Channels
    <3>3. \A p \in line'.asked : Sent(p)
      BY <2>2, <2>3 DEF Channels
    <3>4. \A i \in 1..Len(line'.wire) : Sent(line'.wire[i][1])
      BY <2>3 DEF Channels
    <3>5. header' # 0 => Sent(header')
      BY DEF Channels
    <3> QED BY <1>4, <3>2, <3>3, <3>4, <3>5 DEF Channels, Sent
  <2>7. Answers'
    BY AnswersSame
  <2>8. InStep'
    <3>1. line.asked # {} => line.up
      BY DEF InStep
    <3> QED BY <2>3, <3>1, InStepSame
  <2> QED BY <2>4, <2>5, <2>6, <2>7, <2>8
<1>5. CASE /\ q # <<>> /\ myq' = Tail(q) /\ unsent' = unsent \ {q[1]} /\ UNCHANGED line
           /\ out' = out \o <<<<q[1], "head">>, <<q[1], "tail">>>>
  <2>1. myq' \in Seq(Calls) /\ Len(myq') = Len(q) - 1 /\ Len(q) \in Nat \ {0} /\ q[1] \in Calls
        /\ \A i \in 1..Len(myq') : myq'[i] = q[i + 1] /\ i + 1 \in 1..Len(q)
    BY <1>1, <1>5, Shortened
  <2>2. Ready(q[1])
    BY SMTT(60), <1>1, <2>1 DEF AllReady
  <2>3. \A i \in 1..Len(myq') : myq'[i] # q[1] /\ Ready(myq'[i])
    BY SMTT(60), <1>1, <2>1 DEF AllReady, Distinct
  <2>4. <<q[1], "head">> \in Requested /\ <<q[1], "tail">> \in Requested /\ out \in Seq(Requested)
    BY <2>1 DEF Requested, ConnTypeOK
  <2>5. out' = out \o <<<<q[1], "head">>, <<q[1], "tail">>>>
    BY <1>5
  <2>6. /\ out' \in Seq(Requested)
        /\ \A i \in 1..Len(out) : out'[i] = out[i]
        /\ out'[Len(out) + 1] = <<q[1], "head">> /\ out'[Len(out) + 2] = <<q[1], "tail">>
        /\ \A i \in 1..Len(out') : i \in 1..Len(out) \/ i = Len(out) + 1 \/ i = Len(out) + 2
    <3> DEFINE a == <<q[1], "head">>
               b == <<q[1], "tail">>
    <3>1. a \in Requested /\ b \in Requested /\ out \in Seq(Requested) /\ out' = out \o <<a, b>>
      BY <2>4, <2>5
    <3> HIDE DEF a, b
    <3>2. /\ out' \in Seq(Requested)
          /\ \A i \in 1..Len(out) : out'[i] = out[i]
          /\ out'[Len(out) + 1] = a /\ out'[Len(out) + 2] = b
          /\ \A i \in 1..Len(out') : i \in 1..Len(out) \/ i = Len(out) + 1 \/ i = Len(out) + 2
      BY SMTT(60), <3>1, JoinedPair
    <3> QED BY <3>2 DEF a, b
  <2>7. \A i \in 1..Len(out') : (i \in 1..Len(out) /\ out'[i] = out[i]) \/ out'[i][1] = q[1]
    BY SMTT(60), <2>6
  <2>8. ConnTypeOK'
    BY <1>2, <1>5, <2>1, <2>6 DEF ConnTypeOK
  <2>9. Queues'
    <3>1. AllReady(myq)' /\ AllReady(outq)'
      BY SMTT(60), <1>2, <1>5, <2>3 DEF AllReady, Ready
    <3>2. Distinct(myq')
      <4> SUFFICES ASSUME NEW i \in 1..Len(myq'), NEW j \in 1..Len(myq'), myq'[i] = myq'[j]
                   PROVE  i = j
        BY DEF Distinct
      <4>1. q[i + 1] = q[j + 1] /\ i + 1 \in 1..Len(q) /\ j + 1 \in 1..Len(q)
        BY <2>1
      <4>2. i + 1 = j + 1
        BY <1>1, <4>1 DEF Distinct
      <4> QED BY SMTT(60), <2>1, <4>2
    <3>3. \A p \in Calls : stage[p] = "alloc" => p # q[1]
      BY <2>2 DEF Ready
    <3>4. Distinct(outq') /\ Apart(outq', myq')
      BY SMTT(60), <1>2 DEF Distinct, Apart
    <3> QED BY <1>5, <3>1, <3>2, <3>3, <3>4 DEF Queues, Distinct, Apart
  <2>10. Channels'
    <3>1. \A p \in Calls : Sent(p) => Sent(p)'
      BY <1>5 DEF Sent
    <3>2. stage[q[1]] = "posted" /\ q[1] \notin unsent'
      BY <1>5, <2>2 DEF Ready
    <3>3. ASSUME NEW i \in 1..Len(out') PROVE stage[out'[i][1]] = "posted" /\ out'[i][1] \notin unsent'
      <4>1. CASE i \in 1..Len(out) /\ out'[i] = out[i]
        BY <1>5, <4>1 DEF Channels, Sent
      <4>2. CASE out'[i][1] = q[1]
        BY <3>2, <4>2
      <4> QED BY <2>7, <4>1, <4>2
    <3> QED BY <1>5, <3>3 DEF Channels, Sent
  <2>11. Answers' /\ InStep'
    <3>1. line.asked # {} => line.up
      BY DEF InStep
    <3> QED BY <1>5, <3>1, AnswersSame, InStepSame
  <2> QED BY <2>8, <2>9, <2>10, <2>11
<1> QED BY <1>0, <1>3, <1>4, <1>5

LEMMA WriteEventKeeps == ASSUME ConnInv, handleWriteEvent PROVE ConnInv'
<1> USE DEF ConnInv
<1>1. UNCHANGED <<stage, inUse, header, got, kept>>
  BY DEF handleWriteEvent
<1>2. CASE writeData /\ UNCHANGED state
  BY <1>1, <1>2, WriteKeeps
<1>3. CASE /\ state = "connecting" /\ state' \in {"connected", "closed"} /\ out' \in {out, <<>>}
           /\ UNCHANGED <<unsent, outq, myq, line>>
  <2>0. out' \in Seq(Requested)
    <3>1. <<>> \in Seq(Requested)
      BY SMTT(60)
    <3> QED BY <1>3, <3>1 DEF ConnTypeOK
  <2>1. ConnTypeOK'
    BY <1>1, <1>3, <2>0 DEF ConnTypeOK
  <2>2. Queues' /\ Answers'
    BY <1>1, <1>3, QueuesSame, AnswersSame
  <2>3. Channels'
    <3>1. CASE out' = out
      BY <1>1, <1>3, <3>1, ChannelsSame
    <3>2. CASE out' = <<>>
      <4>1. \A i \in 1..Len(out') : Sent(out[i][1])'
        BY SMTT(60), <3>2
      <4> QED BY <1>1, <1>3, <4>1 DEF Channels, Sent
    <3> QED BY <1>3, <3>1, <3>2
  <2>4. ~kept => header = 0
    BY <1>3 DEF InStep
  <2>5. InStep'
    BY <1>1, <1>3, <2>4 DEF InStep
  <2> QED BY <2>1, <2>2, <2>3, <2>5
<1> QED BY <1>2, <1>3 DEF handleWriteEvent

\* As long as the stream is in step, the piece behind a header is its body.
LEMMA NextBody ==
  ASSUME ConnTypeOK, InStep, line.wire # <<>>, header # 0
  PROVE  kept \/ Head(line.wire) = <<header, "body">>
<1>1. line.wire \in Seq(Answered)
  BY DEF ConnTypeOK
<1>2. Head(line.wire) = line.wire[1] /\ line.wire[1] \in Answered /\ 1 \in 1..Len(line.wire)
  BY SMTT(60), <1>1, Shortened
<1>3. line.wire[1] = <<line.wire[1][1], line.wire[1][2]>>
  BY SMTT(60), <1>2 DEF Answered
<1>4. CASE ~kept
  <2>1. line.wire[1][2] = "body" /\ header = line.wire[1][1]
    BY <1>2, <1>4 DEF InStep
  <2> QED BY <1>2, <1>3, <2>1
<1> QED BY <1>4

\* The stream stays in step behind the piece that is read.
LEMMA StepRead ==
  ASSUME ConnTypeOK, InStep, line.wire # <<>>, line' = [line EXCEPT !.wire = Tail(line.wire)],
         UNCHANGED <<state, kept>>, state = "connected",
         \/ header # 0 /\ header' = 0
         \/ header = 0 /\ Head(line.wire)[2] = "header" /\ header' = Head(line.wire)[1]
         \/ header = 0 /\ Head(line.wire)[2] = "body" /\ header' = header
  PROVE  InStep'
<1> DEFINE w == line.wire
           v == line'.wire
<1>1. w \in Seq(Answered)
  BY DEF ConnTypeOK
<1>2. v = Tail(w) /\ line'.up = line.up /\ line'.asked = line.asked
  BY DEF ConnTypeOK
<1>3. v \in Seq(Answered) /\ Len(v) = Len(w) - 1 /\ Len(w) \in Nat \ {0} /\ Head(w) = w[1]
      /\ \A i \in 1..Len(v) : v[i] = w[i + 1] /\ i + 1 \in 1..Len(w)
  BY SMTT(60), <1>1, <1>2, Shortened
<1>4. ASSUME ~kept
      PROVE  /\ \A i \in 1..Len(w) :
                  \/ /\ w[i][2] = "header"
                     /\ IF i = 1 THEN header = 0 ELSE w[i - 1][2] = "body"
                  \/ /\ w[i][2] = "body"
                     /\ IF i = 1 THEN header = w[1][1] ELSE w[i - 1] = <<w[i][1], "header">>
             /\ line.up => w[Len(w)][2] = "body"
  BY <1>4 DEF InStep
<1> HIDE DEF w, v
<1>5. 1 \in 1..Len(w) /\ Len(v) \in Nat /\ (v = <<>> <=> Len(v) = 0) /\ w[1] \in Answered
  BY SMTT(60), <1>1, <1>3
<1>6. w[1] \in Answered => w[1][1] # 0
  BY SMTT(60), CallsAssumption DEF Answered, Calls
<1>7. ASSUME ~kept
      PROVE  \/ w[1][2] = "body" /\ header' = 0
             \/ w[1][2] = "header" /\ header' = w[1][1]
  BY <1>3, <1>4, <1>5, <1>6, <1>7 DEF w
<1>8. ASSUME ~kept, NEW i \in 1..Len(v)
      PROVE  \/ /\ v[i][2] = "header"
                /\ IF i = 1 THEN header' = 0 ELSE v[i - 1][2] = "body"
             \/ /\ v[i][2] = "body"
                /\ IF i = 1 THEN header' = v[1][1] ELSE v[i - 1] = <<v[i][1], "header">>
  <2>1. v[i] = w[i + 1] /\ i + 1 \in 1..Len(w) /\ i + 1 # 1 /\ (i + 1) - 1 = i
    BY SMTT(60), <1>3, <1>5
  <2>2. \/ v[i][2] = "header" /\ w[i][2] = "body"
        \/ v[i][2] = "body" /\ w[i] = <<v[i][1], "header">>
    BY <1>4, <1>8, <2>1
  <2>3. CASE i = 1
    BY SMTT(60), <1>7, <1>8, <2>2, <2>3
  <2>4. CASE i # 1
    <3>1. i - 1 \in 1..Len(v) /\ v[i - 1] = w[i]
      <4>1. i - 1 \in 1..Len(v) /\ (i - 1) + 1 = i
        BY SMTT(60), <1>5, <2>4
      <4> QED BY <1>3, <4>1
    <3> QED BY <2>2, <2>4, <3>1
  <2> QED BY <2>3, <2>4
<1>9. ASSUME ~kept, line.up
      PROVE  IF v = <<>> THEN header' = 0 ELSE v[Len(v)][2] = "body"
  <2>1. CASE v = <<>>
    <3>1. Len(w) = 1
      BY SMTT(60), <1>3, <1>5, <2>1
    <3> QED BY <1>4, <1>7, <1>9, <2>1, <3>1
  <2>2. CASE v # <<>>
    <3>1. Len(v) \in 1..Len(v) /\ v[Len(v)] = w[Len(w)]
      BY SMTT(60), <1>3, <1>5, <2>2
    <3> QED BY <1>4, <1>9, <2>2, <3>1
  <2> QED BY <2>1, <2>2
<1>10. line'.asked # {} => line'.up
  BY <1>2 DEF InStep
<1> QED BY <1>2, <1>8, <1>9, <1>10 DEF InStep, v

LEMMA ReadEventKeeps == ASSUME ConnInv, handleReadEvent PROVE ConnInv'
<1> USE DEF ConnInv
<1>1. UNCHANGED <<stage, state, unsent, outq, myq, out, kept>> /\ state = "connected"
  BY DEF handleReadEvent
<1>2. CASE line.wire = <<>> /\ UNCHANGED <<inUse, got, header>>
  <2>1. line' = line
    BY <1>2 DEF handleReadEvent, readData, ConnTypeOK
  <2>2. ConnTypeOK'
    BY <1>1, <1>2, <2>1 DEF ConnTypeOK
  <2>3. Queues' /\ Channels' /\ Answers' /\ InStep'
    <3>1. line.asked # {} => line.up
      BY DEF InStep
    <3> QED BY <1>1, <1>2, <2>1, <3>1, QueuesSame, ChannelsSame, AnswersSame, InStepSame
  <2> QED BY <2>2, <2>3
<1>3. CASE line.wire # <<>>
  <2>1. line' = [line EXCEPT !.wire = Tail(line.wire)]
    BY <1>3 DEF handleReadEvent, readData
  <2>2. line.wire \in Seq(Answered)
    BY DEF ConnTypeOK
  <2>3. Tail(line.wire) \in Seq(Answered) /\ Head(line.wire) = line.wire[1] /\ line.wire[1] \in Answered
        /\ 1 \in 1..Len(line.wire)
        /\ \A i \in 1..Len(Tail(line.wire)) : Tail(line.wire)[i] = line.wire[i + 1] /\ i + 1 \in 1..Len(line.wire)
    BY SMTT(60), <1>3, <2>2, Shortened
  <2>4. line' \in [up : BOOLEAN, heard : Seq(Requested), asked : SUBSET Calls, wire : Seq(Answered)]
        /\ line'.asked = line.asked /\ line'.wire = Tail(line.wire)
    BY <2>1, <2>3 DEF ConnTypeOK
  <2>5. \/ header # 0 /\ header' = 0 /\ handlePacket(Head(line.wire))
        \/ /\ header = 0 /\ Head(line.wire)[2] = "header" /\ header' = Head(line.wire)[1]
           /\ UNCHANGED <<inUse, got>>
        \/ header = 0 /\ Head(line.wire)[2] = "body" /\ UNCHANGED <<inUse, got, header>>
    BY <1>3 DEF handleReadEvent, readData
  <2>6. InStep'
    BY <1>1, <1>3, <2>1, <2>5, StepRead
  <2>7. Queues' /\ Answers' /\ inUse' \subseteq Calls
        /\ got' \in [Calls -> Seq({"response", "timeout", "garbage"})]
    <3>1. CASE UNCHANGED <<inUse, got>>
      <4>1. Queues' /\ Answers'
        BY <1>1, <3>1, QueuesSame, AnswersSame
      <4> QED BY <3>1, <4>1 DEF ConnTypeOK
    <3>2. CASE header # 0 /\ header \in inUse /\ handlePacket(Head(line.wire))
      <4>1. PICK what \in {"response", "garbage"} :
              /\ got' = CallAll({header}, what) /\ inUse' = inUse \ {header}
              /\ (what = "garbage" => Head(line.wire) # <<header, "body">>)
        BY <3>2 DEF handlePacket
      <4>2. what = "garbage" => kept
        BY <1>3, <3>2, <4>1, NextBody
      <4>3. Sent(header)
        BY <3>2 DEF Channels
      <4>4. Answers' /\ got' \in [Calls -> Seq({"response", "timeout", "garbage"})]
        <5>1. {header} \in SUBSET inUse /\ \A p \in {header} : stage[p] = "posted"
          BY <3>2, <4>3 DEF Sent
        <5>2. what \in {"response", "timeout", "garbage"} /\ UNCHANGED <<stage, kept>>
          BY <1>1, <4>1
        <5> QED BY <4>1, <4>2, <5>1, <5>2, CalledNow
      <4>5. \A p \in unsent : p \in inUse => p \in inUse'
        BY <4>1, <4>3 DEF Sent
      <4>6. Queues'
        <5>1. AllReady(outq)' /\ AllReady(myq)'
          BY <1>1, <4>5 DEF Queues, AllReady, Ready
        <5> QED BY <1>1, <4>1, <4>5, <5>1 DEF Queues, Distinct, Apart
      <4> QED BY <4>1, <4>4, <4>6 DEF ConnTypeOK
    <3> QED BY <2>5, <3>1, <3>2 DEF handlePacket
  <2>8. header' \in 0..MaxCalls /\ (header' # 0 => Sent(header'))
    <3>1. line.wire[1][1] \in Calls /\ Sent(line.wire[1][1])
      BY <2>3 DEF Channels, Answered
    <3>2. header' \in {0, header, line.wire[1][1]}
      BY <2>3, <2>5
    <3>3. Calls \subseteq 0..MaxCalls /\ 0 \in 0..MaxCalls
      BY SMTT(60), CallsAssumption DEF Calls
    <3> QED BY <3>1, <3>2, <3>3 DEF ConnTypeOK, Channels
  <2>9. ConnTypeOK'
    BY <1>1, <2>4, <2>7, <2>8 DEF ConnTypeOK
  <2>10. Channels'
    <3>1. \A i \in 1..Len(line'.wire) : Sent(line'.wire[i][1])
      BY <2>3, <2>4 DEF Channels
    <3> QED BY <1>1, <2>4, <2>8, <3>1 DEF Channels, Sent
  <2> QED BY <2>6, <2>7, <2>9, <2>10
<1> QED BY <1>2, <1>3 DEF handleReadEvent, readData

\* A whole answer at the end of a stream that is up keeps it in step.
LEMMA AnswerKeeps == ASSUME ConnInv, PeerAnswers PROVE ConnInv'
<1> USE DEF ConnInv
<1>1. UNCHANGED <<stage, state, inUse, unsent, outq, myq, out, header, got, kept>>
  BY DEF PeerAnswers
<1>2. PICK p \in line.asked :
        line' = [line EXCEPT !.asked = line.asked \ {p}, !.wire = line.wire \o <<<<p, "header">>, <<p, "body">>>>]
  BY DEF PeerAnswers
<1>3. line.wire \in Seq(Answered) /\ <<p, "header">> \in Answered /\ <<p, "body">> \in Answered
      /\ line.up /\ Sent(p)
  BY DEF ConnTypeOK, Answered, InStep, Channels
<1> DEFINE w == line.wire
           v == w \o <<<<p, "header">>, <<p, "body">>>>
<1>4. /\ v \in Seq(Answered) /\ Len(v) = Len(w) + 2 /\ Len(w) \in Nat
      /\ \A i \in 1..Len(w) : v[i] = w[i]
      /\ v[Len(w) + 1] = <<p, "header">> /\ v[Len(w) + 2] = <<p, "body">>
      /\ \A i \in 1..Len(v) : i \in 1..Len(w) \/ i = Len(w) + 1 \/ i = Len(w) + 2
  <2> DEFINE a == <<p, "header">>
             b == <<p, "body">>
  <2>1. a \in Answered /\ b \in Answered /\ w \in Seq(Answered) /\ v = w \o <<a, b>>
    BY <1>3
  <2> HIDE DEF a, b, w, v
  <2>2. /\ v \in Seq(Answered) /\ Len(v) = Len(w) + 2 /\ Len(w) \in Nat
        /\ \A i \in 1..Len(w) : v[i] = w[i]
        /\ v[Len(w) + 1] = a /\ v[Len(w) + 2] = b
        /\ \A i \in 1..Len(v) : i \in 1..Len(w) \/ i = Len(w) + 1 \/ i = Len(w) + 2
    BY SMTT(60), <2>1, JoinedPair
  <2> QED BY <2>2 DEF a, b
<1>5. line' \in [up : BOOLEAN, heard : Seq(Requested), asked : SUBSET Calls, wire : Seq(Answered)]
      /\ line'.wire = v /\ line'.asked \subseteq line.asked /\ line'.up = line.up
  <2> HIDE DEF v
  <2>1. line' = [line EXCEPT !.asked = line.asked \ {p}, !.wire = v]
    BY <1>2 DEF v
  <2> QED BY <1>4, <2>1 DEF ConnTypeOK
<1> HIDE DEF v
<1>6. ConnTypeOK'
  BY <1>1, <1>5 DEF ConnTypeOK
<1>7. Queues' /\ Answers'
  BY <1>1, QueuesSame, AnswersSame
<1>8. Channels'
  <2>1. \A i \in 1..Len(w) : Sent(w[i][1])
    BY DEF Channels
  <2>2. v[Len(w) + 1][1] = p /\ v[Len(w) + 2][1] = p
    BY SMTT(60), <1>4
  <2> HIDE DEF w
  <2>3. ASSUME NEW i \in 1..Len(v) PROVE Sent(v[i][1])
    <3>1. CASE i \in 1..Len(w)
      BY <1>4, <2>1, <3>1
    <3>2. CASE i = Len(w) + 1 \/ i = Len(w) + 2
      BY <1>3, <2>2, <3>2
    <3> QED BY <1>4, <3>1, <3>2
  <2> QED BY <1>1, <1>5, <2>3 DEF Channels, Sent
<1>9. InStep'
  <2>1. ASSUME ~kept
        PROVE  /\ header # 0 => state = "connected"
               /\ \A i \in 1..Len(w) :
                    \/ /\ w[i][2] = "header"
                       /\ IF i = 1 THEN header = 0 ELSE w[i - 1][2] = "body"
                    \/ /\ w[i][2] = "body"
                       /\ IF i = 1 THEN header = w[1][1] ELSE w[i - 1] = <<w[i][1], "header">>
               /\ IF w = <<>> THEN header = 0 ELSE w[Len(w)][2] = "body"
    BY <1>3, <2>1 DEF InStep
  <2>2. w = <<>> <=> Len(w) = 0
    BY SMTT(60), <1>3
  <2> HIDE DEF w
  <2>3. ASSUME ~kept, NEW i \in 1..Len(v)
        PROVE  \/ /\ v[i][2] = "header"
                  /\ IF i = 1 THEN header = 0 ELSE v[i - 1][2] = "body"
               \/ /\ v[i][2] = "body"
                  /\ IF i = 1 THEN header = v[1][1] ELSE v[i - 1] = <<v[i][1], "header">>
    <3>1. CASE i \in 1..Len(w)
      <4>1. i = 1 \/ i - 1 \in 1..Len(w)
        BY SMTT(60), <1>4, <3>1
      <4>2. v[i] = w[i] /\ (i # 1 => v[i - 1] = w[i - 1])
        BY <1>4, <3>1, <4>1
      <4>3. \/ /\ w[i][2] = "header"
               /\ IF i = 1 THEN header = 0 ELSE w[i - 1][2] = "body"
            \/ /\ w[i][2] = "body"
               /\ IF i = 1 THEN header = w[1][1] ELSE w[i - 1] = <<w[i][1], "header">>
        BY <2>1, <2>3, <3>1
      <4>4. CASE i = 1
        BY <4>2, <4>3, <4>4
      <4>5. CASE i # 1
        BY <4>2, <4>3, <4>5
      <4> QED BY <4>4, <4>5
    <3>2. CASE i = Len(w) + 1
      <4>1. CASE i = 1
        <5>1. Len(w) = 0 /\ v[1][2] = "header"
          BY SMTT(60), <1>4, <3>2, <4>1
        <5>2. header = 0
          BY <2>1, <2>2, <2>3, <5>1
        <5> QED BY <4>1, <5>1, <5>2
      <4>2. CASE i # 1
        <5>1. i - 1 = Len(w) /\ Len(w) \in 1..Len(w) /\ w # <<>>
          BY SMTT(60), <1>4, <2>2, <3>2, <4>2
        <5>2. v[i][2] = "header" /\ v[i - 1] = w[Len(w)]
          BY SMTT(60), <1>4, <3>2, <5>1
        <5>3. w[Len(w)][2] = "body"
          BY <2>1, <2>3, <5>1
        <5> QED BY <4>2, <5>2, <5>3
      <4> QED BY <4>1, <4>2
    <3>3. CASE i = Len(w) + 2
      <4>1. i - 1 = Len(w) + 1 /\ i # 1
        BY SMTT(60), <1>4, <3>3
      <4>2. v[i] = <<p, "body">> /\ v[i - 1] = <<p, "header">>
        BY <1>4, <3>3, <4>1
      <4> QED BY SMTT(60), <4>1, <4>2
    <3> QED BY <1>4, <3>1, <3>2, <3>3
  <2>4. v # <<>> /\ v[Len(v)][2] = "body"
    BY SMTT(60), <1>4
  <2>5. line'.asked # {} => line'.up
    BY <1>3, <1>5
  <2> QED BY <1>1, <1>5, <2>1, <2>3, <2>4, <2>5 DEF InStep
<1> QED BY <1>6, <1>7, <1>8, <1>9

LEMMA DropKeeps == ASSUME ConnInv, PeerDrops PROVE ConnInv'
<1> USE DEF ConnInv
<1>1. UNCHANGED <<stage, state, inUse, unsent, outq, myq, out, header, got, kept>>
  BY DEF PeerDrops
<1>2. PICK n \in 0..Len(line.wire) : line' = [LineDown EXCEPT !.wire = SubSeq(line.wire, 1, n)]
  BY DEF PeerDrops
<1> DEFINE w == line.wire
           v == SubSeq(w, 1, n)
<1>3. w \in Seq(Answered)
  BY DEF ConnTypeOK
<1>4. v \in Seq(Answered) /\ Len(v) = n /\ \A i \in 1..n : v[i] = w[i] /\ i \in 1..Len(w)
  BY SMTT(60), <1>3
<1> HIDE DEF v
<1>5. line'.wire = v /\ line'.asked = {} /\ line'.up = FALSE
      /\ line' \in [up : BOOLEAN, heard : Seq(Requested), asked : SUBSET Calls, wire : Seq(Answered)]
  <2>1. line' = [up |-> FALSE, heard |-> <<>>, asked |-> {}, wire |-> v]
    BY <1>2 DEF LineDown, v
  <2>2. <<>> \in Seq(Requested)
    BY SMTT(60)
  <2> QED BY <1>4, <2>1, <2>2
<1>6. ConnTypeOK'
  BY <1>1, <1>5 DEF ConnTypeOK
<1>7. Queues' /\ Answers'
  BY <1>1, QueuesSame, AnswersSame
<1>8. Channels'
  <2>1. \A i \in 1..Len(v) : Sent(v[i][1])
    BY <1>4 DEF Channels
  <2> QED BY <1>1, <1>5, <2>1 DEF Channels, Sent
<1>9. InStep'
  <2>1. ASSUME ~kept
        PROVE  /\ header # 0 => state = "connected"
               /\ \A i \in 1..Len(w) :
                    \/ /\ w[i][2] = "header"
                       /\ IF i = 1 THEN header = 0 ELSE w[i - 1][2] = "body"
                    \/ /\ w[i][2] = "body"
                       /\ IF i = 1 THEN header = w[1][1] ELSE w[i - 1] = <<w[i][1], "header">>
    BY <2>1 DEF InStep
  <2> HIDE DEF w
  <2>2. ASSUME ~kept, NEW i \in 1..Len(v)
        PROVE  \/ /\ v[i][2] = "header"
                  /\ IF i = 1 THEN header = 0 ELSE v[i - 1][2] = "body"
               \/ /\ v[i][2] = "body"
                  /\ IF i = 1 THEN header = v[1][1] ELSE v[i - 1] = <<v[i][1], "header">>
    <3>1. v[i] = w[i] /\ i \in 1..Len(w) /\ (i # 1 => v[i - 1] = w[i - 1]) /\ v[1] = w[1]
      BY SMTT(60), <1>4
    <3> QED BY <2>1, <2>2, <3>1
  <2> QED BY <1>1, <1>5, <2>1, <2>2 DEF InStep
<1> QED BY <1>6, <1>7, <1>8, <1>9

\* Steps that change nothing the invariant speaks of.
LEMMA OthersKeep == ASSUME ConnInv, Expire \/ ErrorEvent \/ UNCHANGED connVars PROVE ConnInv'
<1>1. UNCHANGED <<stage, state, inUse, unsent, outq, myq, out, header, line, got, kept>>
  BY DEF Expire, ErrorEvent, connVars
<1>2. ConnTypeOK'
  BY <1>1 DEF ConnInv, ConnTypeOK
<1>3. Queues' /\ Channels' /\ Answers' /\ InStep'
  <2>1. line.asked # {} => line.up
    BY DEF ConnInv, InStep
  <2> QED BY <1>1, <2>1, QueuesSame, ChannelsSame, AnswersSame, InStepSame DEF ConnInv
<1> QED BY <1>2, <1>3 DEF ConnInv

\* The strengthened invariant is kept by every step of the callers, the event
\* loop, the timeout thread, the peer and the network.
LEMMA ConnStep == ConnInv /\ [ConnNext]_connVars => ConnInv'
<1> SUFFICES ASSUME ConnInv, [ConnNext]_connVars PROVE ConnInv'
  OBVIOUS
<1>1. ASSUME NEW p \in Calls, StartPost(p) PROVE ConnInv'
  BY <1>1, StartKeeps
<1>2. CASE Posting
  BY <1>2, FinishKeeps DEF Posting
<1>3. CASE CheckChannels \/ CheckPackets
  BY <1>3, CheckChannelsKeeps, CheckPacketsKeeps
<1>4. CASE handleWriteEvent \/ handleReadEvent
  BY <1>4, WriteEventKeeps, ReadEventKeeps
<1>5. CASE Disconnect \/ DisconnectChannels \/ DisconnectPackets \/ CloseSocket
  BY <1>5, DisconnectKeeps, DisconnectChannelsKeeps, CheckPacketsKeeps, CloseKeeps
<1>6. CASE PeerAnswers \/ PeerDrops
  BY <1>6, AnswerKeeps, DropKeeps
<1>7. CASE Expire \/ ErrorEvent \/ UNCHANGED connVars
  BY <1>7, OthersKeep
<1> QED BY <1>1, <1>2, <1>3, <1>4, <1>5, <1>6, <1>7 DEF ConnNext, Closing

\* The handler that was given to postPacket is called at most once, with the
\* response to its packet or TimeoutPacket, unless a connection was closed
\* between a header and its body.
THEOREM CallsSafe == ConnSpec => []CalledOnce
<1>1. ConnInv => CalledOnce
  BY DEF ConnInv, Answers
<1> QED BY <1>1, ConnInitInv, ConnStep, PTL DEF ConnSpec

=============================================================================
