---------------------------- MODULE PacketStream ----------------------------
(***************************************************************************)
(* One direction of a connection: a peer posts packets, tair_packet_       *)
(* streamer::encode writes them to the socket, and TCPConnection::readData *)
(* of the other peer takes the bytes in pieces of any size, finds the      *)
(* headers, has the factory build each packet and lets it decode itself.   *)
(* Nothing in the stream marks where a packet begins: a decode() that      *)
(* reads more or fewer bytes than encode() wrote shifts all that follows.  *)
(***************************************************************************)
EXTENDS Packets

CONSTANTS
    Codes,       \* the codes a peer may post first; pings follow
    MaxPosts,    \* the packets posted on the connection
    Chunks       \* how many bytes one read() of the socket may return

ASSUME StreamAssumption == MaxPosts \in Nat /\ Chunks \subseteq Nat \ {0}

VARIABLES
    posted,     \* the packets posted: code, kind of content and what encode() did
    wire,       \* the bytes between the two sockets
    input,      \* DataBuffer _input of the reader
    header,     \* _gotHeader and _packetHeader
    handled,    \* what handlePacket was given, in order
    up,         \* the reader has not closed the connection
    alive       \* no assertion of either peer has failed

vars == <<posted, wire, input, header, handled, up, alive>>

PacketFlag == <<109, 66, 100, 84>>      \* TAIR_PACKET_FLAG
HeaderSize == 16
NoHeader == [got |-> FALSE, pcode |-> 0, len |-> 0]

------------------------------------------------------------------------------
(* The packets a peer posts: members of every kind, with a value of its    *)
(* own in each place; lists with no, one, two or too many members, and     *)
(* hmget's answer with a field that does not exist.                        *)

Kinds == {"bare", "one", "full", "holes", "long"}
Items(kind) == CASE kind = "bare" -> 0 [] kind = "one" -> 1 [] kind = "long" -> MaxValues + 1 [] OTHER -> 2
Capped(c) == \E i \in DOMAIN c.enc : c.enc[i].op = "cap"
KindsOf(c) ==
    (IF c.pcode[1] = "resp" THEN {"bare", "full"} ELSE {"one", "full"})
    \cup (IF Capped(c) THEN {"long"} ELSE {})
    \cup (IF c.pcode = <<"resp", "hmget">> THEN {"holes"} ELSE {})

RECURSIVE Sample(_, _, _, _), Fill(_, _, _, _, _, _)
\* The members of a packet of that layout; arrived: as decode() should give them back.
Fill(layout, i, p, kind, counts, arrived) ==
    LET Value(e) ==
            CASE e.op = "int" -> IF e.f \in counts THEN Items(kind) ELSE i
              [] e.op = "double" -> [j \in 1..8 |-> i]
              [] e.op = "blob" -> IF kind = "bare" /\ "empty" \in DOMAIN e THEN <<>> ELSE <<i>>
              [] e.op = "str" -> IF kind = "bare" THEN <<>> ELSE <<i>>
              [] e.op = "vec" -> [j \in 1..Items(kind) |-> IF kind = "holes" /\ j = 1 THEN <<>> ELSE <<i + j>>]
              [] e.op = "fixed" -> [j \in 1..NameSize |-> i]
              [] e.op = "packed" -> [j \in 1..(2 * Items(kind)) |-> i]
              [] e.op = "entry" -> LET d == Sample(data_entry_members, kind, {}, arrived)
                                   IN IF arrived THEN Lost @@ d ELSE d
              [] OTHER -> [j \in 1..Items(kind) |-> Sample(e.sub, kind, counts, arrived)]
        m == layout[i]
        next ==
            CASE m.op \in {"zero", "cap", "fail", "foreign"} -> p
              [] m.op = "stamp" -> [p EXCEPT ![m.f] = [@ EXCEPT !.version = p["version"]]]
              [] m.op = "when" -> IF p[m.f] \in m.set THEN Sample(m.sub, kind, counts, arrived) @@ p ELSE p
              [] OTHER -> (m.f :> Value(m)) @@ p
    IN IF i > Len(layout) THEN p ELSE Fill(layout, i + 1, next, kind, counts, arrived)
Sample(layout, kind, counts, arrived) == Fill(layout, 1, <<>>, kind, counts, arrived)

Posted(c, kind) == Sample(c.enc, kind, c.counts, FALSE)
Arrived(c, kind) == Sample(c.dec, kind, c.counts, TRUE)
\* The request a duplicate packet is made from.
Origin(code) == PacketClass[<<"req", code[2]>>]

------------------------------------------------------------------------------
\* The copy constructor of a class: each member of the original, or what it takes instead.
Copy(c, p) ==
    LET Cleared(f) == IF \E e \in ToSet(c.enc) : e.f = f /\ e.op = "int" THEN 0 ELSE <<>>
    IN [f \in DOMAIN p |->
           IF f \notin DOMAIN c.copy THEN p[f]
           ELSE IF c.copy[f] \in {None, Undefined} THEN Cleared(f)
           ELSE p[c.copy[f]]]

\* new request_x_dup(*request): the copy, and the members of the duplicate.
Duplicate(c, kind) ==
    LET tail == SelectSeq(c.enc, LAMBDA e : e.f \in {"old_pcode", "packet_id", "bucket_id"})
    IN Sample(tail, kind, {}, FALSE) @@ Copy(c, Posted(Origin(c.pcode), kind))

\* encode() asserts, or the copy constructor does not return.
Aborts(c) ==
    /\ c.pcode[1] = "dup"
    /\ c.aborts \/ \E f \in DOMAIN c.copy : c.copy[f] = Undefined

\* Mutant: a full response is refused as well.
RefusesFull(c, p) == \E i \in DOMAIN c.enc : c.enc[i].op = "cap" /\ Len(p[c.enc[i].f]) >= MaxValues

\* encode() refuses more values than a response may carry.
Refuses(c, p) == \E i \in DOMAIN c.enc : c.enc[i].op = "cap" /\ Len(p[c.enc[i].f]) > MaxValues

\* tair_packet_streamer::encode: the header, the packet, then the length filled in.
Encode(c, p) ==
    LET body == Bytes(c.enc, p)
    IN PacketFlag \o WriteInt(1, 4) \o WriteInt(PCode[c.pcode], 4) \o WriteInt(Len(body), 4) \o body

\* TCPConnection::writeData: a packet that cannot be encoded leaves no trace on the wire.
Post(code, kind) ==
    /\ alive /\ up /\ Len(posted) < MaxPosts
    /\ posted = <<>> \/ code = <<"req", "ping">>
    /\ kind \in KindsOf(PacketClass[code])
    /\ LET c == PacketClass[code]
           p == IF code[1] = "dup" THEN Duplicate(c, kind) ELSE Posted(c, kind)
           did == IF Aborts(c) THEN "aborted" ELSE IF Refuses(c, p) THEN "refused" ELSE "sent"
       IN /\ posted' = Append(posted, [code |-> code, kind |-> kind, did |-> did])
          /\ wire' = IF did = "sent" THEN wire \o Encode(c, p) ELSE wire
          /\ alive' = (did # "aborted")
    /\ UNCHANGED <<input, header, handled, up>>

------------------------------------------------------------------------------
\* tair_packet_streamer::getPacketInfo: the four header words are consumed whatever they say.
GetPacketInfo(b) ==
    [flag |-> SubSeq(b, 1, 4), pcode |-> ReadInt(SubSeq(b, 9, 12)), len |-> ReadInt(SubSeq(b, 13, 16))]
Broken(h) == h.flag # PacketFlag \/ h.len > 67108864

\* tair_packet_factory::createPacket: the class built for a number.
CodeOf(n) == {c \in DOMAIN Factory : PCode[c] = n}

\* Mutant: a packet without a class stays in the buffer.
HandlePacketKeepsBody(s) ==
    LET known == CodeOf(s.header.pcode) # {}
        c == Factory[CHOOSE code \in CodeOf(s.header.pcode) : TRUE]
        r == IF ~known THEN [Reader(s.input) EXCEPT !.ok = FALSE]
             ELSE IF c.dec[1].op = "foreign" THEN Reader(Drain(s.input, s.header.len))
             ELSE Read(c.dec, 1, Reader(s.input))
    IN [s EXCEPT !.input = r.in, !.asserts = @ /\ (known => PCode[c.pcode] = s.header.pcode),
                 !.handled = Append(@, [ok |-> r.ok, packet |-> IF r.ok THEN r.p ELSE <<>>])]

\* tair_packet_streamer::decode and Connection::handlePacket: a packet that decodes is
\* handed on; one that does not is a BadPacket, and what it left unread stays in the
\* buffer; a packet without a class is drained.
HandlePacket(s) ==
    IF CodeOf(s.header.pcode) = {}
    THEN [s EXCEPT !.input = Drain(@, s.header.len), !.handled = Append(@, [ok |-> FALSE, packet |-> <<>>])]
    ELSE LET c == Factory[CHOOSE code \in CodeOf(s.header.pcode) : TRUE]
             r == IF c.dec[1].op = "foreign" THEN Reader(Drain(s.input, s.header.len))
                  ELSE Read(c.dec, 1, Reader(s.input))
         IN [s EXCEPT !.input = r.in, !.asserts = @ /\ PCode[c.pcode] = s.header.pcode,
                      !.handled = Append(@, [ok |-> r.ok, packet |-> IF r.ok THEN r.p ELSE <<>>])]

RECURSIVE ReadData(_)
\* TCPConnection::readData: all packets the buffer holds, until one is incomplete or the
\* stream is broken.
ReadData(s) ==
    IF ~s.header.got
    THEN IF Len(s.input) < HeaderSize THEN s
         ELSE LET h == GetPacketInfo(s.input)
                  t == [s EXCEPT !.input = Drain(@, HeaderSize)]
              IN IF Broken(h) THEN [t EXCEPT !.broken = TRUE]
                 ELSE ReadData([t EXCEPT !.header = [got |-> TRUE, pcode |-> h.pcode, len |-> h.len]])
    ELSE IF Len(s.input) < s.header.len THEN s
         ELSE ReadData([HandlePacket(s) EXCEPT !.header = NoHeader])

\* The socket is readable: read() returns k bytes, or all there are.
Deliver(k) ==
    /\ alive /\ up /\ wire # <<>>
    /\ LET n == IF k < Len(wire) THEN k ELSE Len(wire)
           s == ReadData([input |-> input \o SubSeq(wire, 1, n), header |-> header, handled |-> handled,
                          broken |-> FALSE, asserts |-> TRUE])
       IN /\ wire' = IF s.broken THEN <<>> ELSE Drain(wire, n)
          /\ input' = IF s.broken THEN <<>> ELSE s.input
          /\ header' = IF s.broken THEN NoHeader ELSE s.header
          /\ handled' = s.handled
          /\ up' = ~s.broken /\ alive' = s.asserts
    /\ UNCHANGED posted

Init ==
    /\ posted = <<>> /\ wire = <<>> /\ input = <<>> /\ handled = <<>>
    /\ header = NoHeader /\ up = TRUE /\ alive = TRUE

Next ==
    \/ \E code \in Codes, kind \in Kinds : Post(code, kind)
    \/ \E k \in Chunks : Deliver(k)

Spec == Init /\ [][Next]_vars

------------------------------------------------------------------------------
(* Properties.                                                             *)

Sent == SelectSeq(posted, LAMBDA m : m.did = "sent")
Quiet == wire = <<>> /\ alive
Code(kind, names) == {<<kind, n>> : n \in names}

\* Classes whose decode() reads another layout than encode() wrote: dump_area and load_area
\* (dump_area_packet.hpp:41, load_area_packet.hpp:41), the two filters (addfilter_packet.hpp:50).
Misread == Code("req", {"dump_area", "load_area", "add_filter", "remove_filter"})
\* A class whose decode() reads everything and reports failure (lrem_packet.hpp:172).
Refused == {<<"resp", "lrem">>}
\* Copy constructors that give the slave another write than the client's (lrem_packet.hpp:49).
Altered == {<<"dup", "lrem">>}
\* Duplicates whose encode() is an assert(0), or whose copy constructor runs off a map.
Fatal == Code("dup", {"spop", "hsetnx", "saddmulti", "sremmulti"})

\* The type of the state.
TypeOK ==
    /\ \A i \in DOMAIN posted : posted[i].code \in Codes /\ posted[i].kind \in Kinds
    /\ \A i \in DOMAIN wire : wire[i] \in 0..255
    /\ \A i \in DOMAIN input : input[i] \in 0..255
    /\ header.got \in BOOLEAN /\ up \in BOOLEAN /\ alive \in BOOLEAN
    /\ Len(handled) <= Len(Sent)

\* The stream stays in step: once all bytes are read, the buffer is empty and as many packets
\* were handled as were sent, exactly unless a packet of a class of Misread was among them.
\* TCPConnection::readData never looks for the next header: it trusts decode() to have read
\* _dataLen bytes.
InStep ==
    Quiet =>
        ((up /\ input = <<>> /\ ~header.got /\ Len(handled) = Len(Sent))
            <=> \A i \in DOMAIN Sent : Sent[i].code \notin Misread)

\* A packet that is handed on is the packet that was posted, whatever pieces it came in, but for
\* the areas of its entries; exactly the absent fields of hmget's answer, the misread classes
\* and the altered duplicates are not.  What is not handed on has no class in the factory, or
\* decode() failed.
ReceivedAsSent ==
    up => \A i \in DOMAIN handled :
        LET m == Sent[i]
            c == PacketClass[m.code]
            spoilt == \E j \in 1..i : Sent[j].code \in Misread
        IN \/ spoilt
           \/ m.code[1] = "dup" \/ c.dec[1].op = "foreign"
           \/ /\ handled[i].ok = (m.code \in DOMAIN Factory \ Refused)
              /\ handled[i].ok => ((handled[i].packet = Arrived(c, m.kind)) <=> m.kind # "holes")

\* A duplicate packet that reaches the slave carries the client's write in every member,
\* exactly unless its class is one of Altered: the copy constructors, encode() and decode() of
\* the request and of the duplicate agree.
DuplicateCarriesWrite ==
    \A i \in DOMAIN handled :
        LET m == Sent[i]
            w == Arrived(Origin(m.code), m.kind)
        IN (m.code[1] = "dup" /\ handled[i].ok) =>
               ((\A f \in DOMAIN w : handled[i].packet[f] = w[f]) <=> m.code \notin Altered)

\* Client and server, and master and slave, mean the same by every packet that is handed on.
SameMeaning == ReceivedAsSent /\ DuplicateCarriesWrite

\* No assertion fails in either peer, exactly unless a duplicate of one of the Fatal commands is
\* posted: the assert at the end of _createPacket (packet_factory.cpp:640) holds for every code,
\* and encode() is not an assert(0) for what the server posts.
OnlyFatalAborts == ~alive <=> \E i \in DOMAIN posted : posted[i].code \in Fatal

\* Exactly a response with more values than it may carry is left off the wire.
OnlyLongRefused == \A i \in DOMAIN posted : posted[i].did = "refused" <=> posted[i].kind = "long"

\* Every packet posted is put on the wire, but for those.
Encodes == OnlyFatalAborts /\ OnlyLongRefused
==============================================================================
