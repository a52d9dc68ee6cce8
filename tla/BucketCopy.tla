----------------------------- MODULE BucketCopy -----------------------------
(***************************************************************************)
(* The content of one bucket while migrate_manager moves it: the scan of   *)
(* the source's storage fills request_mupdate packets, send_packet repeats *)
(* each until the destination acknowledges it, and clients go on writing:  *)
(* to the source until the bucket is done, and through it (should_proxy)   *)
(* to the destination after that.  Nothing in this release calls           *)
(* update_log::log or should_write_local, so the log phase of              *)
(* do_migrate_one_bucket finds an empty log and the lock of the bucket     *)
(* refuses nobody.                                                         *)
(***************************************************************************)
EXTENDS Naturals, FiniteSets

CONSTANTS Key, Value,
          Absent,        \* what a store holds for a key it does not have
          PacketMax,     \* keys that fit in one packet (MAX_MUPDATE_PACKET_SIZE)
          MaxWrites,     \* bound on the writes of the clients
          MaxSends       \* bound on the sends of packets

VARIABLES
    src, dst,      \* the stores of the two servers
    phase,         \* where do_migrate_one_bucket is
    unscanned,     \* the keys the scan has not come to
    packet,        \* the packet being filled or sent: a function on its keys
    net,           \* the packets under way to the destination, copies included
    sends, writes, \* counters for the bounds
    latest,        \* what the last acknowledged write of each key left (history)
    touched,       \* keys written between the first scan and the finish (history)
    late           \* keys a packet changed after the bucket was done (history)

vars == <<src, dst, phase, unscanned, packet, net, sends, writes, latest, touched, late>>

Empty == [k \in {} |-> Absent]
Stored == Value \cup {Absent}

TypeOK ==
    /\ src \in [Key -> Stored] /\ dst \in [Key -> Stored] /\ latest \in [Key -> Stored]
    /\ phase \in {"idle", "scan", "send", "lock", "done"}
    /\ unscanned \subseteq Key /\ touched \subseteq Key /\ late \subseteq Key
    /\ DOMAIN packet \subseteq Key /\ \A k \in DOMAIN packet : packet[k] \in Value
    /\ sends \in 0..MaxSends /\ writes \in 0..MaxWrites

Init ==
    /\ src \in [Key -> Stored] /\ dst = [k \in Key |-> Absent] /\ latest = src
    /\ phase = "idle" /\ unscanned = {} /\ packet = Empty /\ net = {}
    /\ sends = 0 /\ writes = 0 /\ touched = {} /\ late = {}

------------------------------------------------------------------------------
\* begin_scan: a migration, the first one or another after a stopped one.
StartScan ==
    /\ phase = "idle"
    /\ phase' = "scan" /\ unscanned' = Key /\ packet' = Empty
    /\ UNCHANGED <<src, dst, net, sends, writes, latest, touched, late>>

\* Mutant: the item that finds the packet full is left out of the next one.
ScanItemDropped(k) ==
    /\ phase = "scan" /\ k \in unscanned
    /\ unscanned' = unscanned \ {k}
    /\ IF src[k] = Absent THEN UNCHANGED <<packet, phase>>
       ELSE IF Cardinality(DOMAIN packet) < PacketMax
       THEN /\ packet' = [j \in DOMAIN packet \cup {k} |->
                             IF j = k THEN src[k] ELSE packet[j]]
            /\ UNCHANGED phase
       ELSE UNCHANGED packet /\ phase' = "send"
    /\ UNCHANGED <<src, dst, net, sends, writes, latest, touched, late>>

\* Mutant: the scan also hands out the slots that hold no item.
ScanItemAbsent(k) ==
    /\ phase = "scan" /\ k \in unscanned
    /\ IF Cardinality(DOMAIN packet) < PacketMax
       THEN /\ packet' = [j \in DOMAIN packet \cup {k} |->
                             IF j = k THEN src[k] ELSE packet[j]]
            /\ unscanned' = unscanned \ {k}
            /\ UNCHANGED phase
       ELSE UNCHANGED <<packet, unscanned>> /\ phase' = "send"
    /\ UNCHANGED <<src, dst, net, sends, writes, latest, touched, late>>

\* get_next_items and add_put_key_data: an item joins the packet, which is sent
\* first when it is full; the item is read when the scan comes to it.
ScanItem(k) ==
    /\ phase = "scan" /\ k \in unscanned
    /\ IF src[k] = Absent
       THEN unscanned' = unscanned \ {k} /\ UNCHANGED <<packet, phase>>
       ELSE IF Cardinality(DOMAIN packet) < PacketMax
       THEN /\ packet' = [j \in DOMAIN packet \cup {k} |->
                             IF j = k THEN src[k] ELSE packet[j]]
            /\ unscanned' = unscanned \ {k}
            /\ UNCHANGED phase
       ELSE UNCHANGED <<packet, unscanned>> /\ phase' = "send"
    /\ UNCHANGED <<src, dst, net, sends, writes, latest, touched, late>>

\* The end of the scan: the last packet is sent when there was any item.
EndScan ==
    /\ phase = "scan" /\ unscanned = {}
    /\ phase' = IF packet = Empty THEN "lock" ELSE "send"
    /\ UNCHANGED <<src, dst, unscanned, packet, net, sends, writes, latest, touched, late>>

\* send_packet puts another copy of the packet on its way.
SendPacket ==
    /\ phase = "send" /\ sends < MaxSends
    /\ net' = net \cup {packet} /\ sends' = sends + 1
    /\ UNCHANGED <<src, dst, phase, unscanned, packet, writes, latest, touched, late>>

\* The destination applies a packet (direct_put for every record).  A copy of it
\* may still be under way, the answer may be late or lost, and only an answer to
\* the packet in hand lets the migration go on.
Deliver(p) ==
    /\ dst' = [k \in Key |-> IF k \in DOMAIN p THEN p[k] ELSE dst[k]]
    /\ late' = IF phase = "done" THEN late \cup {k \in DOMAIN p : dst[k] # p[k]} ELSE late
    /\ \/ net' = net \ {p}
       \/ sends > 1 /\ UNCHANGED net
    /\ \/ UNCHANGED <<phase, packet>>
       \/ /\ phase = "send" /\ p = packet
          /\ packet' = Empty
          /\ phase' = IF unscanned = {} THEN "lock" ELSE "scan"
    /\ UNCHANGED <<src, unscanned, sends, writes, latest, touched>>

\* A record of the packet is refused: the ones before it stay applied, the rest
\* is left out, and the packet is sent again.
DeliverPartly(p) ==
    /\ \E some \in SUBSET DOMAIN p :
         /\ dst' = [k \in Key |-> IF k \in some THEN p[k] ELSE dst[k]]
         /\ late' = IF phase = "done" THEN late \cup {k \in some : dst[k] # p[k]} ELSE late
    /\ net' = net \ {p}
    /\ UNCHANGED <<src, phase, unscanned, packet, sends, writes, latest, touched>>

\* The migration is stopped: what the destination got stays there.
Abort ==
    /\ phase \in {"scan", "send", "lock"}
    /\ phase' = "idle" /\ packet' = Empty
    /\ UNCHANGED <<src, dst, unscanned, net, sends, writes, latest, touched, late>>

\* The config server accepts the finish: requests go to the destination now.
Finish ==
    /\ phase = "lock" /\ phase' = "done"
    /\ UNCHANGED <<src, dst, unscanned, packet, net, sends, writes, latest, touched, late>>

------------------------------------------------------------------------------
\* A put (or a remove, v = Absent) of a client that is acknowledged: process_before
\* asks should_proxy, and the write goes to one store or to the other.
ClientWrite(k, v) ==
    /\ writes < MaxWrites /\ writes' = writes + 1
    /\ latest' = [latest EXCEPT ![k] = v]
    /\ IF phase = "done"
       THEN dst' = [dst EXCEPT ![k] = v] /\ UNCHANGED src
       ELSE src' = [src EXCEPT ![k] = v] /\ UNCHANGED dst
    /\ touched' = IF phase # "done" /\ (phase # "idle" \/ sends > 0)
                  THEN touched \cup {k} ELSE touched
    /\ UNCHANGED <<phase, unscanned, packet, net, sends, late>>

Next ==
    \/ StartScan \/ (\E k \in Key : ScanItem(k)) \/ EndScan \/ SendPacket
    \/ (\E p \in net : Deliver(p) \/ DeliverPartly(p))
    \/ Abort \/ Finish
    \/ \E k \in Key, v \in Stored : ClientWrite(k, v)

Spec == Init /\ [][Next]_vars

------------------------------------------------------------------------------
\* When a bucket is done, the destination has every key that nobody wrote while it
\* was being moved exactly as the last acknowledged write left it, through resent,
\* half applied and reordered packets, stopped and repeated migrations, and writes
\* that were already proxied, unless a late copy of a packet came after them.
UntouchedKeysArrive ==
    phase = "done" => \A k \in Key \ (touched \cup late) : dst[k] = latest[k]

\* "update log is for record updates while migrating" (update_log.cpp): a write
\* acknowledged while its bucket is being moved is not lost with the move.
UpdatesWhileMigratingArrive ==
    phase = "done" => \A k \in touched \ late : dst[k] = latest[k]
=============================================================================
