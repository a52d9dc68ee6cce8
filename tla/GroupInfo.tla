----------------------------- MODULE GroupInfo -----------------------------
(***************************************************************************)
(* One group of a Tair config server (configserver/group_info.cpp driven   *)
(* by configserver/server_conf_thread.cpp): its three tables, the          *)
(* bookkeeping of a migration, and the threads that work on them.          *)
(*                                                                         *)
(*   hash_table    the table clients and data servers use now              *)
(*   m_hash_table  how far the migration has come                          *)
(*   d_hash_table  the table the migration ends with                       *)
(*                                                                         *)
(* A table gives each bucket a row: the master on line 0, slaves below it. *)
(*                                                                         *)
(* Threads.  The status thread runs check_server_status once a second; it  *)
(* holds the group lock for reading from its check to its push.  The       *)
(* builder thread runs rebuild, which holds the group lock for writing     *)
(* twice and lets it go in between.  Packet handlers hold it for reading,  *)
(* and hash_table_set_mutex while they mark a bucket.                      *)
(*                                                                         *)
(* The deployment modelled has one config server, so that no table is sent *)
(* to a slave (get_slave_server_id is 0).  Packets of data servers are     *)
(* unconstrained: any server may report any bucket, under the current      *)
(* version or another one.                                                 *)
(***************************************************************************)
EXTENDS Integers, FiniteSets

CONSTANTS
  Server,            \* the data servers of the group
  Bucket,            \* the buckets
  CopyCount,         \* copies of a bucket, the master included
  NoServer,          \* the server id 0: nobody
  DataNeedMove,      \* data_need_move = TAIR_DATA_NEED_MIGRATE
  AutoAccept,        \* accept_strategy = GROUP_AUTO_ACCEPT_STRATEGY
  MinServerCount,    \* min_data_server_count
  MinConfigVersion,  \* min_config_version
  ServerUpIncStep,   \* server_up_inc_step
  MaxDisturbances    \* bound: silences, refusals, operator commands, restarts

(***************************************************************************)
(* load_config forces migration when there are several copies, and raises  *)
(* min_data_server_count to the number of copies.                          *)
(***************************************************************************)
ASSUME GroupAssumption ==
  /\ IsFiniteSet(Server)
  /\ IsFiniteSet(Bucket)
  /\ Bucket # {}
  /\ NoServer \notin Server
  /\ CopyCount \in Nat \ {0}
  /\ DataNeedMove \in BOOLEAN
  /\ CopyCount > 1 => DataNeedMove
  /\ AutoAccept \in BOOLEAN
  /\ MinServerCount \in Nat
  /\ MinServerCount >= CopyCount
  /\ MinConfigVersion \in Nat \ {0, 1}
  /\ ServerUpIncStep \in Nat \ {0}
  /\ MaxDisturbances \in Nat

VARIABLES
  \* the server table file, mapped into memory: survives a crash
  hash_table, m_hash_table, d_hash_table,
  client_version, server_version,
  migrate_block_count,
  \* the compressed copy of hash_table and d_hash_table that is sent out
  deflated,
  \* group_info in memory
  migrate_machine,       \* buckets each master still has to migrate
  reported_serverid,     \* servers whose proxied buckets were taken over
  available_server,
  need_rebuild_hash_table,
  group_can_work, group_is_OK,
  \* server_info of each data server
  status,
  silence,               \* 0: heard of, 1: for half the down time not, 2: for all of it
  \* the status thread
  status_pc,
  change_group,          \* the group is in change_group_info_list
  \* the builder thread
  group_need_build,      \* entries of the group in the builder's queue
  building,              \* between the two critical sections of rebuild
  upnode_list, first_run, quick_table,
  \* the packet handler inside set_migrating_hashtable
  mark_server, mark_todo,
  mark_ret,              \* a row was changed, the counters are not yet
  \* the process and its environment
  running,
  disturbances

file == <<hash_table, m_hash_table, d_hash_table, client_version,
          server_version, migrate_block_count>>
group == <<deflated, migrate_machine, reported_serverid, available_server,
           need_rebuild_hash_table, group_can_work, group_is_OK>>
nodes == <<status, silence>>
checker == <<status_pc, change_group>>
builder == <<group_need_build, building, upnode_list, first_run, quick_table>>
marker == <<mark_server, mark_todo, mark_ret>>
vars == <<file, group, nodes, checker, builder, marker, running, disturbances>>

Line == 0 .. CopyCount - 1
Row == [Line -> Server \cup {NoServer}]
Table == [Bucket -> Row]

\* A row, and a table, of zeros: what create leaves in a new file.
EmptyRow == [l \in Line |-> NoServer]
EmptyTable == [b \in Bucket |-> EmptyRow]

Nobody == [s \in Server |-> 0]

-----------------------------------------------------------------------------
(* Tables.                                                                 *)

\* fill_migrate_machine: a row of m that has a master is to be migrated when
\* the masters differ, or when a slave of d is nowhere among the slaves of m.
MigrateThisBucket(m, d) ==
  /\ m[0] # NoServer
  /\ \/ m[0] # d[0]
     \/ \E j \in Line \ {0} : \A k \in Line \ {0} : d[j] # m[k]

MigrateSet(m, d) == {b \in Bucket : MigrateThisBucket(m[b], d[b])}

\* Mutant: slaves are not compared.
FillMigrateMachine_MastersOnly(m, d) ==
  [s \in Server |-> Cardinality({b \in Bucket : m[b][0] = s /\ d[b][0] # s})]

FillMigrateMachine(m, d) ==
  [s \in Server |-> Cardinality({b \in MigrateSet(m, d) : m[b][0] = s})]

\* The lines build_quick_table may take the new master of a row from: line 0
\* while its server is available, else a slave that is.
MasterLines(row, up) ==
  IF row[0] \in up THEN {0} ELSE {k \in Line \ {0} : row[k] \in up}

\* build_quick_table on one row: line k becomes the master, its old line and
\* every line of an unavailable server are zeroed.
QuickRow(row, up, k) ==
  [l \in Line |-> IF l = 0 THEN row[k]
                  ELSE IF l = k \/ row[l] \notin up THEN NoServer
                  ELSE row[l]]

\* What rebuild_table promises of its result: every copy of a bucket is on an
\* available server of its own; and it never just reorders the slaves of a
\* row, which fill_migrate_machine would not notice.
DestTable(dest, quick, up) ==
  /\ dest \in [Bucket -> [Line -> up]]
  /\ \A b \in Bucket :
       /\ \A i, j \in Line : dest[b][i] = dest[b][j] => i = j
       /\ /\ quick[b] # dest[b]
          /\ quick[b][0] # NoServer
          => MigrateThisBucket(quick[b], dest[b])

\* Mutant: the step is not added.
IncVersion_NoStep(v, step) ==
  IF v < MinConfigVersion THEN MinConfigVersion ELSE v

\* inc_version(value, step)
IncVersion(v, step) ==
  IF v + step < MinConfigVersion THEN MinConfigVersion ELSE v + step

-----------------------------------------------------------------------------
(* Locks.                                                                  *)

MarkerIdle == mark_todo = {} /\ ~mark_ret

\* group_info_rw_locker can be taken for writing.
WriteLockFree == MarkerIdle /\ status_pc \in {"scan", "check"}

is_migrating == migrate_block_count # -1

Disturb == disturbances < MaxDisturbances /\ disturbances' = disturbances + 1

\* inc_version(step): both versions move together.
IncBothVersions(step) ==
  /\ client_version' = IncVersion(client_version, step)
  /\ server_version' = IncVersion(server_version, step)

-----------------------------------------------------------------------------
(***************************************************************************)
(* Start.  The file has just been created and load_group_file has run:     *)
(* load_config raised the versions and asked for a table.  No check runs   *)
(* in the first TAIR_SERVER_DOWNTIME seconds, in which the data servers    *)
(* connect.                                                                *)
(***************************************************************************)
Init ==
  /\ hash_table = EmptyTable /\ m_hash_table = EmptyTable /\ d_hash_table = EmptyTable
  /\ client_version = MinConfigVersion /\ server_version = MinConfigVersion
  /\ migrate_block_count = -1
  /\ deflated = [hash |-> EmptyTable, dest |-> EmptyTable]
  /\ migrate_machine = Nobody
  /\ reported_serverid = {}
  /\ available_server = Server
  /\ need_rebuild_hash_table = "timed"
  /\ group_can_work = TRUE /\ group_is_OK = TRUE
  /\ status = [s \in Server |-> "ALIVE"]
  /\ silence = [s \in Server |-> 0]
  /\ status_pc = "scan" /\ change_group = FALSE
  /\ group_need_build = 0 /\ building = FALSE
  /\ upnode_list = {} /\ first_run = FALSE /\ quick_table = EmptyTable
  /\ mark_server = NoServer /\ mark_todo = {} /\ mark_ret = FALSE
  /\ running = TRUE
  /\ disturbances = 0

-----------------------------------------------------------------------------
(* The status thread: check_server_status.                                 *)

\* Lines 204-235, no lock held: is a rebuild due, and who is down?  A forced
\* request is due at once, one of load_config after the down time.
ScanServers ==
  /\ running /\ status_pc = "scan"
  /\ LET downhost == {s \in Server :
                        \/ status[s] = "ALIVE" /\ silence[s] = 2
                        \/ status[s] = "FORCE_DOWN"}
     IN  /\ status' = [s \in Server |-> IF s \in downhost THEN "DOWN" ELSE status[s]]
         /\ \E is_need_rebuild \in BOOLEAN :
              /\ need_rebuild_hash_table = "no" => ~is_need_rebuild
              /\ need_rebuild_hash_table = "forced" => is_need_rebuild
              /\ change_group' = (is_need_rebuild \/ downhost # {})
  /\ status_pc' = "check"
  /\ UNCHANGED <<file, group, silence, builder, marker, running, disturbances>>

\* hard_check_migrate_complete, which only every 300th round runs.
HardCheck(hard) ==
  IF hard /\ m_hash_table = d_hash_table THEN Nobody ELSE migrate_machine

\* check_migrate_complete returns without an effect: there is no migration,
\* or it still goes on.
CheckMigrateWait ==
  /\ running /\ status_pc = "check"
  /\ \E hard \in BOOLEAN :
       /\ ~DataNeedMove \/ ~is_migrating \/ HardCheck(hard) # Nobody
       /\ migrate_machine' = HardCheck(hard)
  /\ status_pc' = "push"
  /\ UNCHANGED <<file, deflated, reported_serverid, available_server,
                 need_rebuild_hash_table, group_can_work, group_is_OK, nodes,
                 change_group, builder, marker, running, disturbances>>

\* check_migrate_complete finds no migrating machine left.  The assertion
\* that m equals d aborts the process; else the versions are raised first.
CheckMigrateComplete ==
  /\ running /\ status_pc = "check"
  /\ DataNeedMove /\ is_migrating
  /\ \E hard \in BOOLEAN :
       /\ HardCheck(hard) = Nobody
       /\ migrate_machine' = HardCheck(hard)
  /\ IF m_hash_table = d_hash_table
     THEN IncBothVersions(1) /\ status_pc' = "bumped" /\ UNCHANGED running
     ELSE running' = FALSE /\ UNCHANGED <<client_version, server_version, status_pc>>
  /\ UNCHANGED <<hash_table, m_hash_table, d_hash_table, migrate_block_count,
                 deflated, reported_serverid, available_server,
                 need_rebuild_hash_table, group_can_work, group_is_OK, nodes,
                 change_group, builder, marker, disturbances>>

\* Then hash_table is covered by d_hash_table and compressed anew ...
CoverHashTable ==
  /\ running /\ status_pc = "bumped"
  /\ hash_table' = d_hash_table
  /\ deflated' = [hash |-> d_hash_table, dest |-> d_hash_table]
  /\ status_pc' = "covered"
  /\ UNCHANGED <<m_hash_table, d_hash_table, client_version, server_version,
                 migrate_block_count, migrate_machine, reported_serverid,
                 available_server, need_rebuild_hash_table, group_can_work,
                 group_is_OK, nodes, change_group, builder, marker, running,
                 disturbances>>

\* ... and the migration is over.
EndMigration ==
  /\ running /\ status_pc = "covered"
  /\ migrate_block_count' = -1
  /\ reported_serverid' = {}
  /\ status_pc' = "push"
  /\ UNCHANGED <<hash_table, m_hash_table, d_hash_table, client_version,
                 server_version, deflated, migrate_machine, available_server,
                 need_rebuild_hash_table, group_can_work, group_is_OK, nodes,
                 change_group, builder, marker, running, disturbances>>

\* Mutant: the request is withdrawn whether or not it was seen.
RequestAfterPush_Withdrawn == "no"

\* set_table_builded is called for the groups in change_group_info_list.
RequestAfterPush == IF change_group THEN "no" ELSE need_rebuild_hash_table

\* Lines 257-269: a changed group goes to the builder thread, and the request
\* to rebuild is withdrawn.
PushBuild ==
  /\ running /\ status_pc = "push"
  /\ group_need_build' = IF change_group THEN group_need_build + 1 ELSE group_need_build
  /\ need_rebuild_hash_table' = RequestAfterPush
  /\ change_group' = FALSE
  /\ status_pc' = "scan"
  /\ UNCHANGED <<file, deflated, migrate_machine, reported_serverid,
                 available_server, group_can_work, group_is_OK, nodes,
                 building, upnode_list, first_run, quick_table, marker,
                 running, disturbances>>

-----------------------------------------------------------------------------
(* The builder thread: rebuild.                                            *)

\* get_up_node: a server silent for half the down time is not up.
IsUp(s) == status[s] = "ALIVE" /\ silence[s] = 0
UpNodes == {s \in Server : IsUp(s)}

\* The first critical section up to line 615: the builder takes the group from
\* its queue and looks who is up.
TakeGroup ==
  /\ running /\ ~building /\ group_need_build > 0 /\ WriteLockFree
  /\ group_need_build' = group_need_build - 1
  /\ status' = [s \in Server |-> IF IsUp(s) THEN "ALIVE" ELSE "DOWN"]
  /\ available_server' = UpNodes

IsFirstRun == m_hash_table = EmptyTable

\* A quick table is built for several copies, but not for a group without table.
NeedQuickTable == DataNeedMove /\ CopyCount > 1 /\ ~IsFirstRun

\* Lines 616-627: not enough servers.
RebuildTooFew ==
  /\ TakeGroup
  /\ Cardinality(UpNodes) < MinServerCount
  /\ IncBothVersions(1)
  /\ UNCHANGED <<hash_table, m_hash_table, d_hash_table, migrate_block_count,
                 deflated, migrate_machine, reported_serverid,
                 need_rebuild_hash_table, group_can_work, group_is_OK, silence,
                 checker, building, upnode_list, first_run, quick_table, marker,
                 running, disturbances>>

\* Lines 677-690: some bucket lost all its copies.
RebuildNoMaster ==
  /\ TakeGroup
  /\ Cardinality(UpNodes) >= MinServerCount
  /\ NeedQuickTable
  /\ \E b \in Bucket : MasterLines(m_hash_table[b], UpNodes) = {}
  /\ group_is_OK' = FALSE
  /\ IncBothVersions(1)
  /\ UNCHANGED <<hash_table, m_hash_table, d_hash_table, migrate_block_count,
                 deflated, migrate_machine, reported_serverid,
                 need_rebuild_hash_table, group_can_work, silence, checker,
                 building, upnode_list, first_run, quick_table, marker,
                 running, disturbances>>

\* Lines 629-693: m is loaded, the quick table built, and the lock let go.
RebuildQuick ==
  /\ TakeGroup
  /\ Cardinality(UpNodes) >= MinServerCount
  /\ IF NeedQuickTable
     THEN \E k \in [Bucket -> Line] :
            /\ \A b \in Bucket : k[b] \in MasterLines(m_hash_table[b], UpNodes)
            /\ quick_table' = [b \in Bucket |-> QuickRow(m_hash_table[b], UpNodes, k[b])]
     ELSE quick_table' = m_hash_table
  /\ building' = TRUE
  /\ upnode_list' = UpNodes
  /\ first_run' = IsFirstRun
  /\ UNCHANGED <<file, deflated, migrate_machine, reported_serverid,
                 need_rebuild_hash_table, group_can_work, group_is_OK, silence,
                 checker, marker, running, disturbances>>

\* rebuild returns: its local tables are gone.
DropTables ==
  /\ building' = FALSE
  /\ upnode_list' = {} /\ first_run' = FALSE /\ quick_table' = EmptyTable

\* Lines 697-707: rebuild_table found no table.
RebuildError ==
  /\ running /\ building /\ WriteLockFree
  /\ group_can_work' = FALSE /\ group_is_OK' = FALSE
  /\ IncBothVersions(1)
  /\ DropTables
  /\ UNCHANGED <<hash_table, m_hash_table, d_hash_table, migrate_block_count,
                 deflated, migrate_machine, reported_serverid, available_server,
                 need_rebuild_hash_table, nodes, checker, group_need_build,
                 marker, running, disturbances>>

\* Lines 711-737: what becomes of hash_table and m_hash_table.
NewStart(dest) ==
  IF DataNeedMove /\ ~first_run
  THEN IF CopyCount > 1
       THEN quick_table
       ELSE [b \in Bucket |-> IF quick_table[b][0] \in available_server
                              THEN quick_table[b] ELSE dest[b]]
  ELSE dest

\* Lines 709-833: the tables are published under a new version.
RebuildPublish(dest) ==
  /\ running /\ building /\ WriteLockFree
  /\ DestTable(dest, quick_table, upnode_list)
  /\ d_hash_table' = dest
  /\ m_hash_table' = NewStart(dest)
  /\ hash_table' = NewStart(dest)
  /\ LET diff_count == IF first_run THEN 0 ELSE Cardinality(MigrateSet(NewStart(dest), dest))
     IN  migrate_block_count' = IF diff_count > 0 THEN diff_count ELSE -1
  /\ migrate_machine' = IF first_run THEN migrate_machine
                        ELSE FillMigrateMachine(NewStart(dest), dest)
  /\ IncBothVersions(1)
  /\ deflated' = [hash |-> NewStart(dest), dest |-> dest]
  /\ group_can_work' = TRUE /\ group_is_OK' = TRUE
  /\ DropTables
  /\ UNCHANGED <<reported_serverid, available_server, need_rebuild_hash_table,
                 nodes, checker, group_need_build, marker, running, disturbances>>

-----------------------------------------------------------------------------
(***************************************************************************)
(* Packet handlers.  set_migrating_hashtable first changes the rows of m   *)
(* and then the counters; other threads run in between.                    *)
(***************************************************************************)

\* do_finish_migrate_packet: a data server has migrated bucket b on the basis
\* of table version v.
FinishMigrate(s, v, b) ==
  /\ running /\ MarkerIdle
  /\ DataNeedMove
  /\ v = server_version
  /\ mark_server' = s /\ mark_todo' = {b}
  /\ UNCHANGED <<file, group, nodes, checker, builder, mark_ret, running, disturbances>>

\* do_heartbeat_packet, lines 781-802: a server that is down is told to stay
\* alone; the versions move so that everyone fetches the table again.
HeartbeatRefused(s) ==
  /\ running /\ Disturb
  /\ status[s] = "DOWN" /\ ~AutoAccept
  /\ silence' = [silence EXCEPT ![s] = 0]
  /\ IncBothVersions(ServerUpIncStep)
  /\ need_rebuild_hash_table' = "forced"
  /\ UNCHANGED <<hash_table, m_hash_table, d_hash_table, migrate_block_count,
                 deflated, migrate_machine, reported_serverid, available_server,
                 group_can_work, group_is_OK, status, checker, builder, marker,
                 running>>

\* Lines 779-813: the server has been heard of, and taken back if it was down.
HeardOf(s) ==
  /\ silence' = [silence EXCEPT ![s] = 0]
  /\ IF status[s] = "DOWN"
     THEN status' = [status EXCEPT ![s] = "ALIVE"] /\ need_rebuild_hash_table' = "forced"
     ELSE UNCHANGED <<status, need_rebuild_hash_table>>

\* do_proxy_report takes the report of a server once per migration.
TakesReport(s, v) ==
  /\ status[s] # "FORCE_DOWN" /\ group_can_work
  /\ v = server_version
  /\ is_migrating /\ s \notin reported_serverid

\* A heartbeat that changes no table.
Heartbeat(s, v) ==
  /\ running
  /\ status[s] = "DOWN" => AutoAccept
  /\ ~TakesReport(s, v)
  /\ HeardOf(s)
  /\ UNCHANGED <<file, deflated, migrate_machine, reported_serverid,
                 available_server, group_can_work, group_is_OK, checker,
                 builder, marker, running, disturbances>>

\* A heartbeat whose buckets bs, the ones s proxies, go through
\* set_migrating_hashtable one after the other.
HeartbeatReport(s, v, bs) ==
  /\ running /\ MarkerIdle
  /\ status[s] = "DOWN" => AutoAccept
  /\ TakesReport(s, v)
  /\ HeardOf(s)
  /\ reported_serverid' = reported_serverid \cup {s}
  /\ mark_server' = s /\ mark_todo' = bs
  /\ UNCHANGED <<file, deflated, migrate_machine, available_server,
                 group_can_work, group_is_OK, checker, builder, mark_ret,
                 running, disturbances>>

\* Mutant: any server may report any bucket.
OwnsBucket_Any(b) == TRUE

\* Only the master of a bucket reports it.
OwnsBucket(b) == m_hash_table[b][0] = mark_server

\* Mutant: only line 0 is taken over.
MarkedRow_MasterOnly(b) == [m_hash_table[b] EXCEPT ![0] = d_hash_table[b][0]]

\* All lines of the bucket are taken over from d ...
MarkedRow(b) == d_hash_table[b]

\* Mutant: a report that changes nothing is counted as well.
RowChanges_Always(b) == TRUE

\* ... and the counters move only if one of them differed.
RowChanges(b) == m_hash_table[b] # d_hash_table[b]

\* set_migrating_hashtable, lines 1013-1031.
MarkBucket(b) ==
  /\ running /\ b \in mark_todo /\ ~mark_ret
  /\ mark_todo' = mark_todo \ {b}
  /\ IF is_migrating /\ OwnsBucket(b)
     THEN /\ m_hash_table' = [m_hash_table EXCEPT ![b] = MarkedRow(b)]
          /\ mark_ret' = RowChanges(b)
     ELSE UNCHANGED <<m_hash_table, mark_ret>>
  /\ mark_server' = IF mark_todo' = {} /\ ~mark_ret' THEN NoServer ELSE mark_server
  /\ UNCHANGED <<hash_table, d_hash_table, client_version, server_version,
                 migrate_block_count, group, nodes, checker, builder, running,
                 disturbances>>

\* Mutant: the iterator is not checked.
MachineMissing_Unchecked == FALSE

\* migrate_machine has no entry for the server.
MachineMissing == migrate_machine[mark_server] = 0

\* Lines 1032-1043; the assertion that the machine is known comes after the
\* block count was lowered.
CountBucket ==
  /\ running /\ mark_ret
  /\ migrate_block_count' = migrate_block_count - 1
  /\ mark_ret' = FALSE
  /\ mark_server' = IF mark_todo = {} THEN NoServer ELSE mark_server
  /\ IF MachineMissing
     THEN running' = FALSE /\ UNCHANGED migrate_machine
     ELSE /\ migrate_machine' = [migrate_machine EXCEPT ![mark_server] = @ - 1]
          /\ UNCHANGED running
  /\ UNCHANGED <<hash_table, m_hash_table, d_hash_table, client_version,
                 server_version, deflated, reported_serverid, available_server,
                 need_rebuild_hash_table, group_can_work, group_is_OK, nodes,
                 checker, builder, mark_todo, disturbances>>

-----------------------------------------------------------------------------
(* Operators and the environment.                                          *)

\* force_change_server_status, CTRL_DOWN.
ForceDown(s) ==
  /\ running /\ Disturb
  /\ status[s] # "DOWN"
  /\ status' = [status EXCEPT ![s] = "FORCE_DOWN"]
  /\ UNCHANGED <<file, group, silence, checker, builder, marker, running>>

\* force_change_server_status, CTRL_UP.
ForceUp(s) ==
  /\ running /\ Disturb
  /\ status[s] # "ALIVE"
  /\ silence' = [silence EXCEPT ![s] = 0]
  /\ status' = [status EXCEPT ![s] = "ALIVE"]
  /\ need_rebuild_hash_table' = "forced"
  /\ UNCHANGED <<file, deflated, migrate_machine, reported_serverid,
                 available_server, group_can_work, group_is_OK, checker,
                 builder, marker, running>>

\* correct_server_info: the servers of d are taken to be alive.
InDest == {d_hash_table[b][l] : b \in Bucket, l \in Line}

\* load_group_file after the group file was touched: load_config with a newer
\* version (changed1: a setting of the group differs), find_available_server,
\* correct_server_info.  A server that is down and connected is taken back.
LoadGroupFile ==
  /\ running /\ Disturb /\ WriteLockFree
  /\ need_rebuild_hash_table' = "timed"
  /\ LET back == {s \in Server : status[s] = "DOWN" /\ silence[s] = 0}
     IN  /\ available_server' = back \cup {s \in Server : status[s] # "DOWN"}
         /\ status' = [s \in Server |-> IF s \in back \cup InDest THEN "ALIVE" ELSE status[s]]
  /\ \E changed1 \in BOOLEAN :
       IF changed1 THEN IncBothVersions(1) ELSE UNCHANGED <<client_version, server_version>>
  /\ UNCHANGED <<hash_table, m_hash_table, d_hash_table, migrate_block_count,
                 deflated, migrate_machine, reported_serverid, group_can_work,
                 group_is_OK, silence, checker, builder, marker, running>>

\* Time passes without a sign of life of s.
GoSilent(s) ==
  /\ \/ silence[s] = 0 /\ Disturb
     \/ silence[s] = 1 /\ UNCHANGED disturbances
  /\ silence' = [silence EXCEPT ![s] = @ + 1]
  /\ UNCHANGED <<file, group, status, checker, builder, marker, running>>

\* The process dies, at any step or at one of its assertions, and is started
\* again: the constructor of group_info and load_group_file on the existing
\* file.  migrate_machine is restored from the tables, every server is taken to be
\* alive, and an unchanged group file asks for no rebuild.
Restart ==
  /\ Disturb
  /\ running' = TRUE
  /\ migrate_machine' = IF migrate_block_count > 0
                        THEN FillMigrateMachine(m_hash_table, d_hash_table) ELSE Nobody
  /\ deflated' = [hash |-> hash_table, dest |-> d_hash_table]
  /\ reported_serverid' = {}
  /\ available_server' = Server
  /\ need_rebuild_hash_table' = "no"
  /\ group_can_work' = TRUE /\ group_is_OK' = TRUE
  /\ status' = [s \in Server |-> "ALIVE"]
  /\ status_pc' = "scan" /\ change_group' = FALSE
  /\ group_need_build' = 0
  /\ DropTables
  /\ mark_server' = NoServer /\ mark_todo' = {} /\ mark_ret' = FALSE
  /\ UNCHANGED <<file, silence>>

-----------------------------------------------------------------------------
StatusThread ==
  \/ ScanServers \/ CheckMigrateWait \/ CheckMigrateComplete
  \/ CoverHashTable \/ EndMigration \/ PushBuild

BuilderThread ==
  \/ RebuildTooFew \/ RebuildNoMaster \/ RebuildQuick \/ RebuildError
  \/ \E dest \in [Bucket -> [Line -> upnode_list]] : RebuildPublish(dest)

MarkThread == (\E b \in Bucket : MarkBucket(b)) \/ CountBucket

Operator ==
  \/ \E s \in Server : ForceDown(s) \/ ForceUp(s)
  \/ LoadGroupFile

Failure == (\E s \in Server : GoSilent(s)) \/ Restart

\* Packets of data servers with any content, on the current or an old version.
Packets ==
  \E s \in Server :
    \/ HeartbeatRefused(s)
    \/ \E v \in {server_version - 1, server_version} :
         \/ Heartbeat(s, v)
         \/ \E bs \in SUBSET Bucket : HeartbeatReport(s, v, bs)
         \/ \E b \in Bucket : FinishMigrate(s, v, b)

Next ==
  \/ StatusThread \/ BuilderThread \/ MarkThread \/ Operator \/ Failure \/ Packets

Spec == Init /\ [][Next]_vars

-----------------------------------------------------------------------------
(* Properties.                                                             *)

FileType ==
  /\ hash_table \in Table
  /\ m_hash_table \in Table
  /\ d_hash_table \in Table
  /\ client_version \in Nat
  /\ server_version \in Nat
  /\ migrate_block_count \in Int

GroupType ==
  /\ deflated \in [hash : Table, dest : Table]
  /\ migrate_machine \in [Server -> Nat]
  /\ reported_serverid \in SUBSET Server
  /\ available_server \in SUBSET Server
  /\ need_rebuild_hash_table \in {"no", "timed", "forced"}
  /\ group_can_work \in BOOLEAN
  /\ group_is_OK \in BOOLEAN

NodesType ==
  /\ status \in [Server -> {"ALIVE", "DOWN", "FORCE_DOWN"}]
  /\ silence \in [Server -> 0 .. 2]

CheckerType ==
  /\ status_pc \in {"scan", "check", "bumped", "covered", "push"}
  /\ change_group \in BOOLEAN

BuilderType ==
  /\ group_need_build \in Nat
  /\ building \in BOOLEAN
  /\ upnode_list \in SUBSET Server
  /\ first_run \in BOOLEAN
  /\ quick_table \in Table

MarkerType ==
  /\ mark_server \in Server \cup {NoServer}
  /\ mark_todo \in SUBSET Bucket
  /\ mark_ret \in BOOLEAN
  /\ MarkerIdle \/ mark_server \in Server

\* The type invariant, in one part per group of variables.  A handler that is
\* marking buckets works for a data server; no entry of migrate_machine and no
\* length of the builder's queue is negative.
TypeOK ==
  /\ FileType /\ GroupType /\ NodesType /\ CheckerType /\ BuilderType /\ MarkerType
  /\ running \in BOOLEAN
  /\ disturbances \in 0 .. MaxDisturbances

\* The buckets whose migration has not been reported, and those of one master.
Unfinished == {b \in Bucket : m_hash_table[b] # d_hash_table[b]}
UnfinishedOf(s) == {b \in Unfinished : m_hash_table[b][0] = s}

\* migrate_machine counts, for every master, exactly the buckets it has not
\* finished (and the one being marked), through every interleaving of finish
\* packets, reports, rebuilds, completions and restarts.  The one exception:
\* hard_check_migrate_complete may clear it while the last bucket is marked.
MachineExact ==
  running =>
    \/ \A s \in Server :
         migrate_machine[s] = Cardinality(UnfinishedOf(s))
                              + (IF mark_ret /\ mark_server = s THEN 1 ELSE 0)
    \/ mark_ret /\ Unfinished = {} /\ migrate_machine = Nobody

\* The persistent block count never drops below the number of unfinished
\* buckets, so that the constructor, which restores migrate_machine only when
\* the count is positive, never forgets one after a crash at any point.
BlockCountCovers ==
  Unfinished # {} => migrate_block_count >= Cardinality(Unfinished)

\* The assertion of check_migrate_complete (m equals d once no machine is left
\* migrating) cannot fail.
NoMachineMeansDone ==
  running /\ is_migrating /\ migrate_machine = Nobody => Unfinished = {}

\* What the comment in rebuild says of the three tables: a row of m is the row
\* in use or the row of the destination, and with no migration under way the
\* table in use is the destination.
StateBetweenTables ==
  /\ \A b \in Bucket : m_hash_table[b] \in {hash_table[b], d_hash_table[b]}
  /\ ~is_migrating => hash_table = d_hash_table

\* The four together: through every interleaving of finish packets, reports,
\* rebuilds, completions and restarts, what the config server has written down
\* about a migration (migrate_machine, the block count, m between the two other
\* tables) is what remains to be migrated.
MigrationTracked ==
  MachineExact /\ BlockCountCovers /\ NoMachineMeansDone /\ StateBetweenTables

-----------------------------------------------------------------------------
(* The inductive invariant behind these properties.                        *)

\* fill_migrate_machine would count every unfinished bucket.
UnfinishedSeen ==
  \A b \in Bucket : m_hash_table[b] # d_hash_table[b]
                    => MigrateThisBucket(m_hash_table[b], d_hash_table[b])

\* The block count still includes a bucket that is marked and not counted.
BlockCountKept ==
  /\ Unfinished # {} =>
       migrate_block_count >= Cardinality(Unfinished) + (IF mark_ret THEN 1 ELSE 0)
  /\ mark_ret => migrate_block_count >= 1 \/ migrate_block_count = -1

\* What the status thread knows between its check and the end of a migration.
CheckerKnows ==
  /\ status_pc \in {"bumped", "covered"} => Unfinished = {}
  /\ status_pc = "covered" => hash_table = d_hash_table

\* What the builder thread knows while it has let the lock go.
BuilderKnows ==
  building =>
    /\ first_run => Unfinished = {}
    /\ ~first_run /\ DataNeedMove /\ CopyCount > 1 =>
         \A b \in Bucket : quick_table[b][0] \in Server

\* The counters, the tables and what each thread knows of them agree in a way
\* every step of every thread preserves: the reason why the counters can be
\* trusted across the two places where rebuild and set_migrating_hashtable let
\* other threads in.
Bookkeeping ==
  /\ MachineExact /\ UnfinishedSeen /\ BlockCountKept
  /\ StateBetweenTables /\ CheckerKnows /\ BuilderKnows

-----------------------------------------------------------------------------
\* A rebuild is asked for, queued, or about to be queued.
RebuildPending ==
  \/ need_rebuild_hash_table # "no"
  \/ change_group
  \/ group_need_build > 0

\* No change of a server is forgotten between check_server_status, which
\* withdraws requests it did not see, and the builder thread: a server that
\* came or went since the last look at the servers has a rebuild pending.
NoServerForgotten ==
  running /\ ~RebuildPending =>
    \A s \in Server :
      /\ status[s] = "ALIVE" => s \in available_server
      /\ status[s] = "DOWN" => s \notin available_server

\* The destination changes only under a new version: a finish packet that
\* passes the version check of do_finish_migrate is about this destination.
DestFixedByVersion ==
  [][d_hash_table' # d_hash_table => server_version' > server_version]_vars

-----------------------------------------------------------------------------
(* What the code says of itself and does not keep.                         *)

\* The assertion of set_migrating_hashtable: the machine whose bucket was just
\* marked is in migrate_machine.  hard_check_migrate_complete, which does not
\* take hash_table_set_mutex, can clear it between the mark and the count.
MarkedMachineKnown == running /\ mark_ret => migrate_machine[mark_server] > 0

=============================================================================
