-------------------------- MODULE GroupInfo_proofs --------------------------
(***************************************************************************)
(* Proofs about GroupInfo, for every set of servers and buckets and every  *)
(* number of copies.                                                       *)
(***************************************************************************)
EXTENDS GroupInfo, FiniteSetTheorems, TLAPS

\* Zenon proves the leaves that do not ask for SMT.
USE ZenonT(60)

-----------------------------------------------------------------------------
(* Facts about the operators.                                              *)

\* inc_version only moves a version forward.
LEMMA IncVersionGrows ==
  ASSUME NEW v \in Nat, NEW step \in Nat \ {0}
  PROVE  IncVersion(v, step) \in Nat /\ IncVersion(v, step) > v
BY SMTT(60), GroupAssumption DEF IncVersion

LEMMA BothVersionsGrow ==
  ASSUME client_version \in Nat, server_version \in Nat,
         NEW step \in Nat \ {0}, IncBothVersions(step)
  PROVE  client_version' \in Nat /\ server_version' \in Nat /\ server_version' > server_version
BY IncVersionGrows DEF IncBothVersions

\* The lines of a row are there, line 0 among them.
LEMMA LineZero == 0 \in Line
BY SMTT(60), GroupAssumption DEF Line

LEMMA EmptyTableType == EmptyRow \in Row /\ EmptyTable \in Table
BY DEF EmptyRow, EmptyTable, Row, Table

LEMMA NobodyType == Nobody \in [Server -> Nat]
BY DEF Nobody

\* fill_migrate_machine yields a count for every server.
LEMMA FillType ==
  ASSUME NEW m \in Table, NEW d \in Table
  PROVE  FillMigrateMachine(m, d) \in [Server -> Nat]
<1>1. \A s \in Server : Cardinality({b \in MigrateSet(m, d) : m[b][0] = s}) \in Nat
  <2>. TAKE s \in Server
  <2>1. {b \in MigrateSet(m, d) : m[b][0] = s} \subseteq Bucket
    BY DEF MigrateSet
  <2>. QED BY <2>1, GroupAssumption, FS_Subset, FS_CardinalityType
<1>. QED BY <1>1 DEF FillMigrateMachine

\* build_quick_table turns rows into rows, and the new master is available.
LEMMA QuickRowType ==
  ASSUME NEW row \in Row, NEW up \in SUBSET Server, NEW k \in MasterLines(row, up)
  PROVE  /\ QuickRow(row, up, k) \in Row
         /\ QuickRow(row, up, k)[0] \in up
<1>1. k \in Line /\ row[k] \in up
  BY LineZero DEF MasterLines
<1>. QED BY <1>1, LineZero DEF QuickRow, Row

-----------------------------------------------------------------------------
(* Type correctness.                                                       *)

LEMMA InitType == Init => TypeOK
<1>. SUFFICES ASSUME Init PROVE TypeOK
  OBVIOUS
<1>1. FileType
  BY SMTT(60), EmptyTableType, GroupAssumption DEF Init, FileType
<1>2. GroupType
  BY EmptyTableType, NobodyType DEF Init, GroupType
<1>3. NodesType
  BY SMTT(60) DEF Init, NodesType
<1>7. CheckerType
  BY DEF Init, CheckerType
<1>4. BuilderType
  BY EmptyTableType DEF Init, BuilderType
<1>5. MarkerType
  BY DEF Init, MarkerType, MarkerIdle
<1>6. running \in BOOLEAN /\ disturbances \in 0 .. MaxDisturbances
  BY SMTT(60), GroupAssumption DEF Init
<1>. QED BY <1>1, <1>2, <1>3, <1>4, <1>5, <1>6, <1>7 DEF TypeOK

\* A group of variables that does not change keeps its type.
LEMMA UnchangedTypes ==
  /\ FileType /\ UNCHANGED file => FileType'
  /\ GroupType /\ UNCHANGED group => GroupType'
  /\ NodesType /\ UNCHANGED nodes => NodesType'
  /\ CheckerType /\ UNCHANGED checker => CheckerType'
  /\ BuilderType /\ UNCHANGED builder => BuilderType'
  /\ MarkerType /\ UNCHANGED marker => MarkerType'
<1>1. FileType /\ UNCHANGED file => FileType'
  BY DEF FileType, file
<1>2. GroupType /\ UNCHANGED group => GroupType'
  BY DEF GroupType, group
<1>3. NodesType /\ UNCHANGED nodes => NodesType'
  BY DEF NodesType, nodes
<1>4. CheckerType /\ UNCHANGED checker => CheckerType'
  BY DEF CheckerType, checker
<1>5. BuilderType /\ UNCHANGED builder => BuilderType'
  BY DEF BuilderType, builder
<1>6. MarkerType /\ UNCHANGED marker => MarkerType'
  BY SMTT(60) DEF MarkerType, marker, MarkerIdle
<1>. QED BY <1>1, <1>2, <1>3, <1>4, <1>5, <1>6

LEMMA StatusThreadType == TypeOK /\ StatusThread => TypeOK'
<1>. SUFFICES ASSUME TypeOK, StatusThread PROVE TypeOK'
  OBVIOUS
<1>1. CASE ScanServers
  <2>1. NodesType' /\ CheckerType'
    BY <1>1 DEF TypeOK, ScanServers, NodesType, CheckerType
  <2>. QED BY <1>1, <2>1, UnchangedTypes DEF TypeOK, ScanServers
<1>2. CASE CheckMigrateWait
  <2>1. GroupType' /\ CheckerType'
    BY <1>2, NobodyType DEF TypeOK, CheckMigrateWait, HardCheck, GroupType, CheckerType
  <2>. QED BY <1>2, <2>1, UnchangedTypes DEF TypeOK, CheckMigrateWait
<1>3. CASE CheckMigrateComplete
  <2>1. GroupType'
    BY <1>3, NobodyType DEF TypeOK, CheckMigrateComplete, HardCheck, GroupType
  <2>2. FileType'
    <3>1. client_version' \in Nat /\ server_version' \in Nat
      <4>1. CASE m_hash_table = d_hash_table
        <5>1. IncBothVersions(1)
          BY <1>3, <4>1 DEF CheckMigrateComplete
        <5>. QED BY SMTT(60), <5>1, BothVersionsGrow DEF TypeOK, FileType
      <4>2. CASE m_hash_table # d_hash_table
        BY <1>3, <4>2 DEF CheckMigrateComplete, TypeOK, FileType
      <4>. QED BY <4>1, <4>2
    <3>. QED BY <1>3, <3>1 DEF TypeOK, CheckMigrateComplete, FileType
  <2>3. CheckerType' /\ running' \in BOOLEAN
    BY <1>3 DEF TypeOK, CheckMigrateComplete, CheckerType
  <2>. QED BY <1>3, <2>1, <2>2, <2>3, UnchangedTypes DEF TypeOK, CheckMigrateComplete
<1>4. CASE CoverHashTable
  <2>1. FileType' /\ GroupType' /\ CheckerType'
    BY <1>4 DEF TypeOK, CoverHashTable, FileType, GroupType, CheckerType
  <2>. QED BY <1>4, <2>1, UnchangedTypes DEF TypeOK, CoverHashTable
<1>5. CASE EndMigration
  <2>1. FileType' /\ GroupType' /\ CheckerType'
    BY SMTT(60), <1>5 DEF TypeOK, EndMigration, FileType, GroupType, CheckerType
  <2>. QED BY <1>5, <2>1, UnchangedTypes DEF TypeOK, EndMigration
<1>6. CASE PushBuild
  <2>1. GroupType'
    BY <1>6 DEF TypeOK, PushBuild, RequestAfterPush, GroupType
  <2>2. CheckerType'
    BY <1>6 DEF TypeOK, PushBuild, CheckerType
  <2>3. BuilderType'
    BY SMTT(60), <1>6 DEF TypeOK, PushBuild, BuilderType
  <2>. QED BY <1>6, <2>1, <2>2, <2>3, UnchangedTypes DEF TypeOK, PushBuild
<1>. QED BY <1>1, <1>2, <1>3, <1>4, <1>5, <1>6 DEF StatusThread

\* The rows of a table that build_quick_table makes.
LEMMA QuickTableType ==
  ASSUME NEW m \in Table, NEW up \in SUBSET Server, NEW k \in [Bucket -> Line],
         \A b \in Bucket : k[b] \in MasterLines(m[b], up)
  PROVE  /\ [b \in Bucket |-> QuickRow(m[b], up, k[b])] \in Table
         /\ \A b \in Bucket : QuickRow(m[b], up, k[b])[0] \in up
<1>1. \A b \in Bucket : QuickRow(m[b], up, k[b]) \in Row /\ QuickRow(m[b], up, k[b])[0] \in up
  BY QuickRowType DEF Table
<1>. QED BY <1>1 DEF Table

LEMMA NewStartType ==
  ASSUME NEW dest \in Table, quick_table \in Table
  PROVE  NewStart(dest) \in Table
<1>1. [b \in Bucket |-> IF quick_table[b][0] \in available_server
                        THEN quick_table[b] ELSE dest[b]] \in Table
  BY DEF Table
<1>. QED BY <1>1 DEF NewStart

LEMMA DestTableType ==
  ASSUME NEW dest, NEW quick, NEW up \in SUBSET Server, DestTable(dest, quick, up)
  PROVE  dest \in Table
BY DEF DestTable, Table, Row

LEMMA TakeGroupType ==
  ASSUME TypeOK, TakeGroup, UNCHANGED silence
  PROVE  /\ group_need_build' \in Nat
         /\ NodesType'
         /\ available_server' \in SUBSET Server
<1>1. group_need_build' \in Nat
  BY SMTT(60) DEF TypeOK, TakeGroup, BuilderType
<1>2. NodesType'
  BY DEF TypeOK, TakeGroup, NodesType
<1>3. available_server' \in SUBSET Server
  BY DEF TakeGroup, UpNodes
<1>. QED BY <1>1, <1>2, <1>3

LEMMA DropTablesType ==
  ASSUME DropTables, group_need_build' \in Nat
  PROVE  BuilderType'
BY EmptyTableType DEF DropTables, BuilderType

LEMMA BuilderThreadType == TypeOK /\ BuilderThread => TypeOK'
<1>. SUFFICES ASSUME TypeOK, BuilderThread PROVE TypeOK'
  OBVIOUS
<1>1. CASE RebuildTooFew
  <2>1. NodesType' /\ group_need_build' \in Nat /\ available_server' \in SUBSET Server
    BY <1>1, TakeGroupType DEF RebuildTooFew
  <2>2. client_version' \in Nat /\ server_version' \in Nat
    BY SMTT(60), <1>1, BothVersionsGrow DEF RebuildTooFew, TypeOK, FileType
  <2>3. FileType' /\ GroupType' /\ BuilderType'
    BY <1>1, <2>1, <2>2 DEF RebuildTooFew, TypeOK, FileType, GroupType, BuilderType
  <2>. QED BY <1>1, <2>1, <2>3, UnchangedTypes DEF RebuildTooFew, TypeOK
<1>2. CASE RebuildNoMaster
  <2>1. NodesType' /\ group_need_build' \in Nat /\ available_server' \in SUBSET Server
    BY <1>2, TakeGroupType DEF RebuildNoMaster
  <2>2. client_version' \in Nat /\ server_version' \in Nat
    BY SMTT(60), <1>2, BothVersionsGrow DEF RebuildNoMaster, TypeOK, FileType
  <2>3. FileType' /\ BuilderType'
    BY <1>2, <2>1, <2>2 DEF RebuildNoMaster, TypeOK, FileType, BuilderType
  <2>4. GroupType'
    BY <1>2, <2>1 DEF RebuildNoMaster, TypeOK, GroupType
  <2>. QED BY <1>2, <2>1, <2>3, <2>4, UnchangedTypes DEF RebuildNoMaster, TypeOK
<1>3. CASE RebuildQuick
  <2>1. NodesType' /\ group_need_build' \in Nat /\ available_server' \in SUBSET Server
    BY <1>3, TakeGroupType DEF RebuildQuick
  <2>2. UpNodes \in SUBSET Server
    BY DEF UpNodes
  <2>3. quick_table' \in Table
    <3>1. CASE NeedQuickTable
      <4>1. PICK k \in [Bucket -> Line] :
              /\ \A b \in Bucket : k[b] \in MasterLines(m_hash_table[b], UpNodes)
              /\ quick_table' = [b \in Bucket |-> QuickRow(m_hash_table[b], UpNodes, k[b])]
        BY <1>3, <3>1 DEF RebuildQuick
      <4>. QED BY <4>1, <2>2, QuickTableType DEF TypeOK, FileType
    <3>2. CASE ~NeedQuickTable
      BY <1>3, <3>2 DEF RebuildQuick, TypeOK, FileType
    <3>. QED BY <3>1, <3>2
  <2>4. GroupType'
    BY <1>3, <2>1 DEF RebuildQuick, TypeOK, GroupType
  <2>5. first_run' \in BOOLEAN /\ building' \in BOOLEAN
    BY <1>3 DEF RebuildQuick, IsFirstRun
  <2>6. BuilderType'
    BY <1>3, <2>1, <2>2, <2>3, <2>5 DEF RebuildQuick, BuilderType
  <2>. QED BY <1>3, <2>1, <2>4, <2>6, UnchangedTypes DEF RebuildQuick, TypeOK
<1>4. CASE RebuildError
  <2>1. BuilderType'
    BY <1>4, DropTablesType DEF RebuildError, TypeOK, BuilderType
  <2>2. client_version' \in Nat /\ server_version' \in Nat
    BY SMTT(60), <1>4, BothVersionsGrow DEF RebuildError, TypeOK, FileType
  <2>3. FileType'
    BY <1>4, <2>2 DEF RebuildError, TypeOK, FileType
  <2>4. GroupType'
    BY <1>4 DEF RebuildError, TypeOK, GroupType
  <2>. QED BY <1>4, <2>1, <2>3, <2>4, UnchangedTypes DEF RebuildError, TypeOK
<1>5. ASSUME NEW dest \in [Bucket -> [Line -> upnode_list]], RebuildPublish(dest)
      PROVE  TypeOK'
  <2>1. dest \in Table
    BY <1>5, DestTableType DEF RebuildPublish, TypeOK, BuilderType
  <2>2. NewStart(dest) \in Table
    BY <2>1, NewStartType DEF TypeOK, BuilderType
  <2>3. BuilderType'
    BY <1>5, DropTablesType DEF RebuildPublish, TypeOK, BuilderType
  <2>4. client_version' \in Nat /\ server_version' \in Nat
    BY SMTT(60), <1>5, BothVersionsGrow DEF RebuildPublish, TypeOK, FileType
  <2>5. migrate_block_count' \in Int
    <3>1. MigrateSet(NewStart(dest), dest) \subseteq Bucket
      BY DEF MigrateSet
    <3>2. Cardinality(MigrateSet(NewStart(dest), dest)) \in Nat
      BY <3>1, GroupAssumption, FS_Subset, FS_CardinalityType
    <3>. QED BY SMTT(60), <1>5, <3>2 DEF RebuildPublish
  <2>6. FileType'
    BY <1>5, <2>1, <2>2, <2>4, <2>5 DEF RebuildPublish, FileType
  <2>7. migrate_machine' \in [Server -> Nat]
    BY <1>5, <2>1, <2>2, FillType DEF RebuildPublish, TypeOK, GroupType
  <2>8. GroupType'
    BY <1>5, <2>1, <2>2, <2>7 DEF RebuildPublish, TypeOK, GroupType
  <2>. QED BY <1>5, <2>3, <2>6, <2>8, UnchangedTypes DEF RebuildPublish, TypeOK
<1>. QED BY <1>1, <1>2, <1>3, <1>4, <1>5 DEF BuilderThread

LEMMA MarkThreadType == TypeOK /\ MarkThread => TypeOK'
<1>. SUFFICES ASSUME TypeOK, MarkThread PROVE TypeOK'
  OBVIOUS
<1>1. ASSUME NEW b \in Bucket, MarkBucket(b) PROVE TypeOK'
  <2>1. m_hash_table' \in Table
    BY <1>1 DEF MarkBucket, MarkedRow, TypeOK, FileType, Table
  <2>2. FileType'
    BY <1>1, <2>1 DEF MarkBucket, TypeOK, FileType
  <2>3. mark_server \in Server
    BY <1>1 DEF MarkBucket, TypeOK, MarkerType, MarkerIdle
  <2>4. mark_ret' \in BOOLEAN
    BY <1>1 DEF MarkBucket, RowChanges, TypeOK, MarkerType
  <2>5. mark_todo' \in SUBSET Bucket
    BY <1>1 DEF MarkBucket, TypeOK, MarkerType
  <2>6. MarkerType'
    BY <1>1, <2>3, <2>4, <2>5 DEF MarkBucket, MarkerType, MarkerIdle
  <2>. QED BY <1>1, <2>2, <2>6, UnchangedTypes DEF MarkBucket, TypeOK
<1>2. CASE CountBucket
  <2>1. mark_server \in Server
    BY <1>2 DEF CountBucket, TypeOK, MarkerType, MarkerIdle
  <2>2. FileType'
    BY SMTT(60), <1>2 DEF CountBucket, TypeOK, FileType
  <2>3. migrate_machine' \in [Server -> Nat]
    <3>1. migrate_machine \in [Server -> Nat] /\ migrate_machine[mark_server] \in Nat
      BY <2>1 DEF TypeOK, GroupType
    <3>2. CASE MachineMissing
      BY <1>2, <3>1, <3>2 DEF CountBucket
    <3>3. CASE ~MachineMissing
      <4>1. migrate_machine[mark_server] - 1 \in Nat
        BY SMTT(60), <3>1, <3>3 DEF MachineMissing
      <4>. QED BY <1>2, <3>1, <3>3, <4>1 DEF CountBucket
    <3>. QED BY <3>2, <3>3
  <2>4. GroupType'
    BY <1>2, <2>3 DEF CountBucket, TypeOK, GroupType
  <2>5. MarkerType'
    BY <1>2, <2>1 DEF CountBucket, TypeOK, MarkerType, MarkerIdle
  <2>6. running' \in BOOLEAN
    BY <1>2 DEF CountBucket, TypeOK
  <2>. QED BY <1>2, <2>2, <2>4, <2>5, <2>6, UnchangedTypes DEF CountBucket, TypeOK
<1>. QED BY <1>1, <1>2 DEF MarkThread

LEMMA DisturbType ==
  ASSUME disturbances \in 0 .. MaxDisturbances, Disturb
  PROVE  disturbances' \in 0 .. MaxDisturbances
BY SMTT(60), GroupAssumption DEF Disturb

LEMMA OperatorType == TypeOK /\ Operator => TypeOK'
<1>. SUFFICES ASSUME TypeOK, Operator PROVE TypeOK'
  OBVIOUS
<1>1. ASSUME NEW s \in Server, ForceDown(s) PROVE TypeOK'
  <2>1. NodesType'
    BY <1>1 DEF ForceDown, TypeOK, NodesType
  <2>2. disturbances' \in 0 .. MaxDisturbances
    BY <1>1, DisturbType DEF ForceDown, TypeOK
  <2>. QED BY <1>1, <2>1, <2>2, UnchangedTypes DEF ForceDown, TypeOK
<1>2. ASSUME NEW s \in Server, ForceUp(s) PROVE TypeOK'
  <2>1. NodesType'
    BY SMTT(60), <1>2 DEF ForceUp, TypeOK, NodesType
  <2>2. GroupType'
    BY <1>2 DEF ForceUp, TypeOK, GroupType
  <2>3. disturbances' \in 0 .. MaxDisturbances
    BY <1>2, DisturbType DEF ForceUp, TypeOK
  <2>. QED BY <1>2, <2>1, <2>2, <2>3, UnchangedTypes DEF ForceUp, TypeOK
<1>3. CASE LoadGroupFile
  <2>1. NodesType'
    BY <1>3 DEF LoadGroupFile, TypeOK, NodesType
  <2>2. GroupType'
    BY <1>3 DEF LoadGroupFile, TypeOK, GroupType
  <2>3. client_version' \in Nat /\ server_version' \in Nat
    BY SMTT(60), <1>3, BothVersionsGrow DEF LoadGroupFile, TypeOK, FileType
  <2>4. FileType'
    BY <1>3, <2>3 DEF LoadGroupFile, TypeOK, FileType
  <2>5. disturbances' \in 0 .. MaxDisturbances
    BY <1>3, DisturbType DEF LoadGroupFile, TypeOK
  <2>. QED BY <1>3, <2>1, <2>2, <2>4, <2>5, UnchangedTypes DEF LoadGroupFile, TypeOK
<1>. QED BY <1>1, <1>2, <1>3 DEF Operator

LEMMA FailureType == TypeOK /\ Failure => TypeOK'
<1>. SUFFICES ASSUME TypeOK, Failure PROVE TypeOK'
  OBVIOUS
<1>1. ASSUME NEW s \in Server, GoSilent(s) PROVE TypeOK'
  <2>1. NodesType'
    BY SMTT(60), <1>1 DEF GoSilent, TypeOK, NodesType
  <2>2. disturbances' \in 0 .. MaxDisturbances
    BY <1>1, DisturbType DEF GoSilent, TypeOK
  <2>. QED BY <1>1, <2>1, <2>2, UnchangedTypes DEF GoSilent, TypeOK
<1>2. CASE Restart
  <2>1. FileType'
    BY <1>2, UnchangedTypes DEF Restart, TypeOK
  <2>2. migrate_machine' \in [Server -> Nat]
    BY <1>2, FillType, NobodyType DEF Restart, TypeOK, FileType
  <2>3. GroupType'
    BY <1>2, <2>2 DEF Restart, TypeOK, FileType, GroupType
  <2>4. NodesType'
    BY <1>2 DEF Restart, TypeOK, NodesType
  <2>5. CheckerType'
    BY <1>2 DEF Restart, CheckerType
  <2>6. BuilderType'
    BY <1>2, DropTablesType DEF Restart
  <2>7. MarkerType'
    BY <1>2 DEF Restart, MarkerType, MarkerIdle
  <2>8. disturbances' \in 0 .. MaxDisturbances
    BY <1>2, DisturbType DEF Restart, TypeOK
  <2>. QED BY <1>2, <2>1, <2>3, <2>4, <2>5, <2>6, <2>7, <2>8 DEF Restart, TypeOK
<1>. QED BY <1>1, <1>2 DEF Failure

LEMMA HeardOfType ==
  ASSUME TypeOK, NEW s \in Server, HeardOf(s)
  PROVE  NodesType' /\ need_rebuild_hash_table' \in {"no", "timed", "forced"}
BY SMTT(60) DEF HeardOf, TypeOK, NodesType, GroupType

LEMMA PacketsType == TypeOK /\ Packets => TypeOK'
<1>. SUFFICES ASSUME TypeOK, NEW s \in Server,
                     \/ HeartbeatRefused(s)
                     \/ \E v \in {server_version - 1, server_version} :
                          \/ Heartbeat(s, v)
                          \/ \E bs \in SUBSET Bucket : HeartbeatReport(s, v, bs)
                          \/ \E b \in Bucket : FinishMigrate(s, v, b)
              PROVE  TypeOK'
  BY DEF Packets
<1>1. CASE HeartbeatRefused(s)
  <2>1. client_version' \in Nat /\ server_version' \in Nat
    BY <1>1, BothVersionsGrow, GroupAssumption DEF HeartbeatRefused, TypeOK, FileType
  <2>2. FileType'
    BY <1>1, <2>1 DEF HeartbeatRefused, TypeOK, FileType
  <2>3. GroupType'
    BY <1>1 DEF HeartbeatRefused, TypeOK, GroupType
  <2>4. NodesType'
    BY SMTT(60), <1>1 DEF HeartbeatRefused, TypeOK, NodesType
  <2>5. disturbances' \in 0 .. MaxDisturbances
    BY <1>1, DisturbType DEF HeartbeatRefused, TypeOK
  <2>. QED BY <1>1, <2>2, <2>3, <2>4, <2>5, UnchangedTypes DEF HeartbeatRefused, TypeOK
<1>2. ASSUME NEW v, Heartbeat(s, v) PROVE TypeOK'
  <2>1. NodesType' /\ need_rebuild_hash_table' \in {"no", "timed", "forced"}
    BY <1>2, HeardOfType DEF Heartbeat
  <2>2. GroupType'
    BY <1>2, <2>1 DEF Heartbeat, TypeOK, GroupType
  <2>. QED BY <1>2, <2>1, <2>2, UnchangedTypes DEF Heartbeat, TypeOK
<1>3. ASSUME NEW v, NEW bs \in SUBSET Bucket, HeartbeatReport(s, v, bs) PROVE TypeOK'
  <2>1. NodesType' /\ need_rebuild_hash_table' \in {"no", "timed", "forced"}
    BY <1>3, HeardOfType DEF HeartbeatReport
  <2>2. GroupType'
    BY <1>3, <2>1 DEF HeartbeatReport, TypeOK, GroupType
  <2>3. MarkerType'
    BY <1>3 DEF HeartbeatReport, TypeOK, MarkerType, MarkerIdle
  <2>. QED BY <1>3, <2>1, <2>2, <2>3, UnchangedTypes DEF HeartbeatReport, TypeOK
<1>4. ASSUME NEW v, NEW b \in Bucket, FinishMigrate(s, v, b) PROVE TypeOK'
  <2>1. MarkerType'
    BY <1>4 DEF FinishMigrate, TypeOK, MarkerType, MarkerIdle
  <2>. QED BY <1>4, <2>1, UnchangedTypes DEF FinishMigrate, TypeOK
<1>. QED BY <1>1, <1>2, <1>3, <1>4

LEMMA NextType == TypeOK /\ [Next]_vars => TypeOK'
<1>. SUFFICES ASSUME TypeOK, [Next]_vars PROVE TypeOK'
  OBVIOUS
<1>1. CASE UNCHANGED vars
  BY <1>1, UnchangedTypes DEF vars, TypeOK
<1>. QED BY <1>1, StatusThreadType, BuilderThreadType, MarkThreadType,
            OperatorType, FailureType, PacketsType DEF Next

\* Every reachable state of the group is well typed: in particular the count
\* of a machine in migrate_machine is never decremented below zero.
THEOREM TypeCorrect == Spec => []TypeOK
BY InitType, NextType, PTL DEF Spec

-----------------------------------------------------------------------------
(* Servers that come and go are not forgotten, and a version of the table  *)
(* names one destination.                                                  *)

\* The status thread has pushed what it found before it looks again.
ScanClean == status_pc = "scan" => ~change_group

ServersKept == ScanClean /\ NoServerForgotten

\* The steps after which nothing is forgotten that was not before.
LEMMA RequestKept ==
  ASSUME ServersKept,
         running' => running,
         UNCHANGED checker,
         RebuildPending => RebuildPending',
         RebuildPending' \/ UNCHANGED <<status, available_server>>
  PROVE  ServersKept'
BY DEF ServersKept, ScanClean, NoServerForgotten, checker

LEMMA TakeGroupKept ==
  ASSUME ServersKept, TypeOK, TakeGroup, UNCHANGED checker
  PROVE  ServersKept'
<1>1. ASSUME NEW s \in Server
      PROVE  /\ status'[s] = "ALIVE" => s \in available_server'
             /\ status'[s] = "DOWN" => s \notin available_server'
  BY DEF TakeGroup, UpNodes, IsUp, TypeOK, NodesType
<1>. QED BY <1>1 DEF ServersKept, ScanClean, NoServerForgotten, checker

LEMMA NextServersKept == TypeOK /\ ServersKept /\ [Next]_vars => ServersKept'
<1>. SUFFICES ASSUME TypeOK, ServersKept, [Next]_vars PROVE ServersKept'
  OBVIOUS
<1>. USE DEF RebuildPending
<1>1. CASE UNCHANGED vars
  BY <1>1, RequestKept DEF vars, group, nodes, checker, builder
<1>2. CASE StatusThread
  <2>1. CASE ScanServers
    <3>1. CASE \E s \in Server : (status[s] = "ALIVE" /\ silence[s] = 2) \/ status[s] = "FORCE_DOWN"
      <4>1. change_group' = TRUE /\ status_pc' = "check"
        BY <2>1, <3>1 DEF ScanServers
      <4>. QED BY <4>1 DEF ServersKept, ScanClean, NoServerForgotten
    <3>2. CASE ~\E s \in Server : (status[s] = "ALIVE" /\ silence[s] = 2) \/ status[s] = "FORCE_DOWN"
      <4>1. status' = status
        BY <2>1, <3>2 DEF ScanServers, TypeOK, NodesType
      <4>2. ~change_group /\ status_pc' = "check" /\ UNCHANGED <<available_server, need_rebuild_hash_table, group_need_build, running>>
        BY <2>1 DEF ScanServers, ServersKept, ScanClean, group, builder
      <4>. QED BY <4>1, <4>2 DEF ServersKept, ScanClean, NoServerForgotten
    <3>. QED BY <3>1, <3>2
  <2>2. CASE CheckMigrateWait
    BY <2>2 DEF CheckMigrateWait, ServersKept, ScanClean, NoServerForgotten, nodes, builder
  <2>3. CASE CheckMigrateComplete
    BY <2>3 DEF CheckMigrateComplete, ServersKept, ScanClean, NoServerForgotten, nodes, builder
  <2>4. CASE CoverHashTable
    BY <2>4 DEF CoverHashTable, ServersKept, ScanClean, NoServerForgotten, nodes, builder
  <2>5. CASE EndMigration
    BY <2>5 DEF EndMigration, ServersKept, ScanClean, NoServerForgotten, nodes, builder
  <2>6. CASE PushBuild
    <3>1. UNCHANGED <<status, available_server, running>> /\ ~change_group' /\ status_pc' = "scan"
      BY <2>6 DEF PushBuild, nodes
    <3>2. CASE change_group
      <4>1. group_need_build' > 0
        BY SMTT(60), <2>6, <3>2 DEF PushBuild, TypeOK, BuilderType
      <4>. QED BY <3>1, <4>1 DEF ServersKept, ScanClean, NoServerForgotten
    <3>3. CASE ~change_group
      <4>1. UNCHANGED <<group_need_build, need_rebuild_hash_table>>
        BY <2>6, <3>3 DEF PushBuild, RequestAfterPush
      <4>. QED BY <3>1, <3>3, <4>1 DEF ServersKept, ScanClean, NoServerForgotten
    <3>. QED BY <3>2, <3>3
  <2>. QED BY <1>2, <2>1, <2>2, <2>3, <2>4, <2>5, <2>6 DEF StatusThread
<1>3. CASE BuilderThread
  <2>1. CASE RebuildTooFew \/ RebuildNoMaster \/ RebuildQuick
    BY <2>1, TakeGroupKept DEF RebuildTooFew, RebuildNoMaster, RebuildQuick
  <2>2. CASE RebuildError
    BY <2>2, RequestKept DEF RebuildError, nodes, checker
  <2>3. ASSUME NEW dest \in [Bucket -> [Line -> upnode_list]], RebuildPublish(dest)
        PROVE  ServersKept'
    BY <2>3, RequestKept DEF RebuildPublish, nodes, checker
  <2>. QED BY <1>3, <2>1, <2>2, <2>3 DEF BuilderThread
<1>4. CASE MarkThread
  <2>1. ASSUME NEW b \in Bucket, MarkBucket(b) PROVE ServersKept'
    BY <2>1, RequestKept DEF MarkBucket, group, nodes, checker, builder
  <2>2. CASE CountBucket
    BY <2>2, RequestKept DEF CountBucket, nodes, checker, builder
  <2>. QED BY <1>4, <2>1, <2>2 DEF MarkThread
<1>5. CASE Operator
  <2>1. ASSUME NEW s \in Server, ForceDown(s) PROVE ServersKept'
    BY <2>1 DEF ForceDown, ServersKept, ScanClean, NoServerForgotten, TypeOK, NodesType,
                group, checker, builder
  <2>2. ASSUME NEW s \in Server, ForceUp(s) PROVE ServersKept'
    BY <2>2, RequestKept DEF ForceUp, checker, builder
  <2>3. CASE LoadGroupFile
    BY <2>3, RequestKept DEF LoadGroupFile, checker, builder
  <2>. QED BY <1>5, <2>1, <2>2, <2>3 DEF Operator
<1>6. CASE Failure
  <2>1. ASSUME NEW s \in Server, GoSilent(s) PROVE ServersKept'
    BY <2>1, RequestKept DEF GoSilent, group, checker, builder
  <2>2. CASE Restart
    BY <2>2 DEF Restart, ServersKept, ScanClean, NoServerForgotten
  <2>. QED BY <1>6, <2>1, <2>2 DEF Failure
<1>7. CASE Packets
  <2>1. ASSUME NEW s \in Server, HeartbeatRefused(s) PROVE ServersKept'
    BY <2>1, RequestKept DEF HeartbeatRefused, checker, builder
  <2>2. ASSUME NEW s \in Server, NEW v, Heartbeat(s, v) PROVE ServersKept'
    BY <2>2, RequestKept DEF Heartbeat, HeardOf, checker, builder
  <2>3. ASSUME NEW s \in Server, NEW v, NEW bs, HeartbeatReport(s, v, bs) PROVE ServersKept'
    BY <2>3, RequestKept DEF HeartbeatReport, HeardOf, checker, builder
  <2>4. ASSUME NEW s \in Server, NEW v, NEW b, FinishMigrate(s, v, b) PROVE ServersKept'
    BY <2>4, RequestKept DEF FinishMigrate, group, nodes, checker, builder
  <2>. QED BY <1>7, <2>1, <2>2, <2>3, <2>4 DEF Packets
<1>. QED BY <1>1, <1>2, <1>3, <1>4, <1>5, <1>6, <1>7 DEF Next

\* No change of a server is forgotten between the status thread, the packet
\* handlers and the builder thread.
THEOREM ServersCorrect == Spec => []NoServerForgotten
<1>1. Init => ServersKept
  BY DEF Init, ServersKept, ScanClean, NoServerForgotten, RebuildPending
<1>2. ServersKept => NoServerForgotten
  BY DEF ServersKept
<1>. QED BY <1>1, <1>2, NextServersKept, TypeCorrect, PTL DEF Spec

-----------------------------------------------------------------------------
(* Destinations and versions.                                              *)

LEMMA DestStep ==
  TypeOK /\ [Next]_vars => (d_hash_table' # d_hash_table => server_version' > server_version)
<1>. SUFFICES ASSUME TypeOK, [Next]_vars, d_hash_table' # d_hash_table
              PROVE  server_version' > server_version
  OBVIOUS
<1>1. PICK dest \in [Bucket -> [Line -> upnode_list]] : RebuildPublish(dest)
  <2>1. ~UNCHANGED vars
    BY DEF vars, file
  <2>2. ~StatusThread
    BY DEF StatusThread, ScanServers, CheckMigrateWait, CheckMigrateComplete,
           CoverHashTable, EndMigration, PushBuild, file
  <2>3. ~MarkThread
    BY DEF MarkThread, MarkBucket, CountBucket
  <2>4. ~Operator /\ ~Failure
    BY DEF Operator, ForceDown, ForceUp, LoadGroupFile, Failure, GoSilent, Restart, file
  <2>5. ~Packets
    BY DEF Packets, HeartbeatRefused, Heartbeat, HeartbeatReport, FinishMigrate, file
  <2>. QED BY <2>1, <2>2, <2>3, <2>4, <2>5
           DEF Next, BuilderThread, RebuildTooFew, RebuildNoMaster, RebuildQuick, RebuildError, file
<1>. QED BY SMTT(60), <1>1, BothVersionsGrow DEF RebuildPublish, TypeOK, FileType

\* A version of the table names one destination.
THEOREM DestCorrect == Spec => DestFixedByVersion
<1>1. TypeOK /\ [Next]_vars => [d_hash_table' # d_hash_table => server_version' > server_version]_vars
  BY DestStep
<1>. QED BY <1>1, TypeCorrect, PTL DEF Spec, DestFixedByVersion

-----------------------------------------------------------------------------
(* The bookkeeping of a migration agrees with the tables: the invariant    *)
(* Bookkeeping of GroupInfo is inductive, thread by thread.                *)

LEMMA BucketSets ==
  ASSUME NEW S, S \subseteq Bucket
  PROVE  /\ IsFiniteSet(S)
         /\ Cardinality(S) \in Nat
         /\ Cardinality(S) = 0 <=> S = {}
BY GroupAssumption, FS_Subset, FS_CardinalityType, FS_EmptySet

\* A row that is the destination already is not migrated.
LEMMA NothingToMigrate ==
  ASSUME NEW row
  PROVE  ~MigrateThisBucket(row, row)
BY DEF MigrateThisBucket

\* When fill_migrate_machine sees every bucket that differs, it counts exactly
\* the buckets that differ.
LEMMA MigrateSetExact ==
  ASSUME NEW m \in Table, NEW d \in Table,
         \A b \in Bucket : m[b] # d[b] => MigrateThisBucket(m[b], d[b])
  PROVE  /\ MigrateSet(m, d) = {b \in Bucket : m[b] # d[b]}
         /\ FillMigrateMachine(m, d) =
              [s \in Server |-> Cardinality({b \in {c \in Bucket : m[c] # d[c]} : m[b][0] = s})]
<1>1. MigrateSet(m, d) = {b \in Bucket : m[b] # d[b]}
  BY NothingToMigrate DEF MigrateSet
<1>. QED BY <1>1 DEF FillMigrateMachine

LEMMA TablesEqual ==
  ASSUME NEW m \in Table, NEW d \in Table
  PROVE  m = d <=> {b \in Bucket : m[b] # d[b]} = {}
BY SMTT(60) DEF Table

LEMMA InitBookkeeping == Init => Bookkeeping
<1>. SUFFICES ASSUME Init PROVE Bookkeeping
  OBVIOUS
<1>1. Unfinished = {}
  BY DEF Init, Unfinished
<1>2. MachineExact
  <2>1. \A s \in Server : UnfinishedOf(s) = {}
    BY <1>1 DEF UnfinishedOf
  <2>. QED BY SMTT(60), <2>1, FS_EmptySet DEF Init, MachineExact, Nobody
<1>3. UnfinishedSeen /\ StateBetweenTables
  BY DEF Init, UnfinishedSeen, StateBetweenTables
<1>4. BlockCountKept /\ CheckerKnows /\ BuilderKnows
  BY <1>1 DEF Init, BlockCountKept, CheckerKnows, BuilderKnows
<1>. QED BY <1>2, <1>3, <1>4 DEF Bookkeeping

\* The steps that change neither a table nor a counter.
LEMMA QuietStep ==
  ASSUME Bookkeeping,
         UNCHANGED <<hash_table, m_hash_table, d_hash_table, migrate_block_count,
                     migrate_machine, mark_ret, running>>,
         mark_server' = mark_server \/ ~mark_ret,
         status_pc' = status_pc \/ status_pc' \in {"scan", "check", "push"},
         UNCHANGED <<building, first_run, quick_table>>
  PROVE  Bookkeeping'
<1>1. Unfinished' = Unfinished /\ \A s \in Server : UnfinishedOf(s)' = UnfinishedOf(s)
  BY DEF Unfinished, UnfinishedOf
<1>2. MachineExact'
  BY <1>1 DEF Bookkeeping, MachineExact
<1>3. UnfinishedSeen' /\ StateBetweenTables'
  BY DEF Bookkeeping, UnfinishedSeen, StateBetweenTables, is_migrating
<1>4. BlockCountKept'
  BY <1>1 DEF Bookkeeping, BlockCountKept
<1>5. CheckerKnows'
  BY <1>1 DEF Bookkeeping, CheckerKnows
<1>6. BuilderKnows'
  BY <1>1 DEF Bookkeeping, BuilderKnows
<1>. QED BY <1>2, <1>3, <1>4, <1>5, <1>6 DEF Bookkeeping

\* hard_check_migrate_complete leaves the counts exact, or clears the count of
\* the bucket being marked.
LEMMA HardCheckExact ==
  ASSUME TypeOK, MachineExact, NEW hard \in BOOLEAN,
         migrate_machine' = HardCheck(hard), running,
         UNCHANGED <<m_hash_table, d_hash_table, marker>>
  PROVE  MachineExact'
<1>1. Unfinished' = Unfinished /\ \A s \in Server : UnfinishedOf(s)' = UnfinishedOf(s)
  BY DEF Unfinished, UnfinishedOf
<1>2. CASE hard /\ m_hash_table = d_hash_table
  <2>1. Unfinished = {} /\ \A s \in Server : UnfinishedOf(s) = {}
    BY <1>2 DEF Unfinished, UnfinishedOf
  <2>2. migrate_machine' = Nobody
    BY <1>2 DEF HardCheck
  <2>3. CASE mark_ret
    BY <1>1, <2>1, <2>2, <2>3 DEF MachineExact, marker, Nobody
  <2>4. CASE ~mark_ret
    BY SMTT(60), <1>1, <2>1, <2>2, <2>4, FS_EmptySet DEF MachineExact, marker, Nobody
  <2>. QED BY <2>3, <2>4
<1>3. CASE ~(hard /\ m_hash_table = d_hash_table)
  <2>1. migrate_machine' = migrate_machine
    BY <1>3 DEF HardCheck
  <2>. QED BY <1>1, <2>1 DEF MachineExact, marker
<1>. QED BY <1>2, <1>3

LEMMA StatusThreadBookkeeping == TypeOK /\ Bookkeeping /\ StatusThread => Bookkeeping'
<1>. SUFFICES ASSUME TypeOK, Bookkeeping, StatusThread PROVE Bookkeeping'
  OBVIOUS
<1>1. CASE ScanServers
  BY <1>1, QuietStep DEF ScanServers, file, group, builder, marker
<1>2. CASE CheckMigrateWait
  <2>1. MachineExact'
    BY <1>2, HardCheckExact DEF CheckMigrateWait, file, Bookkeeping
  <2>2. Unfinished' = Unfinished
    BY <1>2 DEF CheckMigrateWait, file, Unfinished
  <2>3. UnfinishedSeen' /\ StateBetweenTables'
    BY <1>2 DEF CheckMigrateWait, file, Bookkeeping, UnfinishedSeen, StateBetweenTables, is_migrating
  <2>4. BlockCountKept' /\ CheckerKnows'
    BY <1>2, <2>2 DEF CheckMigrateWait, file, marker, Bookkeeping, BlockCountKept, CheckerKnows
  <2>5. BuilderKnows'
    BY <1>2, <2>2 DEF CheckMigrateWait, builder, Bookkeeping, BuilderKnows
  <2>. QED BY <2>1, <2>3, <2>4, <2>5 DEF Bookkeeping
<1>3. CASE CheckMigrateComplete
  <2>1. MachineExact'
    <3>1. PICK hard \in BOOLEAN : migrate_machine' = HardCheck(hard)
      BY <1>3 DEF CheckMigrateComplete
    <3>. QED BY <1>3, <3>1, HardCheckExact DEF CheckMigrateComplete, Bookkeeping
  <2>2. Unfinished' = Unfinished
    BY <1>3 DEF CheckMigrateComplete, Unfinished
  <2>3. UnfinishedSeen' /\ StateBetweenTables'
    BY <1>3 DEF CheckMigrateComplete, Bookkeeping, UnfinishedSeen, StateBetweenTables, is_migrating
  <2>4. BlockCountKept'
    BY <1>3, <2>2 DEF CheckMigrateComplete, marker, Bookkeeping, BlockCountKept
  <2>5. CheckerKnows'
    <3>1. m_hash_table = d_hash_table => Unfinished = {}
      BY DEF Unfinished
    <3>. QED BY <1>3, <2>2, <3>1 DEF CheckMigrateComplete, Bookkeeping, CheckerKnows
  <2>6. BuilderKnows'
    BY <1>3, <2>2 DEF CheckMigrateComplete, builder, Bookkeeping, BuilderKnows
  <2>. QED BY <2>1, <2>3, <2>4, <2>5, <2>6 DEF Bookkeeping
<1>4. CASE CoverHashTable
  <2>1. Unfinished = {} /\ m_hash_table = d_hash_table
    BY <1>4, TablesEqual DEF CoverHashTable, Bookkeeping, CheckerKnows, TypeOK, FileType, Unfinished
  <2>2. Unfinished' = Unfinished /\ \A s \in Server : UnfinishedOf(s)' = UnfinishedOf(s)
    BY <1>4 DEF CoverHashTable, Unfinished, UnfinishedOf
  <2>3. MachineExact'
    BY <1>4, <2>2 DEF CoverHashTable, marker, Bookkeeping, MachineExact
  <2>4. UnfinishedSeen' /\ StateBetweenTables'
    BY <1>4, <2>1 DEF CoverHashTable, Bookkeeping, UnfinishedSeen, StateBetweenTables
  <2>5. BlockCountKept' /\ CheckerKnows'
    BY <1>4, <2>1, <2>2 DEF CoverHashTable, marker, Bookkeeping, BlockCountKept, CheckerKnows
  <2>6. BuilderKnows'
    BY <1>4, <2>2 DEF CoverHashTable, builder, Bookkeeping, BuilderKnows
  <2>. QED BY <2>3, <2>4, <2>5, <2>6 DEF Bookkeeping
<1>5. CASE EndMigration
  <2>1. Unfinished = {} /\ hash_table = d_hash_table
    BY <1>5 DEF EndMigration, Bookkeeping, CheckerKnows
  <2>2. Unfinished' = Unfinished /\ \A s \in Server : UnfinishedOf(s)' = UnfinishedOf(s)
    BY <1>5 DEF EndMigration, Unfinished, UnfinishedOf
  <2>3. MachineExact'
    BY <1>5, <2>2 DEF EndMigration, marker, Bookkeeping, MachineExact
  <2>4. UnfinishedSeen' /\ StateBetweenTables'
    BY <1>5, <2>1 DEF EndMigration, Bookkeeping, UnfinishedSeen, StateBetweenTables
  <2>5. BlockCountKept' /\ CheckerKnows'
    BY <1>5, <2>1, <2>2 DEF EndMigration, BlockCountKept, CheckerKnows
  <2>6. BuilderKnows'
    BY <1>5, <2>2 DEF EndMigration, builder, Bookkeeping, BuilderKnows
  <2>. QED BY <2>3, <2>4, <2>5, <2>6 DEF Bookkeeping
<1>6. CASE PushBuild
  BY <1>6, QuietStep DEF PushBuild, file, marker
<1>. QED BY <1>1, <1>2, <1>3, <1>4, <1>5, <1>6 DEF StatusThread

\* A group without a table has nothing to migrate: no row of m has a master.
LEMMA FirstRunFinished ==
  ASSUME UnfinishedSeen, IsFirstRun
  PROVE  Unfinished = {}
<1>1. \A b \in Bucket : ~MigrateThisBucket(m_hash_table[b], d_hash_table[b])
  BY LineZero DEF IsFirstRun, EmptyTable, EmptyRow, MigrateThisBucket
<1>. QED BY <1>1 DEF UnfinishedSeen, Unfinished

\* Every row that rebuild publishes as the start of a migration, and that is
\* not its destination, is one fill_migrate_machine counts.
LEMMA StartSeen ==
  ASSUME TypeOK, BuilderKnows, building, NEW dest,
         DestTable(dest, quick_table, upnode_list)
  PROVE  \A b \in Bucket : NewStart(dest)[b] # dest[b]
                           => MigrateThisBucket(NewStart(dest)[b], dest[b])
<1>. SUFFICES ASSUME NEW b \in Bucket, NewStart(dest)[b] # dest[b]
              PROVE  MigrateThisBucket(NewStart(dest)[b], dest[b])
  OBVIOUS
<1>1. DataNeedMove /\ ~first_run
  BY DEF NewStart
<1>2. NewStart(dest)[b] = quick_table[b] /\ quick_table[b][0] \in Server
  <2>1. CASE CopyCount > 1
    BY <1>1, <2>1 DEF NewStart, BuilderKnows
  <2>2. CASE ~(CopyCount > 1)
    <3>1. NewStart(dest)[b] = IF quick_table[b][0] \in available_server
                              THEN quick_table[b] ELSE dest[b]
      BY <1>1, <2>2 DEF NewStart
    <3>2. quick_table[b][0] \in available_server
      BY <3>1
    <3>. QED BY <3>1, <3>2 DEF TypeOK, GroupType
  <2>. QED BY <2>1, <2>2
<1>3. quick_table[b][0] # NoServer
  BY <1>2, GroupAssumption
<1>. QED BY <1>2, <1>3 DEF DestTable

LEMMA BuilderThreadBookkeeping == TypeOK /\ Bookkeeping /\ BuilderThread => Bookkeeping'
<1>. SUFFICES ASSUME TypeOK, Bookkeeping, BuilderThread PROVE Bookkeeping'
  OBVIOUS
<1>1. CASE RebuildTooFew
  BY <1>1, QuietStep DEF RebuildTooFew, checker, marker
<1>2. CASE RebuildNoMaster
  BY <1>2, QuietStep DEF RebuildNoMaster, checker, marker
<1>3. CASE RebuildQuick
  <2>1. Unfinished' = Unfinished /\ \A s \in Server : UnfinishedOf(s)' = UnfinishedOf(s)
    BY <1>3 DEF RebuildQuick, file, Unfinished, UnfinishedOf
  <2>2. MachineExact'
    BY <1>3, <2>1 DEF RebuildQuick, marker, Bookkeeping, MachineExact
  <2>3. UnfinishedSeen' /\ StateBetweenTables'
    BY <1>3 DEF RebuildQuick, file, Bookkeeping, UnfinishedSeen, StateBetweenTables, is_migrating
  <2>4. BlockCountKept' /\ CheckerKnows'
    BY <1>3, <2>1 DEF RebuildQuick, file, checker, marker, Bookkeeping, BlockCountKept, CheckerKnows
  <2>5. BuilderKnows'
    <3>1. ASSUME first_run' PROVE Unfinished' = {}
      BY <1>3, <2>1, <3>1, FirstRunFinished DEF RebuildQuick, Bookkeeping
    <3>2. ASSUME ~first_run', DataNeedMove, CopyCount > 1, NEW b \in Bucket
          PROVE  quick_table'[b][0] \in Server
      <4>1. NeedQuickTable
        BY <1>3, <3>2 DEF RebuildQuick, NeedQuickTable
      <4>2. PICK k \in [Bucket -> Line] :
              /\ \A c \in Bucket : k[c] \in MasterLines(m_hash_table[c], UpNodes)
              /\ quick_table' = [c \in Bucket |-> QuickRow(m_hash_table[c], UpNodes, k[c])]
        BY <1>3, <4>1 DEF RebuildQuick
      <4>3. UpNodes \in SUBSET Server
        BY DEF UpNodes
      <4>4. QuickRow(m_hash_table[b], UpNodes, k[b])[0] \in UpNodes
        BY <3>2, <4>2, <4>3, QuickTableType DEF TypeOK, FileType
      <4>. QED BY <3>2, <4>2, <4>3, <4>4
    <3>. QED BY <3>1, <3>2 DEF BuilderKnows
  <2>. QED BY <2>2, <2>3, <2>4, <2>5 DEF Bookkeeping
<1>4. CASE RebuildError
  <2>1. Unfinished' = Unfinished /\ \A s \in Server : UnfinishedOf(s)' = UnfinishedOf(s)
    BY <1>4 DEF RebuildError, Unfinished, UnfinishedOf
  <2>2. MachineExact'
    <3>1. /\ migrate_machine' = migrate_machine /\ running' = running
          /\ mark_ret' = mark_ret /\ mark_server' = mark_server
      BY <1>4 DEF RebuildError, marker
    <3>. QED BY <2>1, <3>1 DEF Bookkeeping, MachineExact
  <2>3. UnfinishedSeen' /\ StateBetweenTables'
    BY <1>4 DEF RebuildError, Bookkeeping, UnfinishedSeen, StateBetweenTables, is_migrating
  <2>4. BlockCountKept' /\ CheckerKnows'
    BY <1>4, <2>1 DEF RebuildError, checker, marker, Bookkeeping, BlockCountKept, CheckerKnows
  <2>5. BuilderKnows'
    BY <1>4 DEF RebuildError, DropTables, BuilderKnows
  <2>. QED BY <2>2, <2>3, <2>4, <2>5 DEF Bookkeeping
<1>5. ASSUME NEW dest \in [Bucket -> [Line -> upnode_list]], RebuildPublish(dest)
      PROVE  Bookkeeping'
  <2>. DEFINE start == NewStart(dest)
              Open == {b \in Bucket : start[b] # dest[b]}
  <2>1. dest \in Table
    BY <1>5, DestTableType DEF RebuildPublish, TypeOK, BuilderType
  <2>2. start \in Table
    BY <2>1, NewStartType DEF TypeOK, BuilderType
  <2>3. \A b \in Bucket : start[b] # dest[b] => MigrateThisBucket(start[b], dest[b])
    BY <1>5, StartSeen DEF RebuildPublish, Bookkeeping
  <2>4. /\ MigrateSet(start, dest) = Open
        /\ FillMigrateMachine(start, dest) =
             [s \in Server |-> Cardinality({b \in Open : start[b][0] = s})]
    BY <2>1, <2>2, <2>3, MigrateSetExact
  <2>5. m_hash_table' = start /\ d_hash_table' = dest /\ hash_table' = start
    BY <1>5 DEF RebuildPublish
  <2>6. Unfinished' = Open /\ \A s \in Server : UnfinishedOf(s)' = {b \in Open : start[b][0] = s}
    BY <2>5 DEF Unfinished, UnfinishedOf
  <2>7. ~mark_ret /\ ~mark_ret' /\ running /\ running'
    BY <1>5 DEF RebuildPublish, WriteLockFree, MarkerIdle, marker
  <2>8. first_run => Open = {} /\ Unfinished = {}
    <3>1. first_run => start = dest
      BY DEF NewStart
    <3>. QED BY <1>5, <3>1 DEF RebuildPublish, Bookkeeping, BuilderKnows
  <2>9. Cardinality(Open) \in Nat /\ (Cardinality(Open) = 0 <=> Open = {})
    BY BucketSets
  <2>10. MachineExact'
    <3>1. \A s \in Server : migrate_machine'[s] = Cardinality(UnfinishedOf(s)')
      <4>1. CASE first_run
        <5>1. migrate_machine' = migrate_machine
          BY <1>5, <4>1 DEF RebuildPublish
        <5>2. \A s \in Server : UnfinishedOf(s) = {} /\ UnfinishedOf(s)' = {}
          BY <2>6, <2>8, <4>1 DEF UnfinishedOf
        <5>3. \A s \in Server : migrate_machine[s] = 0
          <6>1. \A s \in Server : migrate_machine[s] = Cardinality(UnfinishedOf(s)) + 0
            BY <2>7 DEF Bookkeeping, MachineExact
          <6>2. Cardinality({}) = 0
            BY FS_EmptySet
          <6>. QED BY SMTT(60), <5>2, <6>1, <6>2
        <5>. QED BY <5>1, <5>2, <5>3, FS_EmptySet
      <4>2. CASE ~first_run
        BY <1>5, <2>4, <2>6, <4>2 DEF RebuildPublish
      <4>. QED BY <4>1, <4>2
    <3>2. \A s \in Server : Cardinality(UnfinishedOf(s)') \in Nat
      BY <2>6, BucketSets
    <3>. QED BY SMTT(60), <2>7, <3>1, <3>2 DEF MachineExact
  <2>11. UnfinishedSeen'
    BY <2>3, <2>5 DEF UnfinishedSeen
  <2>12. migrate_block_count' = IF Open # {} THEN Cardinality(Open) ELSE -1
    <3>1. migrate_block_count' =
            LET diff_count == IF first_run THEN 0 ELSE Cardinality(MigrateSet(start, dest))
            IN  IF diff_count > 0 THEN diff_count ELSE -1
      BY <1>5 DEF RebuildPublish
    <3>. QED BY SMTT(60), <2>4, <2>8, <2>9, <3>1
  <2>13. BlockCountKept'
    BY SMTT(60), <2>6, <2>7, <2>9, <2>12 DEF BlockCountKept
  <2>14. StateBetweenTables'
    <3>1. Open = {} => start = dest
      BY <2>1, <2>2, TablesEqual
    <3>. QED BY SMTT(60), <2>5, <2>9, <2>12, <3>1 DEF StateBetweenTables, is_migrating
  <2>15. CheckerKnows'
    BY <1>5 DEF RebuildPublish, WriteLockFree, checker, CheckerKnows
  <2>16. BuilderKnows'
    BY <1>5 DEF RebuildPublish, DropTables, BuilderKnows
  <2>. QED BY <2>10, <2>11, <2>13, <2>14, <2>15, <2>16 DEF Bookkeeping
<1>. QED BY <1>1, <1>2, <1>3, <1>4, <1>5 DEF BuilderThread

LEMMA MarkThreadBookkeeping == TypeOK /\ Bookkeeping /\ MarkThread => Bookkeeping'
<1>. SUFFICES ASSUME TypeOK, Bookkeeping, MarkThread PROVE Bookkeeping'
  OBVIOUS
<1>1. ASSUME NEW b \in Bucket, MarkBucket(b) PROVE Bookkeeping'
  <2>. mark_ret = FALSE /\ running = TRUE /\ running' = running
    BY <1>1 DEF MarkBucket, TypeOK, MarkerType
  <2>1. CASE is_migrating /\ OwnsBucket(b) /\ RowChanges(b)
    <3>1. m_hash_table' = [m_hash_table EXCEPT ![b] = d_hash_table[b]] /\ mark_ret' = TRUE
      BY <1>1, <2>1 DEF MarkBucket, MarkedRow
    <3>2. b \in Unfinished /\ b \in UnfinishedOf(mark_server)
      BY <2>1 DEF RowChanges, OwnsBucket, Unfinished, UnfinishedOf
    <3>3. Unfinished' = Unfinished \ {b}
      BY <1>1, <3>1 DEF MarkBucket, Unfinished, TypeOK, FileType, Table
    <3>4. \A s \in Server : UnfinishedOf(s)' = UnfinishedOf(s) \ {b}
      BY <1>1, <3>1, <3>3 DEF MarkBucket, UnfinishedOf, Unfinished, TypeOK, FileType, Table
    <3>5. mark_server \in Server /\ mark_server' = mark_server
      BY <1>1, <3>1 DEF MarkBucket, TypeOK, MarkerType, MarkerIdle
    <3>6. \A s \in Server : s # mark_server => b \notin UnfinishedOf(s)
      BY <2>1 DEF OwnsBucket, UnfinishedOf
    <3>7. /\ IsFiniteSet(Unfinished) /\ Cardinality(Unfinished) \in Nat
          /\ \A s \in Server : IsFiniteSet(UnfinishedOf(s)) /\ Cardinality(UnfinishedOf(s)) \in Nat
      <4>1. Unfinished \subseteq Bucket /\ \A s \in Server : UnfinishedOf(s) \subseteq Bucket
        BY DEF Unfinished, UnfinishedOf
      <4>. QED BY <4>1, BucketSets
    <3>8. Cardinality(Unfinished') = Cardinality(Unfinished) - 1
      BY <3>2, <3>3, <3>7, FS_RemoveElement
    <3>9. MachineExact'
      <4>1. \A s \in Server : migrate_machine[s] = Cardinality(UnfinishedOf(s))
        BY SMTT(60), <3>7 DEF Bookkeeping, MachineExact
      <4>3. \A s \in Server : s # mark_server => UnfinishedOf(s)' = UnfinishedOf(s)
        BY <3>4, <3>6
      <4>4. migrate_machine' = migrate_machine
        BY <1>1 DEF MarkBucket, group
      <4>5. ASSUME NEW s \in Server
            PROVE  migrate_machine'[s] = Cardinality(UnfinishedOf(s)')
                                         + (IF mark_ret' /\ mark_server' = s THEN 1 ELSE 0)
        <5>1. CASE s = mark_server
          <6>1. UnfinishedOf(s)' = UnfinishedOf(s) \ {b}
            BY <3>4
          <6>2. Cardinality(UnfinishedOf(s) \ {b}) = Cardinality(UnfinishedOf(s)) - 1
            BY <5>1, <3>2, <3>7, FS_RemoveElement
          <6>3. Cardinality(UnfinishedOf(s)') + 1 = Cardinality(UnfinishedOf(s))
            BY SMTT(60), <6>1, <6>2, <3>7
          <6>. QED BY <6>3, <5>1, <4>1, <4>4, <3>1, <3>5
        <5>2. CASE s # mark_server
          BY SMTT(60), <5>2, <4>1, <4>3, <4>4, <3>5, <3>7
        <5>. QED BY <5>1, <5>2
      <4>. QED BY <4>5 DEF MachineExact
    <3>10. UnfinishedSeen' /\ StateBetweenTables'
      <4>1. UnfinishedSeen'
        BY <1>1, <3>1 DEF MarkBucket, Bookkeeping, UnfinishedSeen, TypeOK, FileType, Table
      <4>2. StateBetweenTables'
        BY <1>1, <3>1 DEF MarkBucket, Bookkeeping, StateBetweenTables, is_migrating, TypeOK, FileType, Table
      <4>. QED BY <4>1, <4>2
    <3>11. BlockCountKept'
      <4>1. migrate_block_count >= Cardinality(Unfinished) /\ Cardinality(Unfinished) # 0
        BY SMTT(60), <3>2, <3>7, BucketSets DEF Bookkeeping, BlockCountKept, Unfinished
      <4>2. migrate_block_count' = migrate_block_count
        BY <1>1 DEF MarkBucket
      <4>. QED BY SMTT(60), <4>1, <4>2, <3>1, <3>7, <3>8 DEF BlockCountKept, TypeOK, FileType
    <3>12. CheckerKnows' /\ BuilderKnows'
      BY <1>1, <3>3 DEF MarkBucket, checker, builder, Bookkeeping, CheckerKnows, BuilderKnows
    <3>. QED BY <3>9, <3>10, <3>11, <3>12 DEF Bookkeeping
  <2>2. CASE ~(is_migrating /\ OwnsBucket(b) /\ RowChanges(b))
    <3>1. m_hash_table' = m_hash_table /\ mark_ret' = mark_ret
      <4>1. CASE is_migrating /\ OwnsBucket(b)
        BY <1>1, <2>2, <4>1 DEF MarkBucket, MarkedRow, RowChanges, TypeOK, FileType, Table
      <4>2. CASE ~(is_migrating /\ OwnsBucket(b))
        BY <1>1, <4>2 DEF MarkBucket
      <4>. QED BY <4>1, <4>2
    <3>. QED BY <1>1, <3>1, QuietStep DEF MarkBucket, group, checker, builder
  <2>. QED BY <2>1, <2>2
<1>2. CASE CountBucket
  <2>. mark_ret = TRUE /\ running = TRUE /\ mark_ret' = FALSE
    BY <1>2 DEF CountBucket, TypeOK, MarkerType
  <2>1. mark_server \in Server
    BY <1>2 DEF CountBucket, TypeOK, MarkerType, MarkerIdle
  <2>2. Unfinished' = Unfinished /\ \A s \in Server : UnfinishedOf(s)' = UnfinishedOf(s)
    BY <1>2 DEF CountBucket, Unfinished, UnfinishedOf
  <2>3. MachineExact'
    <3>1. CASE MachineMissing
      BY <1>2, <3>1 DEF CountBucket, MachineExact
    <3>2. CASE ~MachineMissing
      <4>1. migrate_machine' = [migrate_machine EXCEPT ![mark_server] = @ - 1]
        BY <1>2, <3>2 DEF CountBucket
      <4>2. migrate_machine # Nobody
        BY <2>1, <3>2 DEF MachineMissing, Nobody
      <4>3. \A s \in Server : migrate_machine[s] = Cardinality(UnfinishedOf(s))
                                                 + (IF mark_server = s THEN 1 ELSE 0)
        BY <4>2 DEF Bookkeeping, MachineExact
      <4>4. \A s \in Server : Cardinality(UnfinishedOf(s)) \in Nat
        <5>1. \A s \in Server : UnfinishedOf(s) \subseteq Bucket
          BY DEF Unfinished, UnfinishedOf
        <5>. QED BY <5>1, BucketSets
      <4>5. \A s \in Server : migrate_machine'[s] = Cardinality(UnfinishedOf(s))
        BY SMTT(60), <2>1, <4>1, <4>3, <4>4 DEF TypeOK, GroupType
      <4>. QED BY SMTT(60), <2>2, <4>4, <4>5 DEF MachineExact
    <3>. QED BY <3>1, <3>2
  <2>4. UnfinishedSeen'
    BY <1>2 DEF CountBucket, Bookkeeping, UnfinishedSeen
  <2>5. migrate_block_count' = migrate_block_count - 1 /\ migrate_block_count \in Int
    BY <1>2 DEF CountBucket, TypeOK, FileType
  <2>6. BlockCountKept'
    <3>1. Cardinality(Unfinished) \in Nat
      <4>1. Unfinished \subseteq Bucket
        BY DEF Unfinished
      <4>. QED BY <4>1, BucketSets
    <3>. QED BY SMTT(60), <2>2, <2>5, <3>1 DEF Bookkeeping, BlockCountKept
  <2>7. StateBetweenTables'
    <3>1. is_migrating'
      BY SMTT(60), <2>5 DEF Bookkeeping, BlockCountKept, is_migrating
    <3>. QED BY <1>2, <3>1 DEF CountBucket, Bookkeeping, StateBetweenTables
  <2>8. CheckerKnows' /\ BuilderKnows'
    BY <1>2, <2>2 DEF CountBucket, checker, builder, Bookkeeping, CheckerKnows, BuilderKnows
  <2>. QED BY <2>3, <2>4, <2>6, <2>7, <2>8 DEF Bookkeeping
<1>. QED BY <1>1, <1>2 DEF MarkThread

LEMMA OperatorBookkeeping == TypeOK /\ Bookkeeping /\ Operator => Bookkeeping'
<1>. SUFFICES ASSUME TypeOK, Bookkeeping, Operator PROVE Bookkeeping'
  OBVIOUS
<1>1. ASSUME NEW s \in Server, ForceDown(s) PROVE Bookkeeping'
  BY <1>1, QuietStep DEF ForceDown, file, group, checker, builder, marker
<1>2. ASSUME NEW s \in Server, ForceUp(s) PROVE Bookkeeping'
  BY <1>2, QuietStep DEF ForceUp, file, checker, builder, marker
<1>3. CASE LoadGroupFile
  BY <1>3, QuietStep DEF LoadGroupFile, checker, builder, marker
<1>. QED BY <1>1, <1>2, <1>3 DEF Operator

\* A restart reads the tables and the block count back from the file, at
\* whatever point the process died.
LEMMA FailureBookkeeping == TypeOK /\ Bookkeeping /\ Failure => Bookkeeping'
<1>. SUFFICES ASSUME TypeOK, Bookkeeping, Failure PROVE Bookkeeping'
  OBVIOUS
<1>1. ASSUME NEW s \in Server, GoSilent(s) PROVE Bookkeeping'
  BY <1>1, QuietStep DEF GoSilent, file, group, checker, builder, marker
<1>2. CASE Restart
  <2>1. Unfinished' = Unfinished /\ \A s \in Server : UnfinishedOf(s)' = UnfinishedOf(s)
    BY <1>2 DEF Restart, file, Unfinished, UnfinishedOf
  <2>2. /\ Unfinished \subseteq Bucket /\ \A s \in Server : UnfinishedOf(s) \subseteq Bucket
    BY DEF Unfinished, UnfinishedOf
  <2>3. Unfinished # {} => migrate_block_count > 0
    <3>1. Cardinality(Unfinished) \in Nat /\ (Cardinality(Unfinished) = 0 <=> Unfinished = {})
      BY <2>2, BucketSets
    <3>. QED BY SMTT(60), <3>1 DEF Bookkeeping, BlockCountKept, TypeOK, FileType
  <2>4. \A s \in Server : migrate_machine'[s] = Cardinality(UnfinishedOf(s))
    <3>1. CASE migrate_block_count > 0
      <4>1. migrate_machine' = FillMigrateMachine(m_hash_table, d_hash_table)
        BY <1>2, <3>1 DEF Restart
      <4>2. FillMigrateMachine(m_hash_table, d_hash_table) =
              [s \in Server |-> Cardinality({b \in Unfinished : m_hash_table[b][0] = s})]
        BY MigrateSetExact DEF Bookkeeping, UnfinishedSeen, Unfinished, TypeOK, FileType
      <4>. QED BY <4>1, <4>2 DEF UnfinishedOf
    <3>2. CASE ~(migrate_block_count > 0)
      <4>1. \A s \in Server : UnfinishedOf(s) = {}
        BY <2>3, <3>2 DEF UnfinishedOf
      <4>2. migrate_machine' = Nobody
        BY <1>2, <3>2 DEF Restart
      <4>. QED BY <4>1, <4>2, FS_EmptySet DEF Nobody
    <3>. QED BY <3>1, <3>2
  <2>5. \A s \in Server : Cardinality(UnfinishedOf(s)) \in Nat
    BY <2>2, BucketSets
  <2>6. ~mark_ret' /\ ~building' /\ status_pc' = "scan"
    BY <1>2 DEF Restart, DropTables
  <2>7. MachineExact'
    BY SMTT(60), <2>1, <2>4, <2>5, <2>6 DEF MachineExact
  <2>8. UnfinishedSeen' /\ StateBetweenTables'
    BY <1>2 DEF Restart, file, Bookkeeping, UnfinishedSeen, StateBetweenTables, is_migrating
  <2>9. BlockCountKept'
    <3>1. Cardinality(Unfinished) \in Nat
      BY <2>2, BucketSets
    <3>2. migrate_block_count' = migrate_block_count
      BY <1>2 DEF Restart, file
    <3>. QED BY SMTT(60), <2>1, <2>6, <3>1, <3>2 DEF Bookkeeping, BlockCountKept, TypeOK, FileType
  <2>10. CheckerKnows' /\ BuilderKnows'
    BY <2>6 DEF CheckerKnows, BuilderKnows
  <2>. QED BY <2>7, <2>8, <2>9, <2>10 DEF Bookkeeping
<1>. QED BY <1>1, <1>2 DEF Failure

LEMMA PacketsBookkeeping == TypeOK /\ Bookkeeping /\ Packets => Bookkeeping'
<1>. SUFFICES ASSUME TypeOK, Bookkeeping, NEW s \in Server,
                     \/ HeartbeatRefused(s)
                     \/ \E v \in {server_version - 1, server_version} :
                          \/ Heartbeat(s, v)
                          \/ \E bs \in SUBSET Bucket : HeartbeatReport(s, v, bs)
                          \/ \E b \in Bucket : FinishMigrate(s, v, b)
              PROVE  Bookkeeping'
  BY DEF Packets
<1>1. CASE HeartbeatRefused(s)
  BY <1>1, QuietStep DEF HeartbeatRefused, checker, builder, marker
<1>2. ASSUME NEW v, Heartbeat(s, v) PROVE Bookkeeping'
  BY <1>2, QuietStep DEF Heartbeat, file, checker, builder, marker
<1>3. ASSUME NEW v, NEW bs \in SUBSET Bucket, HeartbeatReport(s, v, bs) PROVE Bookkeeping'
  BY <1>3, QuietStep DEF HeartbeatReport, file, checker, builder, MarkerIdle
<1>4. ASSUME NEW v, NEW b \in Bucket, FinishMigrate(s, v, b) PROVE Bookkeeping'
  BY <1>4, QuietStep DEF FinishMigrate, file, group, checker, builder, MarkerIdle
<1>. QED BY <1>1, <1>2, <1>3, <1>4

LEMMA NextBookkeeping == TypeOK /\ Bookkeeping /\ [Next]_vars => Bookkeeping'
<1>. SUFFICES ASSUME TypeOK, Bookkeeping, [Next]_vars PROVE Bookkeeping'
  OBVIOUS
<1>1. CASE UNCHANGED vars
  BY <1>1, QuietStep DEF vars, file, group, checker, builder, marker
<1>. QED BY <1>1, StatusThreadBookkeeping, BuilderThreadBookkeeping,
            MarkThreadBookkeeping, OperatorBookkeeping, FailureBookkeeping,
            PacketsBookkeeping DEF Next

\* The inductive invariant of the group holds in every reachable state.
THEOREM BookkeepingCorrect == Spec => []Bookkeeping
BY InitBookkeeping, NextBookkeeping, TypeCorrect, PTL DEF Spec

\* migrate_machine agrees with the tables.
THEOREM MachineCorrect == Spec => []MachineExact
<1>1. Bookkeeping => MachineExact
  BY DEF Bookkeeping
<1>. QED BY <1>1, BookkeepingCorrect, PTL

\* The block count in the file covers every unfinished bucket, so a restart at
\* any point restores all of them.
THEOREM BlockCountCorrect == Spec => []BlockCountCovers
<1>1. TypeOK /\ Bookkeeping => BlockCountCovers
  <2>. SUFFICES ASSUME TypeOK, Bookkeeping, Unfinished # {}
                PROVE  migrate_block_count >= Cardinality(Unfinished)
    BY DEF BlockCountCovers
  <2>1. Cardinality(Unfinished) \in Nat
    BY BucketSets DEF Unfinished
  <2>. QED BY SMTT(60), <2>1 DEF Bookkeeping, BlockCountKept, TypeOK, FileType
<1>. QED BY <1>1, TypeCorrect, BookkeepingCorrect, PTL

\* The assertion of check_migrate_complete never fails.
THEOREM CompletionCorrect == Spec => []NoMachineMeansDone
<1>1. TypeOK /\ Bookkeeping => NoMachineMeansDone
  <2>. SUFFICES ASSUME TypeOK, Bookkeeping, running, migrate_machine = Nobody,
                       NEW b \in Unfinished
                PROVE  FALSE
    BY DEF NoMachineMeansDone
  <2>. DEFINE s == m_hash_table[b][0]
  <2>1. s \in Server
    <3>1. s # NoServer
      BY DEF Bookkeeping, UnfinishedSeen, MigrateThisBucket, Unfinished
    <3>. QED BY <3>1, LineZero DEF TypeOK, FileType, Table, Row, Unfinished
  <2>2. UnfinishedOf(s) \subseteq Bucket /\ UnfinishedOf(s) # {}
    BY DEF UnfinishedOf, Unfinished
  <2>3. Cardinality(UnfinishedOf(s)) \in Nat /\ Cardinality(UnfinishedOf(s)) # 0
    BY <2>2, BucketSets
  <2>4. migrate_machine[s] = 0
    BY <2>1 DEF Nobody
  <2>. QED BY SMTT(60), <2>1, <2>3, <2>4 DEF Bookkeeping, MachineExact
<1>. QED BY <1>1, TypeCorrect, BookkeepingCorrect, PTL

\* m is between the table in use and the destination; without a migration the
\* two are the same.
THEOREM TablesCorrect == Spec => []StateBetweenTables
<1>1. Bookkeeping => StateBetweenTables
  BY DEF Bookkeeping
<1>. QED BY <1>1, BookkeepingCorrect, PTL

\* What group_info has written down about a migration is what remains of it.
THEOREM MigrationCorrect == Spec => []MigrationTracked
<1>1. MachineExact /\ BlockCountCovers /\ NoMachineMeansDone /\ StateBetweenTables
      => MigrationTracked
  BY DEF MigrationTracked
<1>. QED BY <1>1, MachineCorrect, BlockCountCorrect, CompletionCorrect, TablesCorrect, PTL

=============================================================================
