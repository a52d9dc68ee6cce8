--------------------------- MODULE Migrate_proofs ---------------------------
(***************************************************************************)
(* What the done bits, the config server's record of moved buckets and the *)
(* buckets left off a migrate list mean, for any buckets, servers, plans   *)
(* and number of tables.                                                   *)
(*                                                                         *)
(* The three properties need each other's neighbourhood: a bit is set from *)
(* a bucket the thread has copied (Copying), under the table whose         *)
(* installation was the last to begin (Installing), and the bits a joining *)
(* server takes over are those the config server still has (TakenOver).    *)
(***************************************************************************)
EXTENDS Migration, TLAPS

\* Zenon proves the leaves that do not ask for SMT.
USE ZenonT(60)

UpdaterState == {"none", "wait", "reset", "changed", "stop", "spin", "hold", "list", "signal"}

\* One thread at a time is past the mutex of update_server_table, and its table
\* is the one in use; set_solitary only passes through do_server_list_changed.
Installing ==
    /\ cs_version \in Version /\ sent_away \in Nat
    /\ table_version \in Version \cup {Solitary}
    /\ updater \in [Version \cup {Solitary} -> UpdaterState]
    /\ updater[Solitary] \notin {"wait", "reset", "list", "signal"}
    /\ \A v \in Version : updater[v] \notin {"none", "wait"} => table_version = v
    /\ \A v \in Version : updater[v] # "none" => v <= cs_version

\* Past the lock the bucket in hand is copied for the table of the list in hand.
Copying ==
    /\ pc = "lock" => pending = {}
    /\ pc \in {"drain", "ask", "asked", "accepted"} => <<list_version, cur>> \in copied
    /\ pc = "asked" => finish = list_version \/ "stale list" \in races
    /\ answer \in {"none", "ok", "refused"}

TakenOver ==
    \A p \in inherited :
        p[1] \in Version /\ p[1] <= cs_version /\ (p[1] = cs_version => p[2] \in cs_moved)

MigrateInv ==
    /\ Installing /\ Copying /\ TakenOver
    /\ DoneMeansCopied /\ MovedMeansCopied /\ RemovedWereMigrated

-----------------------------------------------------------------------------
LEMMA VersionFacts ==
  /\ Version \subseteq Nat /\ 1 \in Version /\ Solitary \notin Version
  /\ \A v \in Version : v <= MaxDisturbances => v + 1 \in Version
BY SMTT(60), MigrateAssumption DEF Version, MaxVersion, Solitary

LEMMA MigrateInit == Init => MigrateInv
<1> SUFFICES ASSUME Init PROVE MigrateInv
  OBVIOUS
<1>1. Installing
  <2>1. updater \in [Version \cup {Solitary} -> {"none"}]
        /\ \A v \in Version \cup {Solitary} : updater[v] = "none"
    BY DEF Init
  <2>2. cs_version = 1 /\ sent_away = 0 /\ table_version = Solitary
    BY DEF Init, Solitary
  <2> QED BY <2>1, <2>2, VersionFacts DEF Installing, UpdaterState
<1>2. Copying /\ TakenOver
  BY DEF Init, Copying, TakenOver
<1>3. DoneMeansCopied /\ MovedMeansCopied /\ RemovedWereMigrated
  BY DEF Init, DoneMeansCopied, MovedMeansCopied, RemovedWereMigrated
<1> QED BY <1>1, <1>2, <1>3 DEF MigrateInv

\* A step of the migration thread that does not set a bit.
LEMMA Frame ==
  ASSUME MigrateInv, UNCHANGED <<tables, updater, config, inherited, skipped>>,
         copied \subseteq copied', races \subseteq races', Copying'
  PROVE  MigrateInv'
<1>1. Installing' /\ TakenOver'
  BY DEF MigrateInv, Installing, TakenOver, tables, config
<1>2. DoneMeansCopied'
  BY DEF MigrateInv, DoneMeansCopied, tables
<1>3. MovedMeansCopied'
  BY DEF MigrateInv, MovedMeansCopied, config
<1>4. RemovedWereMigrated'
  BY DEF MigrateInv, RemovedWereMigrated
<1> QED BY <1>1, <1>2, <1>3, <1>4 DEF MigrateInv

\* The steps of run(), and those that end in the loop again.
LEMMA RunKeeps ==
  ASSUME MigrateInv,
         \/ Boot \/ TestSignaled \/ Wait \/ SpuriousWakeup \/ SetRunning \/ ClearStopped
         \/ TakeList \/ EndRound \/ DrainStopped
  PROVE  MigrateInv'
<1>1. UNCHANGED <<tables, updater, config, inherited, skipped, copied>> /\ races \subseteq races'
  BY DEF Boot, TestSignaled, Wait, SpuriousWakeup, SetRunning, ClearStopped, TakeList, EndRound,
         DrainStopped, history
<1>2. pc' \in {"test", "woken", "towait", "wait", "exit", "run", "take", "end", "loop"}
  BY DEF Boot, TestSignaled, Wait, SpuriousWakeup, SetRunning, ClearStopped, TakeList, EndRound,
         DrainStopped
<1>3. UNCHANGED answer
  BY DEF Boot, TestSignaled, Wait, SpuriousWakeup, SetRunning, ClearStopped, TakeList, EndRound,
         DrainStopped
<1>4. Copying'
  BY <1>2, <1>3 DEF MigrateInv, Copying
<1> QED BY <1>1, <1>4, Frame

LEMMA CopyKeeps ==
  ASSUME MigrateInv, NextBucket \/ SendRound \/ NothingToSend \/ LockBucket \/ DuplicationDoneSwap
  PROVE  MigrateInv'
<1>1. UNCHANGED <<tables, updater, config, inherited, skipped, races, answer>> /\ copied \subseteq copied'
  BY DEF NextBucket, SendRound, NothingToSend, LockBucket, DuplicationDoneSwap, history
<1>2. CASE NextBucket \/ SendRound \/ NothingToSend
  <2>1. pc' \in {"end", "swap", "copy", "loop"} \/ (pc' = "lock" /\ pending' = {})
    <3>1. CASE NextBucket
      <4>1. pc' \in {"end", "swap", "copy"}
        BY <3>1 DEF NextBucket
      <4> QED BY <4>1
    <3>2. CASE SendRound
      BY <3>2 DEF SendRound
    <3>3. CASE NothingToSend
      BY <3>3 DEF NothingToSend
    <3> QED BY <1>2, <3>1, <3>2, <3>3
  <2>2. Copying'
    BY <1>1, <2>1 DEF MigrateInv, Copying
  <2> QED BY <1>1, <2>2, Frame
<1>3. CASE LockBucket \/ DuplicationDoneSwap
  <2>1. pc' \in {"drain", "ask"} /\ <<list_version', cur'>> \in copied'
    BY <1>3 DEF LockBucket, DuplicationDoneSwap, MigrateInv, Copying
  <2>2. Copying'
    BY <1>1, <2>1 DEF MigrateInv, Copying
  <2> QED BY <1>1, <2>2, Frame
<1> QED BY <1>2, <1>3

LEMMA FinishKeeps ==
  ASSUME MigrateInv, DuplicationDone \/ SendFinishFailed \/ SendFinish \/ FinishAnswered
  PROVE  MigrateInv'
<1>1. /\ UNCHANGED <<tables, updater, config, inherited, skipped, copied, list_version, cur>>
      /\ races \subseteq races'
  BY DEF DuplicationDone, SendFinishFailed, SendFinish, FinishAnswered, history
<1>2. /\ pc \in {"drain", "ask", "asked"} /\ pc' \in {"ask", "asked", "accepted", "loop"}
      /\ pc' = "asked" => finish' = list_version' \/ "stale list" \in races'
      /\ answer' \in {"none", "ok", "refused"}
  <2>1. CASE DuplicationDone \/ SendFinishFailed
    BY <2>1 DEF DuplicationDone, SendFinishFailed, MigrateInv, Copying
  <2>2. CASE SendFinish
    BY <2>2 DEF SendFinish
  <2>3. CASE FinishAnswered
    BY <2>3 DEF FinishAnswered, MigrateInv, Copying
  <2> QED BY <2>1, <2>2, <2>3
<1>3. Copying'
  BY <1>1, <1>2 DEF MigrateInv, Copying
<1> QED BY <1>1, <1>3, Frame

\* The bit of the bucket in hand: copied for the table in use, or a late bit.
LEMMA SetDoneKeeps == ASSUME MigrateInv, SetMigrateDone PROVE MigrateInv'
<1>1. /\ UNCHANGED <<table_version, updater, config, inherited, skipped, copied, answer>>
      /\ races \subseteq races' /\ pc' = "loop" /\ <<list_version, cur>> \in copied
      /\ table_version # list_version => "done late" \in races'
      /\ migrate_done_set' = migrate_done_set \cup {cur}
  BY DEF SetMigrateDone, MigrateInv, Copying
<1>2. Installing' /\ TakenOver' /\ Copying'
  BY <1>1 DEF MigrateInv, Installing, TakenOver, Copying, config
<1>3. DoneMeansCopied'
  BY <1>1 DEF MigrateInv, DoneMeansCopied
<1>4. MovedMeansCopied' /\ RemovedWereMigrated'
  BY <1>1 DEF MigrateInv, MovedMeansCopied, RemovedWereMigrated, config
<1> QED BY <1>2, <1>3, <1>4 DEF MigrateInv

-----------------------------------------------------------------------------
LEMMA SwapKeeps ==
  ASSUME MigrateInv, NEW v \in Version \cup {Solitary}, SwapTable(v)
  PROVE  MigrateInv'
<1>1. /\ UNCHANGED <<config, inherited, skipped, copied, answer, pc, pending, list_version, cur, finish>>
      /\ UNCHANGED races /\ table_version' = v /\ updater[v] = "wait"
      /\ updater' = [updater EXCEPT ![v] = "reset"]
      /\ \A u \in Version : updater[u] \in {"none", "wait"}
  BY DEF SwapTable, Holding, thread, history
<1>2. v \in Version /\ v # Solitary
  BY <1>1, VersionFacts DEF MigrateInv, Installing
<1>3. Installing'
  BY <1>1, <1>2 DEF MigrateInv, Installing, UpdaterState, config
<1>4. Copying' /\ TakenOver'
  BY <1>1 DEF MigrateInv, Copying, TakenOver, config
<1>5. updater'[table_version'] = "reset"
  BY <1>1 DEF MigrateInv, Installing
<1>6. DoneMeansCopied' /\ MovedMeansCopied' /\ RemovedWereMigrated'
  BY <1>1, <1>5 DEF MigrateInv, DoneMeansCopied, MovedMeansCopied, RemovedWereMigrated, config
<1> QED BY <1>3, <1>4, <1>6 DEF MigrateInv

LEMMA ResetKeeps ==
  ASSUME MigrateInv, NEW v \in Version \cup {Solitary}, ResetDoneSet(v)
  PROVE  MigrateInv'
<1>1. /\ UNCHANGED <<table_version, config, skipped, copied, races, answer, pc, pending, list_version,
                     cur, finish>>
      /\ updater[v] = "reset" /\ updater' = [updater EXCEPT ![v] = "changed"]
  BY DEF ResetDoneSet, thread
<1>2. PICK state \in {IF v = cs_version THEN cs_moved ELSE {}, {}} :
         /\ migrate_done_set' = IF can_work THEN {} ELSE state
         /\ inherited' = IF can_work THEN inherited ELSE inherited \cup {<<v, b>> : b \in state}
  BY DEF ResetDoneSet
<1>3. v \in Version /\ table_version = v /\ v <= cs_version
  BY <1>1 DEF MigrateInv, Installing
<1>4. inherited \subseteq inherited' /\ \A b \in migrate_done_set' : <<v, b>> \in inherited'
  BY <1>2
<1>5. Installing'
  BY <1>1, <1>3 DEF MigrateInv, Installing, UpdaterState, config
<1>6. Copying'
  BY <1>1 DEF MigrateInv, Copying
<1>7. TakenOver'
  <2>1. \A p \in inherited' : p \in inherited \/ \E b \in state : p = <<v, b>>
    BY <1>2
  <2>2. \A b \in state : v = cs_version => b \in cs_moved
    BY <1>2
  <2> QED BY SMTT(60), <1>1, <1>3, <2>1, <2>2 DEF MigrateInv, TakenOver, config
<1>8. DoneMeansCopied' /\ MovedMeansCopied' /\ RemovedWereMigrated'
  BY <1>1, <1>3, <1>4 DEF MigrateInv, DoneMeansCopied, MovedMeansCopied, RemovedWereMigrated, config
<1> QED BY <1>5, <1>6, <1>7, <1>8 DEF MigrateInv

\* A step of do_server_list_changed or signal().
LEMMA UpdaterFrame ==
  ASSUME MigrateInv, NEW v \in Version \cup {Solitary}, NEW next \in UpdaterState,
         next \notin {"wait", "reset"}, v = Solitary => next \notin {"list", "signal"},
         updater[v] \notin {"none", "wait", "reset"}, updater' = [updater EXCEPT ![v] = next],
         UNCHANGED <<table_version, migrate_done_set, config, copied, inherited>>,
         races \subseteq races', RemovedWereMigrated', Copying'
  PROVE  MigrateInv'
<1>1. Installing'
  BY VersionFacts DEF MigrateInv, Installing, config
<1>2. TakenOver' /\ MovedMeansCopied'
  BY DEF MigrateInv, TakenOver, MovedMeansCopied, config
<1>3. updater[table_version] = "reset" => updater'[table_version] = "reset"
  BY DEF MigrateInv, Installing
<1>4. DoneMeansCopied'
  BY <1>3 DEF MigrateInv, DoneMeansCopied
<1> QED BY <1>1, <1>2, <1>4 DEF MigrateInv

LEMMA ChangedKeeps ==
  ASSUME MigrateInv, NEW v \in Version \cup {Solitary},
         ReadRunning(v) \/ WriteStopped(v) \/ Spin(v) \/ WriteHold(v) \/ Signal(v)
  PROVE  MigrateInv'
<1>1. /\ UNCHANGED <<table_version, migrate_done_set, config, copied, inherited, skipped, pending,
                     list_version, cur, finish, answer>>
      /\ races \subseteq races'
      /\ pc' = pc \/ pc' = "woken"
      /\ updater[v] \in {"changed", "stop", "spin", "hold", "signal"}
  BY DEF ReadRunning, WriteStopped, Spin, WriteHold, Signal, thread, tables, history
<1>2. PICK next \in UpdaterState :
         /\ updater' = [updater EXCEPT ![v] = next]
         /\ next \notin {"wait", "reset"} /\ (v = Solitary => next \notin {"list", "signal"})
  BY DEF ReadRunning, WriteStopped, Spin, WriteHold, Signal, UpdaterState
<1>3. RemovedWereMigrated' /\ Copying'
  BY <1>1 DEF MigrateInv, RemovedWereMigrated, Copying
<1> QED BY <1>1, <1>2, <1>3, UpdaterFrame

\* What is left off the list has its bit, and the bits are those of this table.
LEMMA ListKeeps ==
  ASSUME MigrateInv, NEW v \in Version \cup {Solitary}, SetMigrateServerList(v)
  PROVE  MigrateInv'
<1>1. /\ UNCHANGED <<table_version, migrate_done_set, config, copied, inherited, pc, pending,
                     list_version, cur, finish, answer>>
      /\ races \subseteq races' /\ updater[v] = "list"
      /\ updater' = [updater EXCEPT ![v] = "signal"]
      /\ skipped' = skipped \cup {<<v, b>> : b \in DOMAIN migrates \ (DOMAIN migrates \ migrate_done_set)}
  BY DEF SetMigrateServerList, thread, tables
<1>2. v \in Version /\ table_version = v
  BY <1>1 DEF MigrateInv, Installing
<1>3. \A b \in migrate_done_set : <<v, b>> \in copied \cup inherited \/ "done late" \in races
  BY <1>1, <1>2 DEF MigrateInv, DoneMeansCopied
<1>4. RemovedWereMigrated'
  BY <1>1, <1>3 DEF MigrateInv, RemovedWereMigrated
<1>5. Copying'
  BY <1>1 DEF MigrateInv, Copying
<1>6. v # Solitary
  BY <1>2, VersionFacts
<1>7. "signal" \in UpdaterState
  BY DEF UpdaterState
<1> QED BY <1>1, <1>4, <1>5, <1>6, <1>7, UpdaterFrame

-----------------------------------------------------------------------------
LEMMA ResponseKeeps == ASSUME MigrateInv, HeartbeatResponse PROVE MigrateInv'
<1>1. /\ UNCHANGED <<table_version, migrate_done_set, config, copied, inherited, skipped, races, pc,
                     pending, list_version, cur, finish, answer>>
      /\ updater[cs_version] = "none" /\ updater' = [updater EXCEPT ![cs_version] = "wait"]
  BY DEF HeartbeatResponse, thread, history
<1>2. Installing'
  BY SMTT(60), <1>1, VersionFacts DEF MigrateInv, Installing, UpdaterState, config
<1>3. Copying' /\ TakenOver' /\ MovedMeansCopied' /\ RemovedWereMigrated'
  BY <1>1 DEF MigrateInv, Copying, TakenOver, MovedMeansCopied, RemovedWereMigrated, config
<1>4. DoneMeansCopied'
  BY <1>1 DEF MigrateInv, Installing, DoneMeansCopied
<1> QED BY <1>2, <1>3, <1>4 DEF MigrateInv

\* The heartbeat reports bits of the table in use, or early.
LEMMA ReportKeeps == ASSUME MigrateInv, HeartbeatReport PROVE MigrateInv'
<1>1. /\ UNCHANGED <<tables, updater, cs_version, sent_away, copied, inherited, skipped, pc,
                     pending, list_version, cur, finish, answer>>
      /\ races \subseteq races'
      /\ cs_moved \subseteq cs_moved' /\ cs_moved' \subseteq cs_moved \cup migrate_done_set
      /\ migrate_done_set # {} => \/ "early report" \in races'
                                  \/ table_version = cs_version /\ updater[cs_version] # "reset"
  <2>1. /\ UNCHANGED <<tables, updater, cs_version, sent_away, copied, inherited, skipped, pc,
                       pending, list_version, cur, finish, answer>>
        /\ cs_moved' = cs_moved \cup (migrate_done_set \cap DOMAIN plan[cs_version])
        /\ races' = IF migrate_done_set # {} /\
                       (table_version # cs_version \/ updater[cs_version] = "reset")
                    THEN races \cup {"early report"} ELSE races
    BY DEF HeartbeatReport, thread
  <2>2. cs_moved \subseteq cs_moved' /\ cs_moved' \subseteq cs_moved \cup migrate_done_set
    BY <2>1
  <2>3. races \subseteq races'
    BY <2>1
  <2>4. migrate_done_set # {} => \/ "early report" \in races'
                                 \/ table_version = cs_version /\ updater[cs_version] # "reset"
    <3>1. ASSUME migrate_done_set # {}, table_version # cs_version \/ updater[cs_version] = "reset"
          PROVE  races' = races \cup {"early report"}
      BY <2>1, <3>1
    <3> QED BY <3>1
  <2> QED BY <2>1, <2>2, <2>3, <2>4
<1>2. Installing' /\ Copying' /\ TakenOver'
  BY <1>1 DEF MigrateInv, Installing, Copying, TakenOver, tables
<1>3. DoneMeansCopied' /\ RemovedWereMigrated'
  BY <1>1 DEF MigrateInv, DoneMeansCopied, RemovedWereMigrated, tables
<1>4. ASSUME NEW b \in cs_moved', races' \cap {"done late", "stale list", "early report"} = {}
      PROVE  <<cs_version, b>> \in copied
  <2>1. CASE b \in cs_moved
    BY <1>1, <1>4, <2>1 DEF MigrateInv, MovedMeansCopied
  <2>2. CASE b \in migrate_done_set /\ b \notin cs_moved
    <3>1. table_version = cs_version /\ updater[cs_version] # "reset" /\ "done late" \notin races
      BY <1>1, <1>4, <2>2
    <3>2. <<cs_version, b>> \in copied \cup inherited
      BY <2>2, <3>1 DEF MigrateInv, DoneMeansCopied
    <3>3. <<cs_version, b>> \notin inherited
      BY <2>2 DEF MigrateInv, TakenOver
    <3> QED BY <3>2, <3>3
  <2> QED BY <1>1, <1>4, <2>1, <2>2
<1>5. MovedMeansCopied'
  BY <1>1, <1>4 DEF MovedMeansCopied
<1> QED BY <1>2, <1>3, <1>5 DEF MigrateInv

LEMMA HandleFinishKeeps == ASSUME MigrateInv, HandleFinish PROVE MigrateInv'
<1>1. /\ UNCHANGED <<tables, updater, cs_version, sent_away, copied, inherited, skipped, races, pc,
                     pending, list_version, cur, finish>>
      /\ answer' \in {"none", "ok", "refused"} /\ pc = "asked"
      /\ cs_moved \subseteq cs_moved' /\ cs_moved' \subseteq cs_moved \cup {cur}
      /\ cs_moved' # cs_moved => finish = cs_version
  BY DEF HandleFinish, history
<1>2. Installing' /\ Copying' /\ TakenOver'
  BY <1>1 DEF MigrateInv, Installing, Copying, TakenOver, tables
<1>3. DoneMeansCopied' /\ RemovedWereMigrated'
  BY <1>1 DEF MigrateInv, DoneMeansCopied, RemovedWereMigrated, tables
<1>4. MovedMeansCopied'
  BY <1>1 DEF MigrateInv, Copying, MovedMeansCopied
<1> QED BY <1>2, <1>3, <1>4 DEF MigrateInv

LEMMA NewTableKeeps == ASSUME MigrateInv, NewTable PROVE MigrateInv'
<1>1. /\ UNCHANGED <<tables, updater, sent_away, copied, inherited, skipped, races, pc,
                     pending, list_version, cur, finish, answer>>
      /\ cs_version' = cs_version + 1 /\ cs_moved' = {}
  BY DEF NewTable, history, thread
<1>2. cs_version <= MaxDisturbances
  BY SMTT(60), VersionFacts, MigrateAssumption DEF NewTable, Quiet, MigrateInv, Installing
<1>3. cs_version' \in Version /\ cs_version \in Nat
  BY <1>1, <1>2, VersionFacts DEF MigrateInv, Installing
<1>4. Installing'
  BY SMTT(60), <1>1, <1>3, VersionFacts DEF MigrateInv, Installing, tables
<1>5. Copying' /\ MovedMeansCopied'
  BY <1>1 DEF MigrateInv, Copying, MovedMeansCopied
<1>6. TakenOver'
  <2> SUFFICES ASSUME NEW p \in inherited
               PROVE  p[1] \in Version /\ p[1] <= cs_version' /\ p[1] # cs_version'
    BY <1>1 DEF TakenOver
  <2>1. p[1] \in Version /\ p[1] <= cs_version
    BY DEF MigrateInv, TakenOver
  <2>2. p[1] \in Nat
    BY <2>1, VersionFacts
  <2> QED BY SMTT(60), <1>1, <1>3, <2>1, <2>2
<1>7. DoneMeansCopied' /\ RemovedWereMigrated'
  BY <1>1 DEF MigrateInv, DoneMeansCopied, RemovedWereMigrated, tables
<1> QED BY <1>4, <1>5, <1>6, <1>7 DEF MigrateInv

\* set_solitary starts to pass through do_server_list_changed; the set of done
\* bits stays as it is.
LEMMA SolitaryKeeps == ASSUME MigrateInv, SetSolitary PROVE MigrateInv'
<1>1. /\ UNCHANGED <<table_version, migrate_done_set, cs_version, cs_moved, copied, inherited, skipped,
                     races, pc, pending, list_version, cur, finish, answer>>
      /\ sent_away' = sent_away + 1 /\ updater[Solitary] = "none"
      /\ updater' = updater \/ updater' = [updater EXCEPT ![Solitary] = "changed"]
  BY DEF SetSolitary, thread, history
<1>2. Installing'
  <2>1. sent_away' \in Nat
    BY SMTT(60), <1>1 DEF MigrateInv, Installing
  <2>2. CASE updater' = updater
    BY <1>1, <2>1, <2>2 DEF MigrateInv, Installing
  <2>3. CASE updater' = [updater EXCEPT ![Solitary] = "changed"]
    <3>1. updater' \in [Version \cup {Solitary} -> UpdaterState] /\ updater'[Solitary] = "changed"
          /\ \A v \in Version : updater'[v] = updater[v]
      BY <2>3, VersionFacts DEF MigrateInv, Installing, UpdaterState
    <3> QED BY <1>1, <2>1, <3>1 DEF MigrateInv, Installing
  <2> QED BY <1>1, <2>2, <2>3
<1>3. Copying' /\ TakenOver' /\ MovedMeansCopied' /\ RemovedWereMigrated'
  BY <1>1 DEF MigrateInv, Copying, TakenOver, MovedMeansCopied, RemovedWereMigrated
<1>4. DoneMeansCopied'
  BY <1>1 DEF MigrateInv, Installing, DoneMeansCopied
<1> QED BY <1>2, <1>3, <1>4 DEF MigrateInv

LEMMA StopKeeps ==
  ASSUME MigrateInv, StopAsked \/ StopThread \/ UNCHANGED vars PROVE MigrateInv'
<1>1. /\ UNCHANGED <<tables, updater, config, inherited, skipped, copied, pending, list_version, cur,
                     finish, answer>>
      /\ races \subseteq races' /\ (pc' = pc \/ pc' = "woken")
  BY DEF StopAsked, StopThread, vars, history, thread
<1>2. Copying'
  BY <1>1 DEF MigrateInv, Copying
<1> QED BY <1>1, <1>2, Frame

\* The strengthened invariant is kept by every step of the migration thread, of
\* the threads that install tables and of the config server.
LEMMA MigrateStep == MigrateInv /\ [Next]_vars => MigrateInv'
<1> SUFFICES ASSUME MigrateInv, [Next]_vars PROVE MigrateInv'
  OBVIOUS
<1>1. CASE ThreadStep
  BY <1>1, RunKeeps, CopyKeeps, FinishKeeps, SetDoneKeeps DEF ThreadStep
<1>2. ASSUME NEW v \in Version \cup {Solitary}, UpdaterStep(v) PROVE MigrateInv'
  BY <1>2, SwapKeeps, ResetKeeps, ChangedKeeps, ListKeeps DEF UpdaterStep
<1>3. CASE HeartbeatResponse \/ HeartbeatReport \/ HandleFinish \/ NewTable
  BY <1>3, ResponseKeeps, ReportKeeps, HandleFinishKeeps, NewTableKeeps
<1>4. CASE SetSolitary \/ StopAsked \/ StopThread \/ UNCHANGED vars
  BY <1>4, SolitaryKeeps, StopKeeps
<1>5. CASE SpuriousWakeup
  BY <1>5, RunKeeps
<1> QED BY <1>1, <1>2, <1>3, <1>4, <1>5 DEF Next, QuietNext

LEMMA MigrateAlways == Spec => []MigrateInv
BY MigrateInit, MigrateStep, PTL DEF Spec

\* A bucket whose bit is set in migrate_done_set was copied for the table in use,
\* or had been when the server joined, but for a bit set late.
THEOREM DoneCorrect == Spec => []DoneMeansCopied
<1>1. MigrateInv => DoneMeansCopied
  BY DEF MigrateInv
<1> QED BY <1>1, MigrateAlways, PTL

\* A bucket that do_finish_migrate or do_proxy_report took for moved was copied
\* under the config server's version, but for the races the property names.
THEOREM MovedCorrect == Spec => []MovedMeansCopied
<1>1. MigrateInv => MovedMeansCopied
  BY DEF MigrateInv
<1> QED BY <1>1, MigrateAlways, PTL

\* A bucket that update_server_table leaves off the migrate list as done needs no
\* copy any more, but for a bit set late.
THEOREM RemovedCorrect == Spec => []RemovedWereMigrated
<1>1. MigrateInv => RemovedWereMigrated
  BY DEF MigrateInv
<1> QED BY <1>1, MigrateAlways, PTL

-----------------------------------------------------------------------------
(***************************************************************************)
(* The items of one bucket (BucketCopy), for any keys, values, packet size *)
(* and numbers of writes and sends.                                        *)
(***************************************************************************)
\* What a packet has for a key nobody wrote during the move is what the source has,
\* and the destination has that or nothing; once the scan is past the key and its
\* packet is acknowledged, the destination has it.
KeyCopied(k) ==
    /\ \A p \in net : k \in DOMAIN p => p[k] = src[k]
    /\ k \in DOMAIN packet => packet[k] = src[k]
    /\ phase # "done" => dst[k] \in {Absent, src[k]}
    /\ phase # "done" /\ sends = 0 => dst[k] = Absent
    /\ phase \in {"scan", "send", "lock"} /\ k \notin unscanned \cup DOMAIN packet => dst[k] = src[k]

\* The stores, and what is under way between them.
CopyTypes ==
    /\ src \in [Key -> Copy!Stored] /\ dst \in [Key -> Copy!Stored] /\ latest \in [Key -> Copy!Stored]
    /\ phase \in {"idle", "scan", "send", "lock", "done"} /\ sends \in Nat
    /\ \A p \in net \cup {packet} : \A k \in DOMAIN p : p[k] \in Copy!Stored

CopyPhases ==
    /\ phase # "done" => latest = src
    /\ sends = 0 => net = {}
    /\ phase \in {"idle", "lock"} => DOMAIN packet = {}
    /\ phase = "lock" => unscanned = {}

CopyInv == CopyTypes /\ CopyPhases /\ (\A k \in Key \ touched : KeyCopied(k)) /\ Copy!UntouchedKeysArrive

LEMMA CopyInit == Copy!Init => CopyInv
<1> SUFFICES ASSUME Copy!Init PROVE CopyInv
  OBVIOUS
<1>1. /\ src \in [Key -> Copy!Stored] /\ dst = [k \in Key |-> Absent] /\ latest = src
      /\ phase = "idle" /\ packet = Copy!Empty /\ net = {} /\ sends = 0
  BY DEF Copy!Init
<1>2. DOMAIN packet = {}
  BY <1>1 DEF Copy!Empty
<1>3. CopyTypes /\ CopyPhases
  BY <1>1, <1>2 DEF CopyTypes, CopyPhases, Copy!Stored
<1>4. \A k \in Key \ touched : KeyCopied(k)
  BY <1>1, <1>2 DEF KeyCopied
<1> QED BY <1>1, <1>3, <1>4 DEF CopyInv, Copy!UntouchedKeysArrive

\* The steps of the thread that scans and sends leave the stores alone.
LEMMA ScanCopies ==
  ASSUME CopyInv, UNCHANGED <<src, dst, sends, net, latest, touched, late>>,
         \/ Copy!StartScan \/ Copy!Abort \/ Copy!EndScan \/ Copy!Finish
         \/ \E k \in Key : Copy!ScanItem(k)
  PROVE  CopyInv'
<1>0. CopyTypes /\ CopyPhases /\ (\A k \in Key \ touched : KeyCopied(k))
  BY DEF CopyInv
<1>1. DOMAIN Copy!Empty = {}
  BY DEF Copy!Empty
<1>2. CASE Copy!StartScan
  <2>1. phase = "idle" /\ phase' = "scan" /\ unscanned' = Key /\ packet' = Copy!Empty
    BY <1>2 DEF Copy!StartScan
  <2>2. CopyTypes' /\ CopyPhases'
    BY <1>0, <1>1, <2>1 DEF CopyTypes, CopyPhases
  <2>3. \A k \in Key \ touched' : KeyCopied(k)'
    BY <1>0, <1>1, <2>1 DEF KeyCopied
  <2> QED BY <2>1, <2>2, <2>3 DEF CopyInv, Copy!UntouchedKeysArrive
<1>3. CASE Copy!Abort
  <2>1. phase \in {"scan", "send", "lock"} /\ phase' = "idle" /\ packet' = Copy!Empty
    BY <1>3 DEF Copy!Abort
  <2>2. CopyTypes' /\ CopyPhases'
    BY <1>0, <1>1, <2>1 DEF CopyTypes, CopyPhases
  <2>3. \A k \in Key \ touched' : KeyCopied(k)'
    BY <1>0, <1>1, <2>1 DEF KeyCopied
  <2> QED BY <2>1, <2>2, <2>3 DEF CopyInv, Copy!UntouchedKeysArrive
<1>4. CASE Copy!EndScan
  <2>1. /\ phase = "scan" /\ unscanned = {} /\ UNCHANGED <<unscanned, packet>>
        /\ phase' = "send" \/ (phase' = "lock" /\ packet = Copy!Empty)
    BY <1>4 DEF Copy!EndScan
  <2>2. CopyTypes' /\ CopyPhases'
    BY <1>0, <1>1, <2>1 DEF CopyTypes, CopyPhases
  <2>3. \A k \in Key \ touched' : KeyCopied(k)'
    BY <1>0, <2>1 DEF KeyCopied
  <2> QED BY <2>1, <2>2, <2>3 DEF CopyInv, Copy!UntouchedKeysArrive
<1>5. CASE Copy!Finish
  <2>1. phase = "lock" /\ phase' = "done" /\ UNCHANGED <<unscanned, packet>>
    BY <1>5 DEF Copy!Finish
  <2>2. CopyTypes' /\ CopyPhases'
    BY <1>0, <2>1 DEF CopyTypes, CopyPhases
  <2>3. \A k \in Key \ touched' : KeyCopied(k)'
    BY <1>0, <2>1 DEF KeyCopied
  <2>4. \A k \in Key \ touched : dst[k] = latest[k]
    BY <1>0, <2>1 DEF KeyCopied, CopyPhases
  <2> QED BY <2>2, <2>3, <2>4 DEF CopyInv, Copy!UntouchedKeysArrive
<1>6. ASSUME NEW k \in Key, Copy!ScanItem(k) PROVE CopyInv'
  <2>1. phase = "scan" /\ k \in unscanned /\ phase' \in {"scan", "send"}
    BY <1>6 DEF Copy!ScanItem
  <2>2. CASE src[k] = Absent /\ unscanned' = unscanned \ {k} /\ UNCHANGED <<packet, phase>>
    <3>1. CopyTypes' /\ CopyPhases'
      BY <1>0, <2>1, <2>2 DEF CopyTypes, CopyPhases
    <3>2. \A j \in Key \ touched' : KeyCopied(j)'
      BY <1>0, <2>1, <2>2 DEF KeyCopied
    <3> QED BY <2>1, <2>2, <3>1, <3>2 DEF CopyInv, Copy!UntouchedKeysArrive
  <2>3. CASE /\ packet' = [j \in DOMAIN packet \cup {k} |-> IF j = k THEN src[k] ELSE packet[j]]
             /\ unscanned' = unscanned \ {k} /\ UNCHANGED phase
    <3>1. /\ DOMAIN packet' = DOMAIN packet \cup {k} /\ packet'[k] = src[k]
          /\ \A j \in DOMAIN packet : j # k => packet'[j] = packet[j]
      BY <2>3
    <3>2. CopyTypes' /\ CopyPhases'
      BY <1>0, <2>1, <2>3, <3>1 DEF CopyTypes, CopyPhases
    <3>3. \A j \in Key \ touched' : KeyCopied(j)'
      BY <1>0, <2>1, <2>3, <3>1 DEF KeyCopied
    <3> QED BY <2>1, <2>3, <3>2, <3>3 DEF CopyInv, Copy!UntouchedKeysArrive
  <2>4. CASE UNCHANGED <<packet, unscanned>> /\ phase' = "send"
    <3>1. CopyTypes' /\ CopyPhases'
      BY <1>0, <2>1, <2>4 DEF CopyTypes, CopyPhases
    <3>2. \A j \in Key \ touched' : KeyCopied(j)'
      BY <1>0, <2>1, <2>4 DEF KeyCopied
    <3> QED BY <2>1, <2>4, <3>1, <3>2 DEF CopyInv, Copy!UntouchedKeysArrive
  <2> QED BY <1>6, <2>2, <2>3, <2>4 DEF Copy!ScanItem
<1> QED BY <1>2, <1>3, <1>4, <1>5, <1>6

LEMMA SendCopies == ASSUME CopyInv, Copy!SendPacket PROVE CopyInv'
<1>0. CopyTypes /\ CopyPhases /\ (\A k \in Key \ touched : KeyCopied(k))
  BY DEF CopyInv
<1>1. /\ phase = "send" /\ net' = net \cup {packet} /\ sends' = sends + 1
      /\ UNCHANGED <<src, dst, phase, unscanned, packet, latest, touched, late>>
  BY DEF Copy!SendPacket
<1>2. sends' \in Nat /\ sends' # 0
  BY SMTT(60), <1>0, <1>1 DEF CopyTypes
<1>3. CopyTypes' /\ CopyPhases'
  BY <1>0, <1>1, <1>2 DEF CopyTypes, CopyPhases
<1>4. \A k \in Key \ touched' : KeyCopied(k)'
  BY <1>0, <1>1, <1>2 DEF KeyCopied
<1> QED BY <1>1, <1>3, <1>4 DEF CopyInv, Copy!UntouchedKeysArrive

\* The destination takes some of the records of p; the migration goes on from a
\* packet only when it took all of them.
LEMMA DeliverCopies ==
  ASSUME CopyInv, NEW p \in net, NEW some \in SUBSET DOMAIN p,
         dst' = [k \in Key |-> IF k \in some THEN p[k] ELSE dst[k]],
         late' = IF phase = "done" THEN late \cup {k \in some : dst[k] # p[k]} ELSE late,
         net' \subseteq net,
         \/ UNCHANGED <<phase, packet>>
         \/ /\ phase = "send" /\ p = packet /\ some = DOMAIN p /\ packet' = Copy!Empty
            /\ phase' = IF unscanned = {} THEN "lock" ELSE "scan",
         UNCHANGED <<src, unscanned, sends, latest, touched>>
  PROVE  CopyInv'
<1>0. /\ CopyTypes /\ CopyPhases /\ (\A k \in Key \ touched : KeyCopied(k))
      /\ DOMAIN Copy!Empty = {} /\ (phase' = "done") = (phase = "done")
  BY DEF CopyInv, Copy!Empty
<1>1. sends # 0
  BY <1>0 DEF CopyPhases
<1>2. \A k \in Key : dst'[k] = IF k \in some THEN p[k] ELSE dst[k]
  OBVIOUS
<1>3. CopyTypes'
  <2>1. dst' \in [Key -> Copy!Stored]
    BY <1>0 DEF CopyTypes
  <2>2. phase' \in {"idle", "scan", "send", "lock", "done"}
    BY <1>0 DEF CopyTypes
  <2>3. \A q \in net' \cup {packet'} : \A k \in DOMAIN q : q[k] \in Copy!Stored
    BY <1>0 DEF CopyTypes
  <2> QED BY <1>0, <2>1, <2>2, <2>3 DEF CopyTypes
<1>4. CopyPhases'
  BY <1>0, <1>1 DEF CopyPhases
<1>5. ASSUME NEW k \in Key \ touched PROVE KeyCopied(k)'
  <2>1. KeyCopied(k) /\ (k \in some => p[k] = src[k])
    BY <1>0 DEF KeyCopied
  <2>2. CASE UNCHANGED <<phase, packet>>
    BY <1>1, <1>2, <2>1, <2>2 DEF KeyCopied
  <2>3. CASE /\ phase = "send" /\ p = packet /\ some = DOMAIN p /\ packet' = Copy!Empty
             /\ phase' \in {"lock", "scan"}
    BY <1>0, <1>1, <1>2, <2>1, <2>3 DEF KeyCopied
  <2> QED BY <2>2, <2>3
<1>6. Copy!UntouchedKeysArrive'
  <2>1. CASE phase # "done"
    BY <1>0, <2>1 DEF Copy!UntouchedKeysArrive
  <2>2. CASE phase = "done"
    <3>1. late' = late \cup {k \in some : dst[k] # p[k]}
      BY <2>2
    <3> QED BY <1>2, <2>2, <3>1 DEF CopyInv, Copy!UntouchedKeysArrive
  <2> QED BY <2>1, <2>2
<1> QED BY <1>3, <1>4, <1>5, <1>6 DEF CopyInv

\* A key that is still not touched was written before the first scan, when nothing
\* of it is under way, or when the bucket is done.
LEMMA WriteCopies ==
  ASSUME CopyInv, NEW w \in Key, NEW v \in Copy!Stored, Copy!ClientWrite(w, v) PROVE CopyInv'
<1>0. CopyTypes /\ CopyPhases /\ (\A k \in Key \ touched : KeyCopied(k))
  BY DEF CopyInv
<1>1. /\ latest' = [latest EXCEPT ![w] = v] /\ UNCHANGED <<phase, unscanned, packet, net, sends, late>>
      /\ touched' = IF phase # "done" /\ (phase # "idle" \/ sends > 0) THEN touched \cup {w} ELSE touched
  BY DEF Copy!ClientWrite
<1>2. CASE phase = "done"
  <2>1. dst' = [dst EXCEPT ![w] = v] /\ UNCHANGED <<src, touched>>
    BY <1>1, <1>2 DEF Copy!ClientWrite
  <2>2. CopyTypes' /\ CopyPhases'
    BY <1>0, <1>1, <1>2, <2>1 DEF CopyTypes, CopyPhases
  <2>3. \A k \in Key \ touched' : KeyCopied(k)'
    BY <1>0, <1>1, <1>2, <2>1 DEF KeyCopied
  <2>4. \A k \in Key \ (touched \cup late) : dst'[k] = latest'[k]
    BY <1>0, <1>1, <1>2, <2>1 DEF CopyInv, CopyTypes, Copy!UntouchedKeysArrive
  <2> QED BY <1>1, <2>1, <2>2, <2>3, <2>4 DEF CopyInv, Copy!UntouchedKeysArrive
<1>3. CASE phase # "done"
  <2>1. src' = [src EXCEPT ![w] = v] /\ UNCHANGED dst
    BY <1>3 DEF Copy!ClientWrite
  <2>2. CopyTypes' /\ CopyPhases'
    BY <1>0, <1>1, <1>3, <2>1 DEF CopyTypes, CopyPhases
  <2>3. ASSUME NEW k \in Key \ touched' PROVE KeyCopied(k)'
    <3>1. KeyCopied(k)
      BY <1>0, <1>1
    <3>2. CASE k # w
      <4>1. src'[k] = src[k]
        BY <1>0, <2>1, <3>2 DEF CopyTypes
      <4> QED BY <1>1, <2>1, <3>1, <4>1 DEF KeyCopied
    <3>3. CASE k = w
      <4>1. phase = "idle" /\ sends = 0
        BY SMTT(60), <1>0, <1>1, <1>3, <3>3 DEF CopyTypes
      <4> QED BY <1>0, <1>1, <2>1, <3>1, <4>1 DEF KeyCopied, CopyPhases
    <3> QED BY <3>2, <3>3
  <2> QED BY <1>1, <1>3, <2>2, <2>3 DEF CopyInv, Copy!UntouchedKeysArrive
<1> QED BY <1>2, <1>3

LEMMA CopyStep == CopyInv /\ [Copy!Next]_(Copy!vars) => CopyInv'
<1> SUFFICES ASSUME CopyInv, [Copy!Next]_(Copy!vars) PROVE CopyInv'
  OBVIOUS
<1>1. CASE \/ Copy!StartScan \/ Copy!Abort \/ Copy!EndScan \/ Copy!Finish
           \/ \E k \in Key : Copy!ScanItem(k)
  <2>1. UNCHANGED <<src, dst, sends, net, latest, touched, late>>
    BY <1>1 DEF Copy!StartScan, Copy!Abort, Copy!EndScan, Copy!Finish, Copy!ScanItem
  <2> QED BY <1>1, <2>1, ScanCopies
<1>2. CASE Copy!SendPacket
  BY <1>2, SendCopies
<1>3. ASSUME NEW p \in net, Copy!Deliver(p) PROVE CopyInv'
  <2>1. DOMAIN p \in SUBSET DOMAIN p /\ net' \subseteq net
    BY <1>3 DEF Copy!Deliver
  <2> QED BY <1>3, <2>1, DeliverCopies DEF Copy!Deliver
<1>4. ASSUME NEW p \in net, Copy!DeliverPartly(p) PROVE CopyInv'
  <2>1. PICK some \in SUBSET DOMAIN p :
           /\ dst' = [k \in Key |-> IF k \in some THEN p[k] ELSE dst[k]]
           /\ late' = IF phase = "done" THEN late \cup {k \in some : dst[k] # p[k]} ELSE late
    BY <1>4 DEF Copy!DeliverPartly
  <2>2. net' \subseteq net /\ UNCHANGED <<src, phase, unscanned, packet, sends, latest, touched>>
    BY <1>4 DEF Copy!DeliverPartly
  <2> QED BY <2>1, <2>2, DeliverCopies
<1>5. ASSUME NEW k \in Key, NEW v \in Copy!Stored, Copy!ClientWrite(k, v) PROVE CopyInv'
  BY <1>5, WriteCopies
<1>6. CASE UNCHANGED Copy!vars
  BY <1>6 DEF Copy!vars, CopyInv, CopyTypes, CopyPhases, KeyCopied, Copy!UntouchedKeysArrive
<1> QED BY <1>1, <1>2, <1>3, <1>4, <1>5, <1>6 DEF Copy!Next

(***************************************************************************)
(* A bucket that do_migrate_one_bucket has moved arrives whole: every key  *)
(* that no client wrote during the move is at the destination as the last  *)
(* acknowledged write left it, whatever packets were sent again, applied   *)
(* in part or out of order, and however often the migration was stopped.   *)
(***************************************************************************)
THEOREM CopyCorrect == Copy!Spec => []UntouchedKeysArrive
<1>1. CopyInv => UntouchedKeysArrive
  BY DEF CopyInv, UntouchedKeysArrive
<1> QED BY <1>1, CopyInit, CopyStep, PTL DEF Copy!Spec

=============================================================================
