------------------------------- MODULE Migrate -------------------------------
(***************************************************************************)
(* The migration side of one data server: the thread of migrate_manager,   *)
(* which copies the buckets this server must give away, and the threads    *)
(* that install a new server table (server_table_updater running           *)
(* tair_manager::update_server_table), which stop it and hand it a new     *)
(* list.  They share plain fields: is_running, is_stopped and version are  *)
(* read and written outside the mutex, and the condition variable of run() *)
(* is waited on after the mutex was given up, so every such access is a    *)
(* step of its own here.                                                   *)
(*                                                                         *)
(* The config server is represented by its table version and by the set of *)
(* buckets it was told are moved under that version.  A table is known by  *)
(* its version; what calculate_migrates makes of it is plan[v], from the   *)
(* buckets to move to the servers that lack them.                          *)
(***************************************************************************)
EXTENDS Naturals, FiniteSets, Functions

CONSTANTS Bucket,       \* bucket numbers
          Server,       \* the servers buckets can be moved to
          Dead,         \* those that never answer
          Plans,        \* the migrate lists a table can give this server
          MaxDisturbances  \* bound on the tables after the first, on how often the
                           \* config server sends this server away and on shutdowns

ASSUME MigrateAssumption ==
    /\ Bucket \subseteq Nat /\ IsFiniteSet(Bucket)
    /\ Dead \subseteq Server
    /\ \A p \in Plans : DOMAIN p \subseteq Bucket /\ \A b \in DOMAIN p : p[b] \subseteq Server
    /\ MaxDisturbances \in Nat

VARIABLES
    \* ---- migrate_manager ----
    pc,               \* where the migration thread is
    is_signaled, is_running, is_stopped,
    shutdown,         \* how far stop() has come
    version,          \* the member version
    migrate_servers,  \* the list handed over and not taken yet
    temp_servers,     \* the part of the taken list that is still to do
    cur, pending,     \* the bucket in hand and the servers still to be sent to
    finish,           \* the version written in the finish packet in hand
    answer,           \* the config server's answer to it
    \* ---- tair_manager, table_manager, heartbeat_thread ----
    table_version, migrates, migrate_done_set, can_work, server_version,
    updater,          \* updater[v]: where the thread installing table v is
    \* ---- the config server ----
    cs_version, plan, cs_moved, reported,
    sent_away,        \* how often it has sent this server away
    \* ---- history ----
    list_version,     \* the table the taken list was computed from
    next_version,     \* the table the list not taken yet was computed from
    copied,           \* <<v, b>>: b was copied completely for table v
    inherited,        \* <<v, b>>: b was marked by the state table sent with v
    skipped,          \* <<v, b>>: b was taken off the list of v as done
    races             \* the races that have happened

thread  == <<pc, cur, pending, finish, answer, temp_servers, list_version>>
flags   == <<is_signaled, is_running, is_stopped, shutdown>>
handed  == <<version, migrate_servers, next_version>>
tables  == <<table_version, migrates, migrate_done_set, can_work, server_version>>
config  == <<cs_version, plan, cs_moved, reported, sent_away>>
history == <<copied, inherited, skipped, races>>
vars    == <<thread, flags, handed, tables, updater, config, history>>

NoPlan  == [b \in {} |-> {}]
MaxVersion == MaxDisturbances + 1
Version == 1..MaxVersion
None    == 0   \* no bucket: the -1 of the code
Solitary == 0  \* the thread in set_solitary, among the updaters
stopping == shutdown = "set"   \* _stop

Race == {"wakeup lost", "stop lost", "done late", "stale list", "early report", "round unseen"}

TypeOK ==
    /\ pc \in {"boot", "test", "towait", "wait", "woken", "run", "take", "loop", "swap",
               "copy", "lock", "drain", "ask", "asked", "accepted", "end", "exit"}
    /\ is_signaled \in BOOLEAN /\ is_stopped \in BOOLEAN
    /\ shutdown \in {"none", "asked", "set"}
    /\ is_running \in 0..2
    /\ version \in 0..MaxVersion /\ finish \in 0..MaxVersion
    /\ answer \in {"none", "ok", "refused"}
    /\ cur \in Bucket \cup {None} /\ pending \subseteq Server
    /\ migrate_done_set \subseteq Bucket /\ can_work \in BOOLEAN
    /\ updater \in [Version \cup {Solitary} -> {"none", "wait", "reset", "changed", "stop", "spin",
                                "hold", "list", "signal"}]
    /\ cs_moved \subseteq Bucket /\ reported \in BOOLEAN
    /\ table_version \in 0..MaxVersion /\ server_version \in 0..MaxVersion
    /\ races \subseteq Race

Init ==
    /\ pc = "boot" /\ cur = None /\ pending = {} /\ finish = 0 /\ answer = "none"
    /\ temp_servers = NoPlan /\ list_version = 0
    /\ is_signaled = FALSE /\ is_running = 0 /\ is_stopped = FALSE /\ shutdown = "none"
    /\ version = 0 /\ migrate_servers = NoPlan /\ next_version = 0
    /\ table_version = 0 /\ migrates = NoPlan /\ migrate_done_set = {}
    /\ can_work = FALSE /\ server_version = 0
    /\ updater = [v \in Version \cup {Solitary} |-> "none"]
    /\ cs_version = 1 /\ plan \in [1..1 -> Plans] /\ cs_moved = {} /\ reported = FALSE
    /\ sent_away = 0
    /\ copied = {} /\ inherited = {} /\ skipped = {} /\ races = {}

------------------------------------------------------------------------------
(***************************************************************************)
(* migrate_manager::run.                                                   *)
(***************************************************************************)
Boot ==
    /\ pc = "boot" /\ pc' = "test"
    /\ UNCHANGED <<cur, pending, finish, answer, temp_servers, list_version, flags,
                   handed, tables, updater, config, history>>

\* lines 78-85, up to the unlock: with the flag down the thread goes to wait.
TestSignaled ==
    /\ pc = "test"
    /\ pc' = IF is_signaled THEN "woken" ELSE "towait"
    /\ is_signaled' = FALSE
    /\ UNCHANGED <<cur, pending, finish, answer, temp_servers, list_version, is_running,
                   is_stopped, shutdown, handed, tables, updater, config, history>>

Wait ==
    /\ pc = "towait" /\ pc' = "wait"
    /\ UNCHANGED <<cur, pending, finish, answer, temp_servers, list_version, flags,
                   handed, tables, updater, config, history>>

\* pthread_cond_wait may return without a signal, and run() does not test again.
SpuriousWakeup ==
    /\ pc = "wait" /\ pc' = "woken"
    /\ UNCHANGED <<cur, pending, finish, answer, temp_servers, list_version, flags,
                   handed, tables, updater, config, history>>

\* lines 86-89.
SetRunning ==
    /\ pc = "woken"
    /\ IF stopping
       THEN pc' = "exit" /\ UNCHANGED is_running
       ELSE pc' = "run" /\ is_running' = 1
    /\ races' = IF ~stopping /\ ~is_stopped /\ \E v \in DOMAIN updater : updater[v] = "spin"
                THEN races \cup {"stop lost"} ELSE races
    /\ UNCHANGED <<cur, pending, finish, answer, temp_servers, list_version, is_signaled,
                   is_stopped, shutdown, handed, tables, updater, config, copied,
                   inherited, skipped>>

\* line 90: a stop asked for since line 89 is wiped out.
ClearStopped ==
    /\ pc = "run" /\ pc' = "take" /\ is_stopped' = FALSE
    /\ races' = IF is_stopped THEN races \cup {"stop lost"} ELSE races
    /\ UNCHANGED <<cur, pending, finish, answer, temp_servers, list_version, is_signaled,
                   is_running, shutdown, handed, tables, updater, config, copied,
                   inherited, skipped>>

\* do_run: the list is swapped out under get_data_mutex.
TakeList ==
    /\ pc = "take"
    /\ IF migrate_servers = NoPlan
       THEN pc' = "end" /\ UNCHANGED <<temp_servers, migrate_servers, list_version>>
       ELSE /\ pc' = "loop" /\ temp_servers' = migrate_servers
            /\ migrate_servers' = NoPlan /\ list_version' = next_version
    /\ UNCHANGED <<cur, pending, finish, answer, flags, version, next_version, tables,
                   updater, config, history>>

\* lines 97-101.
EndRound ==
    /\ pc = "end" /\ pc' = "test" /\ is_running' = 0 /\ is_stopped' = FALSE
    /\ UNCHANGED <<cur, pending, finish, answer, temp_servers, list_version, is_signaled,
                   shutdown, handed, tables, updater, config, history>>

------------------------------------------------------------------------------
(***************************************************************************)
(* do_migrate and do_migrate_one_bucket.                                   *)
(***************************************************************************)
Least(S) == CHOOSE b \in S : \A c \in S : b <= c

\* The head of the loop of do_migrate, lines 156-161 and 178-182: the buckets
\* are taken in the order of the map; a bucket of which only the master changes
\* has no server to be sent to.
NextBucket ==
    /\ pc = "loop"
    /\ IF DOMAIN temp_servers = {} \/ is_stopped
       THEN /\ pc' = "end" /\ temp_servers' = NoPlan /\ cur' = None
            /\ UNCHANGED pending
       ELSE LET b == Least(DOMAIN temp_servers)
            IN  /\ cur' = b /\ pending' = temp_servers[b]
                /\ temp_servers' = Restrict(temp_servers, DOMAIN temp_servers \ {b})
                /\ pc' = IF temp_servers[b] = {} THEN "swap" ELSE "copy"
    /\ UNCHANGED <<finish, answer, list_version, flags, handed, tables, updater, config,
                   history>>

\* Mutant: a round ended by a stop counts as a success.
SendRoundStopOk ==
    /\ pc = "copy"
    /\ \E acked \in SUBSET (pending \ Dead) :
         /\ pending' = pending \ acked
         /\ pc' = IF is_stopped \/ stopping \/ pending' = {} THEN "lock" ELSE "copy"
    /\ UNCHANGED <<cur, finish, answer, temp_servers, list_version, flags, handed, tables,
                   updater, config, history>>

\* Mutant: the stop is not tested while servers are missing.
SendRoundNoStop ==
    /\ pc = "copy"
    /\ \E acked \in SUBSET (pending \ Dead) :
         /\ pending' = pending \ acked
         /\ pc' = IF pending' = {} THEN "lock" ELSE "copy"
    /\ UNCHANGED <<cur, finish, answer, temp_servers, list_version, flags, handed, tables,
                   updater, config, history>>

\* One round of send_packet over the servers that have not acknowledged: the
\* stop is tested after it, whether or not everybody has answered by then.
SendRound ==
    /\ pc = "copy"
    /\ \E acked \in SUBSET (pending \ Dead) :
         /\ pending' = pending \ acked
         /\ pc' = IF is_stopped \/ stopping THEN "loop"
                  ELSE IF pending' = {} THEN "lock" ELSE "copy"
    /\ UNCHANGED <<cur, finish, answer, temp_servers, list_version, flags, handed, tables,
                   updater, config, history>>

\* A bucket without items: migrate_data_file sends nothing and tests nothing.
NothingToSend ==
    /\ pc = "copy" /\ pc' = "lock" /\ pending' = {}
    /\ UNCHANGED <<cur, finish, answer, temp_servers, list_version, flags, handed, tables,
                   updater, config, history>>

\* Lines 201-218: the bucket is locked and the rest of the log sent (the log is
\* empty: nothing in this release writes to it).  The copy is complete.
LockBucket ==
    /\ pc = "lock" /\ pc' = "drain"
    /\ copied' = IF pending = {} THEN copied \cup {<<list_version, cur>>} ELSE copied
    /\ UNCHANGED <<cur, pending, finish, answer, temp_servers, list_version, flags, handed,
                   tables, updater, config, inherited, skipped, races>>

\* Lines 225-232 end when the duplications of the bucket are done or on a stop.
DuplicationDone ==
    /\ pc = "drain" /\ pc' = "ask" /\ finish' = version
    /\ UNCHANGED <<cur, pending, answer, temp_servers, list_version, flags, handed, tables,
                   updater, config, history>>

DrainStopped ==
    /\ pc = "drain" /\ pc' = "loop"
    /\ is_stopped \/ stopping
    /\ UNCHANGED <<cur, pending, finish, answer, temp_servers, list_version, flags, handed,
                   tables, updater, config, history>>

\* Lines 161-166, the same wait for a bucket that only changes its master, which
\* no stop ends; there is nothing to copy.
DuplicationDoneSwap ==
    /\ pc = "swap" /\ pc' = "ask" /\ finish' = version
    /\ copied' = copied \cup {<<list_version, cur>>}
    /\ UNCHANGED <<cur, pending, answer, temp_servers, list_version, flags, handed, tables,
                   updater, config, inherited, skipped, races>>

------------------------------------------------------------------------------
(***************************************************************************)
(* finish_migrate_bucket.                                                  *)
(***************************************************************************)
\* Mutant: the loop before the fix, which no stop ends.
SendFinishEndless ==
    /\ pc = "ask" /\ pc' = "ask"
    /\ UNCHANGED <<cur, pending, finish, answer, temp_servers, list_version, flags, handed,
                   tables, updater, config, history>>

\* Lines 427-447: the packet cannot be sent to any config server.
SendFinishFailed ==
    /\ pc = "ask"
    /\ pc' = IF is_stopped \/ stopping THEN "loop" ELSE "ask"
    /\ UNCHANGED <<cur, pending, finish, answer, temp_servers, list_version, flags, handed,
                   tables, updater, config, history>>

SendFinish ==
    /\ pc = "ask" /\ pc' = "asked" /\ answer' = "none"
    /\ races' = IF finish # list_version THEN races \cup {"stale list"} ELSE races
    /\ UNCHANGED <<cur, pending, finish, temp_servers, list_version, flags, handed, tables,
                   updater, config, copied, inherited, skipped>>

\* Lines 465-471 after the wait ended, by the answer or by its timeout.
FinishAnswered ==
    /\ pc = "asked"
    /\ pc' = IF is_stopped \/ stopping THEN "loop"
             ELSE CASE answer = "none" -> "ask"
                    [] answer = "ok" -> "accepted"
                    [] answer = "refused" -> "loop"
    /\ UNCHANGED <<cur, pending, finish, answer, temp_servers, list_version, flags, handed,
                   tables, updater, config, history>>

\* Lines 472-476.
SetMigrateDone ==
    /\ pc = "accepted" /\ pc' = "loop"
    /\ migrate_done_set' = migrate_done_set \cup {cur}
    /\ races' = IF table_version # list_version THEN races \cup {"done late"} ELSE races
    /\ UNCHANGED <<cur, pending, finish, answer, temp_servers, list_version, flags, handed,
                   table_version, migrates, can_work, server_version, updater, config,
                   copied, inherited, skipped>>

------------------------------------------------------------------------------
(***************************************************************************)
(* tair_manager::update_server_table, under update_server_table_mutex.     *)
(***************************************************************************)
Holding == {v \in Version : updater[v] \notin {"none", "wait"}}

\* do_update_table: the new table is in place before migrate_done_set is reset.
SwapTable(v) ==
    /\ updater[v] = "wait" /\ Holding = {}
    /\ updater' = [updater EXCEPT ![v] = "reset"]
    /\ table_version' = v /\ migrates' = plan[v]
    /\ UNCHANGED <<thread, flags, handed, migrate_done_set, can_work, server_version, config, history>>

\* Mutant: the bits of the table before are kept.
ResetDoneSetKept(v) ==
    /\ updater[v] = "reset"
    /\ updater' = [updater EXCEPT ![v] = "changed"]
    /\ can_work' = TRUE
    /\ UNCHANGED <<thread, flags, handed, table_version, migrates, migrate_done_set,
                   server_version, config, history>>

\* Lines 1449-1456; a server that was not working takes over what the config
\* server has recorded (init_migrate_done_set).
ResetDoneSet(v) ==
    /\ updater[v] = "reset"
    /\ updater' = [updater EXCEPT ![v] = "changed"]
    /\ \E state \in {IF v = cs_version THEN cs_moved ELSE {}, {}} :
         /\ migrate_done_set' = IF can_work THEN {} ELSE state
         /\ inherited' = IF can_work THEN inherited
                         ELSE inherited \cup {<<v, b>> : b \in state}
    /\ can_work' = TRUE
    /\ UNCHANGED <<thread, flags, handed, table_version, migrates, server_version, config,
                   copied, skipped, races>>

------------------------------------------------------------------------------
(***************************************************************************)
(* migrate_manager::do_server_list_changed: three reads and two writes of  *)
(* is_running and is_stopped, none of them under a lock.                   *)
(***************************************************************************)
ReadRunning(v) ==
    /\ updater[v] = "changed"
    /\ updater' = [updater EXCEPT ![v] = IF is_running = 1 THEN "stop" ELSE "spin"]
    /\ UNCHANGED <<thread, flags, handed, tables, config, history>>

WriteStopped(v) ==
    /\ updater[v] = "stop"
    /\ updater' = [updater EXCEPT ![v] = "spin"]
    /\ is_stopped' = TRUE
    /\ UNCHANGED <<thread, is_signaled, is_running, shutdown, handed, tables, config, history>>

Spin(v) ==
    /\ updater[v] = "spin" /\ is_running # 1
    /\ updater' = [updater EXCEPT ![v] = "hold"]
    /\ UNCHANGED <<thread, flags, handed, tables, config, history>>

\* Mutant: the state is counted up instead of set.
WriteHoldCount(v) ==
    /\ updater[v] = "hold"
    /\ updater' = [updater EXCEPT ![v] = IF v = Solitary \/ migrates = NoPlan
                                         THEN "none" ELSE "list"]
    /\ is_running' = is_running + 2
    /\ UNCHANGED <<thread, is_signaled, is_stopped, shutdown, handed, tables, config, history>>

WriteHold(v) ==
    /\ updater[v] = "hold"
    /\ updater' = [updater EXCEPT ![v] = IF v = Solitary \/ migrates = NoPlan
                                         THEN "none" ELSE "list"]
    /\ is_running' = 2
    /\ races' = IF is_running = 1 THEN races \cup {"round unseen"} ELSE races
    /\ UNCHANGED <<thread, is_signaled, is_stopped, shutdown, handed, tables, config,
                   copied, inherited, skipped>>

\* Mutant: the bucket that was in hand when the thread was stopped is left out too.
SetMigrateServerListLessCur(v) ==
    /\ updater[v] = "list"
    /\ updater' = [updater EXCEPT ![v] = "signal"]
    /\ LET left == DOMAIN migrates \ (migrate_done_set \cup {cur})
       IN  /\ migrate_servers' = Restrict(migrates, left)
           /\ skipped' = skipped \cup {<<v, b>> : b \in DOMAIN migrates \ left}
    /\ version' = table_version /\ next_version' = table_version /\ is_running' = 0
    /\ races' = IF is_running = 1 THEN races \cup {"round unseen"} ELSE races
    /\ UNCHANGED <<thread, is_signaled, is_stopped, shutdown, tables, config, copied,
                   inherited>>

\* Lines 1486-1497 and set_migrate_server_list up to the call of signal().
SetMigrateServerList(v) ==
    /\ updater[v] = "list"
    /\ updater' = [updater EXCEPT ![v] = "signal"]
    /\ LET left == DOMAIN migrates \ migrate_done_set
       IN  /\ migrate_servers' = Restrict(migrates, left)
           /\ skipped' = skipped \cup {<<v, b>> : b \in DOMAIN migrates \ left}
    /\ version' = table_version /\ next_version' = table_version /\ is_running' = 0
    /\ races' = IF is_running = 1 THEN races \cup {"round unseen"} ELSE races
    /\ UNCHANGED <<thread, is_signaled, is_stopped, shutdown, tables, config, copied,
                   inherited>>

\* Mutant: the flag is not raised for a thread that is running.
SignalNotRaised(v) ==
    /\ updater[v] = "signal"
    /\ updater' = [updater EXCEPT ![v] = "none"]
    /\ IF pc = "wait" THEN pc' = "woken" ELSE UNCHANGED pc
    /\ UNCHANGED <<cur, pending, finish, answer, temp_servers, list_version, flags, handed,
                   tables, config, history>>

\* signal(), under the mutex of run().
Signal(v) ==
    /\ updater[v] = "signal"
    /\ updater' = [updater EXCEPT ![v] = "none"]
    /\ IF pc \in {"boot", "exit"} \/ stopping THEN UNCHANGED <<pc, is_signaled>>
       ELSE /\ is_signaled' = TRUE
            /\ pc' = IF is_running # 1 /\ ~is_signaled /\ pc = "wait" THEN "woken" ELSE pc
    /\ races' = IF pc \in {"boot", "towait"} THEN races \cup {"wakeup lost"} ELSE races
    /\ UNCHANGED <<cur, pending, finish, answer, temp_servers, list_version, is_running,
                   is_stopped, shutdown, handed, tables, config, copied, inherited, skipped>>

------------------------------------------------------------------------------
(***************************************************************************)
(* Heartbeats, the config server and the shutdown.                         *)
(***************************************************************************)
\* heartbeat_thread::handlePacket: the version is taken over at once, the table
\* is installed by a thread of its own.
HeartbeatResponse ==
    /\ server_version # cs_version /\ updater[cs_version] = "none" /\ updater[Solitary] = "none"
    /\ server_version' = cs_version
    /\ updater' = [updater EXCEPT ![cs_version] = "wait"]
    /\ UNCHANGED <<thread, flags, handed, table_version, migrates, migrate_done_set,
                   can_work, config, history>>

\* A heartbeat under the config server's version: do_proxy_report takes the
\* buckets of the first one as moved.
HeartbeatReport ==
    /\ server_version = cs_version /\ ~reported
    /\ reported' = TRUE
    /\ cs_moved' = cs_moved \cup (migrate_done_set \cap DOMAIN plan[cs_version])
    /\ races' = IF migrate_done_set # {} /\
                   (table_version # cs_version \/ updater[cs_version] = "reset")
                THEN races \cup {"early report"} ELSE races
    /\ UNCHANGED <<thread, flags, handed, tables, updater, cs_version, plan, sent_away,
                   copied, inherited, skipped>>

\* do_finish_migrate: only a packet of the current version is accepted; the
\* answer may come too late for the waiting thread.
HandleFinish ==
    /\ pc = "asked" /\ answer = "none"
    /\ \E a \in {"none", IF finish = cs_version THEN "ok" ELSE "refused"} : answer' = a
    /\ cs_moved' = IF finish = cs_version /\ cur \in DOMAIN plan[cs_version]
                   THEN cs_moved \cup {cur} ELSE cs_moved
    /\ UNCHANGED <<pc, cur, pending, finish, temp_servers, list_version, flags, handed,
                   tables, updater, cs_version, plan, reported, sent_away, history>>

Quiet == cs_version - 1 + sent_away + (IF shutdown = "none" THEN 0 ELSE 1) < MaxDisturbances

\* A rebuild, or the end of a migration: a new version with a new list.
NewTable ==
    /\ Quiet
    /\ cs_version' = cs_version + 1 /\ cs_moved' = {} /\ reported' = FALSE
    /\ \E p \in Plans : plan' = [v \in 1..cs_version + 1 |-> IF v <= cs_version THEN plan[v] ELSE p]
    /\ UNCHANGED <<thread, flags, handed, tables, updater, sent_away, history>>

\* The answer with server version 1: tair_manager::set_solitary, which takes no
\* mutex; the response is handled when it returns.
SetSolitary ==
    /\ Quiet /\ sent_away' = sent_away + 1 /\ server_version # 0 /\ updater[Solitary] = "none"
    /\ server_version' = 0 /\ can_work' = FALSE
    /\ updater' = IF can_work THEN [updater EXCEPT ![Solitary] = "changed"] ELSE updater
    /\ UNCHANGED <<thread, flags, handed, table_version, migrates, migrate_done_set, cs_version,
                   plan, cs_moved, reported, history>>

\* migrate_manager::stop, first under the mutex and then without it.
StopAsked ==
    /\ Quiet /\ shutdown = "none" /\ pc # "boot"
    /\ shutdown' = "asked" /\ is_stopped' = TRUE
    /\ UNCHANGED <<thread, is_signaled, is_running, handed, tables, updater, config, history>>

StopThread ==
    /\ shutdown = "asked"
    /\ shutdown' = "set"
    /\ pc' = IF pc = "wait" THEN "woken" ELSE pc
    /\ races' = IF pc = "towait" \/ (pc \notin {"wait", "woken", "exit"} /\ ~is_signaled)
                THEN races \cup {"wakeup lost"} ELSE races
    /\ UNCHANGED <<cur, pending, finish, answer, temp_servers, list_version, is_signaled,
                   is_running, is_stopped, handed, tables, updater, config, copied,
                   inherited, skipped>>

------------------------------------------------------------------------------
ThreadStep ==
    \/ Boot \/ TestSignaled \/ Wait \/ SetRunning \/ ClearStopped \/ TakeList \/ EndRound
    \/ NextBucket \/ SendRound \/ NothingToSend \/ LockBucket \/ DuplicationDone
    \/ DrainStopped \/ DuplicationDoneSwap \/ SendFinishFailed \/ SendFinish
    \/ FinishAnswered \/ SetMigrateDone

UpdaterStep(v) ==
    \/ SwapTable(v) \/ ResetDoneSet(v) \/ ReadRunning(v) \/ WriteStopped(v) \/ Spin(v)
    \/ WriteHold(v) \/ SetMigrateServerList(v) \/ Signal(v)

QuietNext ==
    \/ ThreadStep
    \/ \E v \in Version \cup {Solitary} : UpdaterStep(v)
    \/ HeartbeatResponse \/ HeartbeatReport \/ HandleFinish \/ NewTable
    \/ SetSolitary \/ StopAsked \/ StopThread

Next == QuietNext \/ SpuriousWakeup

Spec == Init /\ [][Next]_vars

\* What the scheduling of the process gives: a runnable thread goes on, and so do
\* the threads that install a table; a server that is up ends up acknowledging
\* what is resent to it; the duplications of a bucket come to an end.  Nothing is
\* assumed of the config server, which may stay unreachable.
Fairness ==
    /\ WF_vars(Boot \/ TestSignaled \/ Wait \/ SetRunning \/ ClearStopped \/ TakeList
               \/ EndRound \/ NextBucket \/ LockBucket \/ DuplicationDone \/ DrainStopped
               \/ DuplicationDoneSwap \/ SendFinishFailed \/ FinishAnswered
               \/ SetMigrateDone)
    /\ WF_vars(SendRound /\ (pc' # "copy" \/ pending' # pending))
    /\ \A v \in Version \cup {Solitary} : WF_vars(UpdaterStep(v))
    /\ WF_vars(StopThread)

\* Without spurious wakeups: one after the other, they would keep a waiting updater
\* from ever seeing the thread at rest.
FairSpec == Init /\ [][QuietNext]_vars /\ Fairness

------------------------------------------------------------------------------
(***************************************************************************)
(* What a migration promises, and the races of this code that break it:    *)
(* each property names the races it cannot stand, so that it fails as soon *)
(* as there is another way.                                                *)
(***************************************************************************)
\* A bucket whose bit is set in migrate_done_set, so that its requests are sent
\* on to the new master, was copied to its new servers under the table in use, or
\* had been when the server joined.  The one way around it: the thread sets the
\* bit of a bucket of the old table after update_server_table cleared the set
\* ("done late").
DoneMeansCopied ==
    updater[table_version] # "reset" =>
        \A b \in migrate_done_set :
            <<table_version, b>> \in copied \cup inherited \/ "done late" \in races

\* A bucket the config server holds for moved, and whose old copies it will thus
\* drop, was copied under that version.  The ways around it: the late bit is
\* reported by the heartbeat, the finish packet carries the version of a newer
\* table than the list in hand ("stale list"), or a heartbeat under the new version
\* leaves before the bits of the old table are cleared ("early report").
MovedMeansCopied ==
    \A b \in cs_moved :
        \/ <<cs_version, b>> \in copied
        \/ races \cap {"done late", "stale list", "early report"} # {}

\* The erasing loop of update_server_table says "remove already migrated buckets":
\* a bucket taken off the list of a table was copied for it or recorded as moved
\* by the config server, even if tables are installed out of order.  The one way
\* around it: the late bit of a bucket finished for the table before ("done late").
RemovedWereMigrated == skipped \subseteq copied \cup inherited \/ "done late" \in races

\* The thread installing a table always comes to its end: it does not wait for
\* ever for the migration it stops, even when the destination is dead and no
\* config server answers, unless its request to stop falls into the start of a
\* round ("stop lost").
UpdaterFinishes ==
    \A v \in Version \cup {Solitary} :
        updater[v] # "none" ~> updater[v] = "none" \/ "stop lost" \in races

\* A list handed over is taken, unless its signal falls between the test and the
\* wait of run() ("wakeup lost"), the thread is held in a round nobody stops
\* ("stop lost", "round unseen"), or the server is shut down.
ListTaken ==
    migrate_servers # NoPlan ~> \/ migrate_servers = NoPlan
                               \/ races \cap {"wakeup lost", "stop lost", "round unseen"} # {}
                               \/ shutdown # "none"

\* A new table takes effect: the thread that installs it ends, and the list it
\* hands to the migration thread is taken.
TablesTaken == UpdaterFinishes /\ ListTaken

\* stop() ends the thread, whatever it is waiting for: "fix bug: if we kill
\* cfg_server before ds when we stop tair cluster, ds will be fall into endless
\* loop here".  It does not when the one signal of stop() finds nobody waiting and
\* is_signaled is down.
StopTerminates == shutdown = "set" ~> pc = "exit" \/ "wakeup lost" \in races
=============================================================================
