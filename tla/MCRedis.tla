------------------------------ MODULE MCRedis ------------------------------
(***************************************************************************)
(* The redis-derived engine in its two grains: the calls of rdb_manager    *)
(* over plain collections (RdbManager) and the structures that hold one    *)
(* collection (RedisObjects).  They share no variable, so one instance     *)
(* explores the one or the other, chosen by grain.  The structures change  *)
(* their form at two or three entries where the code's limits are 64 and   *)
(* 512, tables start with 2 slots, and integers outgrow their encoding at  *)
(* 2, 4 and 8.                                                             *)
(***************************************************************************)
EXTENDS MCRdbManager, TLC

VARIABLES grain, kind, obj, call

Members5 == <<"a", "b", "c", "d", "e">>

\* Two pairs of keys share a slot of a table of 4; none of a table of 8.
Hashes == "a" :> 0 @@ "b" :> 1 @@ "c" :> 2 @@ "d" :> 4 @@ "e" :> 5

\* One integer of each width, another of the least; "e" is no integer.
Integers4 == "a" :> 1 @@ "b" :> -3 @@ "c" :> 6 @@ "d" :> -1

\* "z" is longer than a packed hash or list may hold.
Sizes == "a" :> 1 @@ "b" :> 1 @@ "c" :> 1 @@ "x" :> 1 @@ "y" :> 9 @@ "z" :> 65

Objects == INSTANCE RedisObjects
  WITH NameOrder <- Members5, Hash <- Hashes, DICT_HT_INITIAL_SIZE <- 2, REDIS_HT_MINFILL <- 30,
       ZSKIPLIST_MAXLEVEL <- 2, Half <- <<2, 4, 8>>, ZIPMAP_BIGLEN <- 1, ZIPMAP_VALUE_MAX_FREE <- 4,
       Bytes <- Sizes, Payload <- Sizes, Numeric <- {"b"},
       Kinds <- {"set", "hash", "list", "zset", "db"},
       Elements <- ToSet(Members5), IntOf <- Integers4, Names <- ToSet(Members5),
       Fields <- {"a", "b", "c"}, FieldValues <- {"x", "y", "z"}, Stamps <- {0, 1},
       LongValues <- {"z"}, Items <- {"a", "b", "z"}, Indexes <- -2..2, RemCounts <- -1..1,
       SortMembers <- {"a", "b", "c"}, SortScores <- {0, 1},
       set_max_intset_entries <- 2, hash_max_zipmap_entries <- 2, list_max_ziplist_entries <- 3,
       MaxItems <- 4

objVars == <<kind, obj, call>>

RedisInit ==
  /\ Init /\ Objects!ObjectsInit
  /\ \/ grain = "calls" /\ kind = "set"
     \/ grain = "structures" /\ load = CHOOSE l \in MCLoads : TRUE

RedisNext ==
  /\ UNCHANGED grain
  /\ \/ grain = "calls" /\ Next /\ UNCHANGED objVars
     \/ grain = "structures" /\ Objects!ObjectsNext /\ UNCHANGED vars

RedisSpec == RedisInit /\ [][RedisNext]_<<grain, vars, objVars>>

\* Implements of RedisObjects: a value answers each call as the plain set, map
\* or sequence it stands for, whichever structure holds it and whatever
\* conversions, resizes and rehashes it went through.
Implements == Objects!Implements

\* ObjectSound of RedisObjects: the counters, links, spans and lengths inside a
\* structure agree with what it holds.
ObjectSound == Objects!ObjectSound

\* The last call is no part of a state's identity.
RedisView == <<grain, db, load, kind, obj>>

=============================================================================
