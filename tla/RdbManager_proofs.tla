------------------------- MODULE RdbManager_proofs -------------------------
(***************************************************************************)
(* The count of flushed keys in RdbManager, for every set of keys, values, *)
(* limits and loads: no call, eviction or pass of the cron lets it fall    *)
(* below the keys that lazyflushdb has flushed and nobody has removed.     *)
(***************************************************************************)
EXTENDS RdbManager, FiniteSetTheorems, TLAPS

\* Zenon proves the leaves that do not ask for SMT.
USE ZenonT(60)

\* An object of the database: its type, value, version and logic clock.
IsEntry(e) == e = [type |-> e.type, val |-> e.val, ver |-> e.ver, clk |-> e.clk]

\* A database with its fields, and a finite key space of objects.
IsDb(d) ==
  /\ d = [dict |-> d.dict, expires |-> d.expires, logiclock |-> d.logiclock, need |-> d.need,
          filter |-> d.filter, now |-> d.now, tight |-> d.tight]
  /\ d.logiclock \in Int /\ d.need \in Int
  /\ d.dict = [k \in DOMAIN d.dict |-> d.dict[k]]
  /\ \A k \in DOMAIN d.dict : IsEntry(d.dict[k])
  /\ IsFiniteSet(DOMAIN d.dict)

\* A key space a database may hold.
IsTable(D) ==
  /\ D = [k \in DOMAIN D |-> D[k]]
  /\ \A k \in DOMAIN D : IsEntry(D[k])
  /\ IsFiniteSet(DOMAIN D)

\* The database with another key space and other expire times.
Replace(d, D, X) == [d EXCEPT !.dict = D, !.expires = X]

\* The inductive invariant: StaleKeysCounted of a well-formed database.
Good(d) == IsDb(d) /\ Cardinality(StaleKeys(d)) <= d.need

\* Another count leaves a database well-formed.
LEMMA SetNeed ==
  ASSUME NEW d, NEW n \in Int, IsDb(d)
  PROVE  LET e == [d EXCEPT !.need = n]
         IN IsDb(e) /\ e.dict = d.dict /\ e.logiclock = d.logiclock /\ e.need = n
BY SMTT(60) DEF IsDb

\* So does another key space with other expire times.
LEMMA SetDicts ==
  ASSUME NEW d, NEW D, NEW X, NEW e, IsDb(d), e = Replace(d, D, X),
         IsTable(D)
  PROVE  IsDb(e) /\ e.dict = D /\ e.logiclock = d.logiclock /\ e.need = d.need
<1> DEFINE b == [d EXCEPT !.dict = D]
           c == [b EXCEPT !.expires = X]
<1>1. IsDb(b) /\ b.dict = D /\ b.logiclock = d.logiclock /\ b.need = d.need
  BY SMTT(60) DEF IsDb, IsTable
<1>2. e = c
  BY DEF Replace
<1> HIDE DEF b
<1>3. IsDb(c) /\ c.dict = b.dict /\ c.logiclock = b.logiclock /\ c.need = b.need
  BY <1>1, SMTT(60) DEF IsDb
<1> HIDE DEF c
<1> QED
  BY <1>1, <1>2, <1>3

\* The flushed keys can be counted.
LEMMA Finite ==
  ASSUME NEW d, IsDb(d)
  PROVE  IsFiniteSet(StaleKeys(d)) /\ Cardinality(StaleKeys(d)) \in Nat
<1>1. StaleKeys(d) \subseteq DOMAIN d.dict
  BY DEF StaleKeys
<1> QED
  BY <1>1, FS_Subset, FS_CardinalityType DEF IsDb

\* With the same count and no more flushed keys the invariant holds.
LEMMA Shrinks ==
  ASSUME NEW d, NEW e, Good(d), IsDb(e), StaleKeys(e) \subseteq StaleKeys(d), e.need = d.need
  PROVE  Good(e)
<1>1. Cardinality(StaleKeys(e)) <= Cardinality(StaleKeys(d))
  BY Finite, FS_Subset DEF Good
<1> QED
  BY <1>1, Finite, SMTT(60) DEF Good, IsDb

\* Storing a value in an object flushes nothing.
LEMMA SetValue ==
  ASSUME NEW d, NEW k, NEW v, Good(d), Has(d, k)
  PROVE  Good([d EXCEPT !.dict[k].val = v])
<1> DEFINE e == [d EXCEPT !.dict[k].val = v]
<1>1. DOMAIN e.dict = DOMAIN d.dict /\ e.logiclock = d.logiclock /\ e.need = d.need
  BY DEF Good, IsDb
<1>2. \A x \in DOMAIN d.dict : IsEntry(e.dict[x]) /\ e.dict[x].clk = d.dict[x].clk
  BY SMTT(60) DEF Good, IsDb, IsEntry
<1>3. IsDb(e)
  BY <1>1, <1>2, SMTT(60) DEF Good, IsDb
<1>4. StaleKeys(e) \subseteq StaleKeys(d)
  BY <1>1, <1>2 DEF StaleKeys, Stale, Has
<1> QED
  BY <1>1, <1>3, <1>4, Shrinks

\* Expire times, filters and the time do not matter to the count.
LEMMA OtherFields ==
  ASSUME NEW d, NEW e, Good(d), IsDb(e), e.dict = d.dict, e.logiclock = d.logiclock,
         e.need = d.need
  PROVE  Good(e)
<1>1. StaleKeys(e) \subseteq StaleKeys(d)
  BY DEF StaleKeys, Stale, Has
<1> QED
  BY <1>1, Shrinks

\* dbUpdateKey changes a version only.
LEMMA UpdateKey ==
  ASSUME NEW d, NEW k, NEW ver, Good(d)
  PROVE  Good(dbUpdateKey(d, k, ver))
<1> SUFFICES ASSUME Has(d, k)
             PROVE  Good([d EXCEPT !.dict[k].ver = ver])
  BY DEF dbUpdateKey
<1> DEFINE e == [d EXCEPT !.dict[k].ver = ver]
<1>1. DOMAIN e.dict = DOMAIN d.dict /\ e.logiclock = d.logiclock /\ e.need = d.need
  BY DEF Good, IsDb
<1>2. \A x \in DOMAIN d.dict : IsEntry(e.dict[x]) /\ e.dict[x].clk = d.dict[x].clk
  BY SMTT(60) DEF Good, IsDb, IsEntry
<1>3. IsDb(e)
  BY <1>1, <1>2, SMTT(60) DEF Good, IsDb
<1>4. StaleKeys(e) \subseteq StaleKeys(d)
  BY <1>1, <1>2 DEF StaleKeys, Stale, Has
<1> QED
  BY <1>1, <1>3, <1>4, Shrinks

\* dbAdd stamps an object with the present logic clock: it is not flushed.
LEMMA Add ==
  ASSUME NEW d, NEW a, NEW t, NEW v, NEW ver, Good(d)
  PROVE  Good(dbAdd(d, a, t, v, ver))
<1> DEFINE e == dbAdd(d, a, t, v, ver)
           k == a.key
           f == [type |-> t, val |-> v, ver |-> ver, clk |-> d.logiclock]
<1>1. /\ e.logiclock = d.logiclock /\ e.need = d.need
      /\ e.dict = [x \in DOMAIN d.dict \cup {k} |-> IF x = k THEN f ELSE d.dict[x]]
  BY DEF Good, IsDb, dbAdd, With
<1>2. DOMAIN e.dict = DOMAIN d.dict \cup {k}
  BY <1>1
<1>3. \A x \in DOMAIN e.dict : x # k => e.dict[x] = d.dict[x]
  BY <1>1
<1>4. e.dict[k] = [type |-> t, val |-> v, ver |-> ver, clk |-> d.logiclock]
  BY <1>1
<1>5. IsDb(e)
  <2>1. IsFiniteSet(DOMAIN e.dict)
    BY <1>2, FS_AddElement, SMTT(60) DEF Good, IsDb
  <2>2. e.dict = [x \in DOMAIN e.dict |-> e.dict[x]]
    BY <1>1
  <2>3. \A x \in DOMAIN e.dict : IsEntry(e.dict[x])
    BY <1>2, <1>3, <1>4 DEF Good, IsDb, IsEntry
  <2>4. e = [dict |-> e.dict, expires |-> e.expires, logiclock |-> e.logiclock, need |-> e.need,
             filter |-> e.filter, now |-> e.now, tight |-> e.tight]
    BY SMTT(60) DEF Good, IsDb, dbAdd
  <2> QED
    BY <1>1, <2>1, <2>2, <2>3, <2>4 DEF Good, IsDb
<1>6. StaleKeys(e) \subseteq StaleKeys(d)
  BY <1>1, <1>2, <1>3, <1>4, SMTT(60) DEF StaleKeys, Stale, Has, Good, IsDb
<1> QED
  BY <1>1, <1>5, <1>6, Shrinks

\* dbSuperReplace stores a value or adds an object.
LEMMA SuperReplace ==
  ASSUME NEW d, NEW a, NEW t, NEW v, NEW ver, Good(d)
  PROVE  Good(dbSuperReplace(d, a, t, v, ver))
<1> DEFINE k == a.key
           b == [d EXCEPT !.dict[k].val = v]
<1>1. CASE ~Has(d, k)
  BY <1>1, Add DEF dbSuperReplace
<1>2. CASE Has(d, k)
  <2>1. Good(b)
    BY <1>2, SetValue
  <2>3. Has(b, k)
    BY <1>2 DEF Has, Good, IsDb
  <2>2. dbSuperReplace(d, a, t, v, ver) = dbUpdateKey(b, k, ver)
    BY <1>2, <2>3 DEF dbSuperReplace, dbUpdateKey, Good, IsDb, Has
  <2> QED
    BY <2>1, <2>2, UpdateKey
<1> QED
  BY <1>1, <1>2

\* dbDelete removes one key and leaves the count alone.
LEMMA Delete ==
  ASSUME NEW d, NEW k, Good(d)
  PROVE  /\ Good(dbDelete(d, k))
         /\ StaleKeys(dbDelete(d, k)) = StaleKeys(d) \ {k}
         /\ dbDelete(d, k).need = d.need
<1> DEFINE e == dbDelete(d, k)
           D == Without(d.dict, k)
           X == Without(d.expires, k)
<1>1. /\ DOMAIN D = DOMAIN d.dict \ {k} /\ D = [x \in DOMAIN D |-> D[x]]
      /\ \A x \in DOMAIN D : D[x] = d.dict[x]
  BY DEF Without
<1>2. IsTable(D)
  <2>1. IsFiniteSet(DOMAIN D) /\ \A x \in DOMAIN D : IsEntry(D[x])
    BY <1>1, FS_Subset DEF Good, IsDb
  <2> QED
    BY <1>1, <2>1 DEF IsTable
<1> HIDE DEF D
<1>3. e = Replace(d, D, X)
  BY DEF dbDelete, Replace, D
<1> HIDE DEF e, X
<1>4. IsDb(e) /\ e.dict = D /\ e.logiclock = d.logiclock /\ e.need = d.need
  <2>1. IsDb(d)
    BY DEF Good
  <2> QED
    BY <2>1, <1>2, <1>3, SetDicts, SMTT(60)
<1>5. StaleKeys(e) = StaleKeys(d) \ {k}
  BY <1>1, <1>4 DEF StaleKeys, Stale, Has
<1> QED
  BY <1>4, <1>5, Shrinks DEF e

\* Removing a flushed key allows the count to be lowered by one.
LEMMA CountLower ==
  ASSUME NEW d, NEW k, Good(d), Stale(d, k)
  PROVE  Good([dbDelete(d, k) EXCEPT !.need = @ - 1])
<1> DEFINE b == dbDelete(d, k)
           e == [b EXCEPT !.need = @ - 1]
<1>1. Good(b) /\ StaleKeys(b) = StaleKeys(d) \ {k} /\ b.need = d.need
  BY Delete
<1>2. IsDb(e) /\ e.need = d.need - 1 /\ e.dict = b.dict /\ e.logiclock = b.logiclock
  BY <1>1, SMTT(60) DEF Good, IsDb
<1>3. StaleKeys(e) = StaleKeys(d) \ {k}
  BY <1>1, <1>2 DEF StaleKeys, Stale, Has
<1>4. k \in StaleKeys(d)
  BY DEF StaleKeys, Stale, Has
<1>5. Cardinality(StaleKeys(e)) = Cardinality(StaleKeys(d)) - 1
  BY <1>3, <1>4, Finite, FS_RemoveElement DEF Good
<1> QED
  BY <1>2, <1>5, Finite, SMTT(60) DEF Good, IsDb

\* expireIfNeeded, which every lookup begins with, keeps the invariant.
LEMMA Lookup ==
  ASSUME NEW d, NEW k, Good(d)
  PROVE  Good(expireIfNeeded(d, k))
BY CountLower, Delete DEF expireIfNeeded

\* freeDBMemory, which evicts a key, keeps it.
LEMMA Evict ==
  ASSUME NEW d, NEW k, Good(d)
  PROVE  Good(freeDBMemory(d, k))
<1>1. CASE Stale(d, k)
  <2>1. freeDBMemory(d, k) = [dbDelete(d, k) EXCEPT !.need = @ - 1]
    BY <1>1 DEF freeDBMemory
  <2> QED
    BY <1>1, <2>1, CountLower, SMTT(60)
<1>2. CASE ~Stale(d, k)
  <2> DEFINE b == dbDelete(d, k)
  <2>1. Good(b)
    BY Delete
  <2>2. freeDBMemory(d, k) = [b EXCEPT !.need = @]
    BY <1>2 DEF freeDBMemory
  <2> HIDE DEF b
  <2>3. [b EXCEPT !.need = @] = b
    BY <2>1 DEF Good, IsDb
  <2> QED
    BY <2>1, <2>2, <2>3
<1> QED
  BY <1>1, <1>2

\* Setting and removing an expire time keep it.
LEMMA SetExpire ==
  ASSUME NEW d, NEW k, NEW when, Good(d)
  PROVE  Good(setXExpire(d, k, when)) /\ Good(removeXExpire(d, k))
<1>1. ASSUME NEW x PROVE Good([d EXCEPT !.expires = x])
  <2> DEFINE e == [d EXCEPT !.expires = x]
  <2>1. IsDb(e) /\ e.dict = d.dict /\ e.logiclock = d.logiclock /\ e.need = d.need
    BY SMTT(60) DEF Good, IsDb
  <2> QED
    BY <2>1, OtherFields
<1> QED
  BY <1>1 DEF setXExpire, removeXExpire

\* EXPIRE_OR_NOT, which the writes end with, keeps it.
LEMMA RefreshExpire ==
  ASSUME NEW d, NEW a, Good(d)
  PROVE  Good(EXPIRE_OR_NOT(d, a))
BY SetExpire DEF EXPIRE_OR_NOT

\* A write that stores a value and a new version keeps it.
LEMMA CommitGood ==
  ASSUME NEW d, NEW a, NEW v, Good(d), Has(d, a.key)
  PROVE  Good(Commit(d, a, v))
BY SetValue, UpdateKey, RefreshExpire DEF Commit

\* dbAdd makes its key present.
LEMMA Created ==
  ASSUME NEW d, NEW a, NEW t, NEW v, NEW ver, Good(d)
  PROVE  Has(dbAdd(d, a, t, v, ver), a.key)
BY DEF Has, dbAdd, With, Good, IsDb

\* Storing a hash keeps the invariant and the key.
LEMMA SetHashGood ==
  ASSUME NEW d, NEW k, NEW h, Good(d), Has(d, k)
  PROVE  Good(SetHash(d, k, h)) /\ Has(SetHash(d, k, h), k)
<1>1. Good(SetHash(d, k, h))
  BY SetValue DEF SetHash
<1>2. Has(SetHash(d, k, h), k)
  BY DEF SetHash, Has, Good, IsDb
<1> QED
  BY <1>1, <1>2

\* A write to a hash keeps the invariant.
LEMMA CommitHashGood ==
  ASSUME NEW d, NEW a, NEW h, NEW ver, Good(d), Has(d, a.key)
  PROVE  Good(CommitHash(d, a, h, ver))
BY SetHashGood, UpdateKey, RefreshExpire DEF CommitHash

\* lazyflushdb counts every key it flushes.
LEMMA Flush ==
  ASSUME NEW d, Good(d)
  PROVE  Good(lazyflushdb(d))
<1> DEFINE b == [d EXCEPT !.logiclock = @ + 1]
           n == Cardinality(DOMAIN d.dict)
           e == [b EXCEPT !.need = n]
<1>1. IsDb(b) /\ b.dict = d.dict
  BY SMTT(60) DEF Good, IsDb
<1>2. n \in Int
  BY FS_CardinalityType, SMTT(60) DEF Good, IsDb
<1>3. lazyflushdb(d) = e
  BY DEF lazyflushdb
<1> HIDE DEF b, n
<1>4. IsDb(e) /\ e.dict = d.dict /\ e.need = n
  BY <1>1, <1>2, SetNeed
<1> HIDE DEF e
<1>5. StaleKeys(e) \subseteq DOMAIN d.dict
  BY <1>4 DEF StaleKeys
<1>6. Cardinality(StaleKeys(e)) <= n
  BY <1>5, FS_Subset DEF Good, IsDb, n
<1> QED
  BY <1>3, <1>4, <1>6 DEF Good

\* Removing a set of keys and lowering the count by the flushed ones among
\* them, as the cron does, keeps the invariant.
LEMMA Removed ==
  ASSUME NEW d, NEW S, NEW n, Good(d), n = Cardinality(StaleKeys(d) \cap S)
  PROVE  Good([DeleteAll(d, S) EXCEPT !.need = @ - n])
<1> DEFINE b == DeleteAll(d, S)
           D == [k \in DOMAIN d.dict \ S |-> d.dict[k]]
           X == [k \in DOMAIN d.expires \ S |-> d.expires[k]]
           m == d.need - n
           e == [b EXCEPT !.need = m]
<1>1. n \in Nat /\ m \in Int
  BY Finite, FS_Subset, FS_CardinalityType, SMTT(60) DEF Good, IsDb
<1>2. /\ DOMAIN D = DOMAIN d.dict \ S /\ D = [x \in DOMAIN D |-> D[x]]
      /\ \A x \in DOMAIN D : D[x] = d.dict[x]
  OBVIOUS
<1>3. IsTable(D)
  <2>1. IsFiniteSet(DOMAIN D) /\ \A x \in DOMAIN D : IsEntry(D[x])
    BY <1>2, FS_Subset DEF Good, IsDb
  <2> QED
    BY <1>2, <2>1 DEF IsTable
<1>4. b = Replace(d, D, X)
  BY DEF DeleteAll, Replace
<1> HIDE DEF b, D, X
<1>5. IsDb(b) /\ b.dict = D /\ b.logiclock = d.logiclock /\ b.need = d.need
  <2>1. IsDb(d)
    BY DEF Good
  <2> QED
    BY <2>1, <1>3, <1>4, SetDicts, SMTT(60)
<1>6. IsDb(e) /\ e.dict = D /\ e.logiclock = d.logiclock /\ e.need = m
  BY <1>1, <1>5, SetNeed
<1>7. [b EXCEPT !.need = @ - n] = e
  BY <1>5
<1> HIDE DEF e
<1>8. StaleKeys(e) = StaleKeys(d) \ S
  BY <1>2, <1>6 DEF StaleKeys, Stale, Has
<1>9. Cardinality(StaleKeys(d) \ S) = Cardinality(StaleKeys(d)) - n
  BY Finite, FS_Difference DEF Good
<1>10. Cardinality(StaleKeys(e)) <= m
  BY <1>1, <1>8, <1>9, Finite, SMTT(60) DEF Good, IsDb
<1> QED
  BY <1>6, <1>7, <1>10 DEF Good, b

\* The filter list does not matter to the count.
LEMMA SetFilter ==
  ASSUME NEW d, NEW t, NEW pat, Good(d)
  PROVE  Good(add_filter_node(d, t, pat)) /\ Good(remove_filter_node(d, t, pat))
<1>1. ASSUME NEW x PROVE Good([d EXCEPT !.filter = x])
  <2> DEFINE e == [d EXCEPT !.filter = x]
  <2>1. IsDb(e) /\ e.dict = d.dict /\ e.logiclock = d.logiclock /\ e.need = d.need
    BY SMTT(60) DEF Good, IsDb
  <2> QED
    BY <2>1, OtherFields
<1> QED
  BY <1>1 DEF add_filter_node, remove_filter_node

-----------------------------------------------------------------------------
(* The commands, each from what it does to the database.           *)

USE Lookup

LEMMA existsGood ==
  ASSUME NEW d, NEW a, Good(d)
  PROVE  Good(existsCommand(d, a).db)
BY DEF existsCommand, Answer

LEMMA typeGood ==
  ASSUME NEW d, NEW a, Good(d)
  PROVE  Good(typeCommand(d, a).db)
BY DEF typeCommand, Values, Reply, Answer

LEMMA getGenericGood ==
  ASSUME NEW d, NEW a, Good(d)
  PROVE  Good(getGenericCommand(d, a).db)
BY DEF getGenericCommand, Reading, Values, Number, Reply, Answer

LEMMA llenGood ==
  ASSUME NEW d, NEW a, Good(d)
  PROVE  Good(llenCommand(d, a).db)
BY DEF llenCommand, Reading, Values, Number, Reply, Answer

LEMMA lindexGood ==
  ASSUME NEW d, NEW a, NEW i, Good(d)
  PROVE  Good(lindexCommand(d, a, i).db)
BY DEF lindexCommand, Reading, Values, Number, Reply, Answer

LEMMA lrangeGood ==
  ASSUME NEW d, NEW a, NEW s, NEW t, Good(d)
  PROVE  Good(lrangeCommand(d, a, s, t).db)
BY DEF lrangeCommand, Reading, Values, Number, Reply, Answer

LEMMA hlenGood ==
  ASSUME NEW d, NEW a, Good(d)
  PROVE  Good(hlenCommand(d, a).db)
BY DEF hlenCommand, Reading, Values, Number, Reply, Answer

LEMMA genericHgetallGood ==
  ASSUME NEW d, NEW a, Good(d)
  PROVE  Good(genericHgetallCommand(d, a).db)
BY DEF genericHgetallCommand, Reading, Values, Number, Reply, Answer

LEMMA hexistsGood ==
  ASSUME NEW d, NEW a, NEW f, Good(d)
  PROVE  Good(hexistsCommand(d, a, f).db)
BY DEF hexistsCommand, Reading, Values, Number, Reply, Answer

LEMMA scardGood ==
  ASSUME NEW d, NEW a, Good(d)
  PROVE  Good(scardCommand(d, a).db)
BY DEF scardCommand, Reading, Values, Number, Reply, Answer

LEMMA sinterGenericGood ==
  ASSUME NEW d, NEW a, Good(d)
  PROVE  Good(sinterGenericCommand(d, a).db)
BY DEF sinterGenericCommand, Reading, Values, Number, Reply, Answer

LEMMA zrangeGenericGood ==
  ASSUME NEW d, NEW a, NEW s, NEW t, NEW reverse, Good(d)
  PROVE  Good(zrangeGenericCommand(d, a, s, t, reverse).db)
BY DEF zrangeGenericCommand, Reading, Values, Number, Reply, Answer

LEMMA genericZrangebyscoreGood ==
  ASSUME NEW d, NEW a, NEW s, NEW t, NEW n, NEW reverse, Good(d)
  PROVE  Good(genericZrangebyscoreCommand(d, a, s, t, n, reverse).db)
BY DEF genericZrangebyscoreCommand, Reading, Values, Number, Reply, Answer

LEMMA zcountGood ==
  ASSUME NEW d, NEW a, NEW s, NEW t, Good(d)
  PROVE  Good(zcountCommand(d, a, s, t).db)
BY DEF zcountCommand, Reading, Values, Number, Reply, Answer

LEMMA zcardGood ==
  ASSUME NEW d, NEW a, Good(d)
  PROVE  Good(zcardCommand(d, a).db)
BY DEF zcardCommand, Reading, Values, Number, Reply, Answer

LEMMA zscoreGood ==
  ASSUME NEW d, NEW a, NEW x, Good(d)
  PROVE  Good(zscoreCommand(d, a, x).db)
BY DEF zscoreCommand, Reading, Values, Number, Reply, Answer

LEMMA zrankGenericGood ==
  ASSUME NEW d, NEW a, NEW x, NEW reverse, Good(d)
  PROVE  Good(zrankGenericCommand(d, a, x, reverse).db)
BY DEF zrankGenericCommand, Reading, Values, Number, Reply, Answer

LEMMA delGood ==
  ASSUME NEW d, NEW a, Good(d)
  PROVE  Good(delCommand(d, a).db)
BY Delete DEF delCommand, Answer

LEMMA expireXGenericGood ==
  ASSUME NEW d, NEW a, NEW seconds, Good(d)
  PROVE  Good(expireXGenericCommand(d, a, seconds).db)
BY SetExpire DEF expireXGenericCommand, Answer

LEMMA ttlGood ==
  ASSUME NEW d, NEW a, Good(d)
  PROVE  Good(ttlCommand(d, a).db)
BY DEF ttlCommand, Answer

LEMMA persistGood ==
  ASSUME NEW d, NEW a, Good(d)
  PROVE  Good(persistCommand(d, a).db)
BY SetExpire DEF persistCommand, Answer

LEMMA setGenericGood ==
  ASSUME NEW d, NEW a, NEW nx, NEW val, Good(d)
  PROVE  Good(setGenericCommand(d, a, nx, val).db)
BY SuperReplace, RefreshExpire DEF setGenericCommand, Reply, Answer

LEMMA getsetGood ==
  ASSUME NEW d, NEW a, NEW val, Good(d)
  PROVE  Good(getsetCommand(d, a, val).db)
BY SuperReplace, RefreshExpire DEF getsetCommand, getGenericCommand, Reading, Values,
       Reply, Answer

LEMMA incrDecrGood ==
  ASSUME NEW d, NEW a, NEW init_value, NEW incr, Good(d)
  PROVE  Good(incrDecrCommand(d, a, init_value, incr).db)
BY SuperReplace, RefreshExpire DEF incrDecrCommand, Reply, Answer

LEMMA pushnGenericGood ==
  ASSUME NEW d, NEW a, NEW vals, NEW max_count, NEW where, Good(d)
  PROVE  Good(pushnGenericCommand(d, a, vals, max_count, where).db)
<1> DEFINE b == expireIfNeeded(d, a.key)
<1>1. Good(b)
  BY Lookup
<1>2. ASSUME NEW v, NEW ver
      PROVE  /\ Good(dbAdd(b, a, "list", v, ver))
             /\ Has(b, a.key) => Good([b EXCEPT !.dict[a.key].val = v])
  BY <1>1, Add, SetValue
<1>3. ASSUME NEW c, Good(c), NEW ver
      PROVE  Good(EXPIRE_OR_NOT(dbUpdateKey(c, a.key, ver), a))
  BY <1>3, UpdateKey, RefreshExpire
<1> QED
  BY <1>1, <1>2, <1>3 DEF pushnGenericCommand, Reply, Answer

LEMMA pushxnGenericGood ==
  ASSUME NEW d, NEW a, NEW vals, NEW where, Good(d)
  PROVE  Good(pushxnGenericCommand(d, a, vals, where).db)
BY CommitGood DEF pushxnGenericCommand, Writing, Reading, Reply, Answer

LEMMA linsertGood ==
  ASSUME NEW d, NEW a, NEW after, NEW ref, NEW val, Good(d)
  PROVE  Good(linsertCommand(d, a, after, ref, val).db)
BY CommitGood DEF linsertCommand, Writing, Reading, Reply, Answer

LEMMA lsetGood ==
  ASSUME NEW d, NEW a, NEW index, NEW val, Good(d)
  PROVE  Good(lsetCommand(d, a, index, val).db)
BY SetValue, UpdateKey DEF lsetCommand, Writing, Reading, Reply, Answer

LEMMA popnGenericGood ==
  ASSUME NEW d, NEW a, NEW count, NEW where, Good(d)
  PROVE  Good(popnGenericCommand(d, a, count, where).db)
BY CommitGood, Delete DEF popnGenericCommand, CommitOrDelete, Reading, Reply, Answer

LEMMA ltrimGood ==
  ASSUME NEW d, NEW a, NEW start, NEW end, Good(d)
  PROVE  Good(ltrimCommand(d, a, start, end).db)
BY CommitGood, Delete DEF ltrimCommand, CommitOrDelete, Writing, Reading, Reply, Answer

LEMMA lremGood ==
  ASSUME NEW d, NEW a, NEW count, NEW val, Good(d)
  PROVE  Good(lremCommand(d, a, count, val).db)
BY CommitGood, Delete DEF lremCommand, CommitOrDelete, Writing, Reading, Reply, Answer

LEMMA hsetGood ==
  ASSUME NEW d, NEW a, NEW f, NEW v, Good(d)
  PROVE  Good(hsetCommand(d, a, f, v).db)
BY Add, Created, CommitHashGood DEF hsetCommand, hashTypeLookupWriteOrCreate, Reply,
       Answer

LEMMA hsetnxGood ==
  ASSUME NEW d, NEW a, NEW f, NEW v, Good(d)
  PROVE  Good(hsetnxCommand(d, a, f, v).db)
BY Add, Created, CommitHashGood DEF hsetnxCommand, hashTypeLookupWriteOrCreate, Reply,
       Answer

LEMMA hmsetGood ==
  ASSUME NEW d, NEW a, NEW pairs, Good(d)
  PROVE  Good(hmsetCommand(d, a, pairs).db)
BY Add, Created, CommitHashGood DEF hmsetCommand, hashTypeLookupWriteOrCreate, Reply,
       Answer

LEMMA hincrbyGood ==
  ASSUME NEW d, NEW a, NEW f, NEW incr, Good(d)
  PROVE  Good(hincrbyCommand(d, a, f, incr).db)
BY Add, Created, SetHashGood, CommitHashGood DEF hincrbyCommand,
       hashTypeLookupWriteOrCreate, Reply, Answer

LEMMA hgetGood ==
  ASSUME NEW d, NEW a, NEW f, Good(d)
  PROVE  Good(hgetCommand(d, a, f).db)
BY SetHashGood DEF hgetCommand, Reading, Values, Reply, Answer

LEMMA hmgetGood ==
  ASSUME NEW d, NEW a, NEW fields, Good(d)
  PROVE  Good(hmgetCommand(d, a, fields).db)
BY SetHashGood DEF hmgetCommand, Reading, Values, Reply, Answer

LEMMA hdelGood ==
  ASSUME NEW d, NEW a, NEW f, Good(d)
  PROVE  Good(hdelCommand(d, a, f).db)
BY CommitGood, Delete DEF hdelCommand, CommitOrDelete, Writing, Reading, Reply, Answer

LEMMA saddGood ==
  ASSUME NEW d, NEW a, NEW x, Good(d)
  PROVE  Good(saddCommand(d, a, x).db)
BY SuperReplace, RefreshExpire DEF saddCommand, Reply, Answer

LEMMA sremGood ==
  ASSUME NEW d, NEW a, NEW x, Good(d)
  PROVE  Good(sremCommand(d, a, x).db)
BY CommitGood, Delete, RefreshExpire DEF sremCommand, CommitOrDelete, Writing, Reading,
       Reply, Answer

LEMMA spopGood ==
  ASSUME NEW d, NEW a, NEW x, Good(d)
  PROVE  Good(spopCommand(d, a, x).db)
BY CommitGood, Delete DEF spopCommand, CommitOrDelete, Writing, Reading, Reply, Answer

LEMMA zaddGenericGood ==
  ASSUME NEW d, NEW a, NEW x, NEW score, NEW incr, Good(d)
  PROVE  Good(zaddGenericCommand(d, a, x, score, incr).db)
BY Add, Created, SetValue, UpdateKey, RefreshExpire DEF zaddGenericCommand, Reply, Answer

LEMMA zremGood ==
  ASSUME NEW d, NEW a, NEW x, Good(d)
  PROVE  Good(zremCommand(d, a, x).db)
BY CommitGood, Delete DEF zremCommand, CommitOrDelete, Writing, Reading, Reply, Answer

LEMMA zremrangebyscoreGood ==
  ASSUME NEW d, NEW a, NEW min, NEW max, Good(d)
  PROVE  Good(zremrangebyscoreCommand(d, a, min, max).db)
BY CommitGood, Delete DEF zremrangebyscoreCommand, RemoveRange, CommitOrDelete, Writing,
       Reading, Reply, Answer

LEMMA zremrangebyrankGood ==
  ASSUME NEW d, NEW a, NEW start, NEW end, Good(d)
  PROVE  Good(zremrangebyrankCommand(d, a, start, end).db)
BY CommitGood, Delete DEF zremrangebyrankCommand, RemoveRange, CommitOrDelete, Writing,
       Reading, Reply, Answer

\* filter_field, which hgetall and hkeys run after the command, keeps the
\* invariant.
LEMMA filter_fieldGood ==
  ASSUME NEW d, NEW a, Good(d)
  PROVE  Good(filter_field(d, a))
BY SetHashGood DEF filter_field

HIDE Lookup

-----------------------------------------------------------------------------
\* processCommand runs a command in a database with room made by an eviction,
\* or in the present one.
LEMMA RoomGood ==
  ASSUME NEW d, Good(d)
  PROVE  \A e \in {d} \cup (IF d.tight THEN {freeDBMemory(d, k) : k \in Victims(d)} ELSE {}) :
           Good(e)
BY Evict

(* The calls of rdb_manager, one step per call.                            *)

LEMMA KeyCallsGood == Good(db) /\ KeyCalls => Good(db')
<1> SUFFICES ASSUME Good(db), KeyCalls PROVE Good(db')
  OBVIOUS
<1> USE RoomGood
<1>1. ttl => Good(db')
  BY ttlGood DEF ttl, Done, session_ttl, processCommand
<1>2. type => Good(db')
  BY typeGood DEF type, Done, session_type, processCommand
<1>3. remove => Good(db')
  BY delGood DEF remove, Done, session_del, processCommand
<1>4. expire => Good(db')
  BY expireXGenericGood DEF expire, Done, session_expire, processCommand
<1>5. expireat => Good(db')
  BY expireXGenericGood DEF expireat, Done, session_expire, processCommand
<1>6. persist => Good(db')
  BY persistGood DEF persist, Done, session_persist, processCommand
<1>7. exists => Good(db')
  BY existsGood DEF exists, Done, session_exists, processCommand
<1> QED
  BY <1>1, <1>2, <1>3, <1>4, <1>5, <1>6, <1>7 DEF KeyCalls

LEMMA StringCallsGood == Good(db) /\ StringCalls => Good(db')
<1> SUFFICES ASSUME Good(db), StringCalls PROVE Good(db')
  OBVIOUS
<1> USE RoomGood
<1>1. putnx => Good(db')
  BY setGenericGood DEF putnx, Done, session_set, Refuse, processCommand
<1>2. incdecr => Good(db')
  BY incrDecrGood DEF incdecr, Done, session_incdecr, processCommand
<1>3. get => Good(db')
  BY getGenericGood DEF get, Done, session_get, processCommand
<1>4. getset => Good(db')
  BY getsetGood DEF getset, Done, session_getset, processCommand
<1> QED
  BY <1>1, <1>2, <1>3, <1>4 DEF StringCalls

LEMMA ListCallsGood == Good(db) /\ ListCalls => Good(db')
<1> SUFFICES ASSUME Good(db), ListCalls PROVE Good(db')
  OBVIOUS
<1> USE RoomGood
<1>1. lrpush => Good(db')
  BY pushnGenericGood, pushxnGenericGood, SMTT(60) DEF lrpush, Done, session_lrpush,
       processCommand
<1>2. lrpop => Good(db')
  BY popnGenericGood DEF lrpop, Done, session_lrpop, Refuse, processCommand
<1>3. lindex => Good(db')
  BY lindexGood DEF lindex, Done, session_lindex, processCommand
<1>4. lrange => Good(db')
  BY lrangeGood DEF lrange, Done, session_lrange, processCommand
<1>5. lrem => Good(db')
  BY lremGood DEF lrem, Done, session_lrem, processCommand
<1>6. llen => Good(db')
  BY llenGood DEF llen, Done, session_llen, processCommand
<1>7. linsert => Good(db')
  BY linsertGood DEF linsert, Done, session_linsert, processCommand
<1>8. lset => Good(db')
  BY lsetGood DEF lset, Done, session_lset, processCommand
<1>9. ltrim => Good(db')
  BY ltrimGood DEF ltrim, Done, session_ltrim, processCommand
<1> QED
  BY <1>1, <1>2, <1>3, <1>4, <1>5, <1>6, <1>7, <1>8, <1>9 DEF ListCalls

LEMMA HashCallsGood == Good(db) /\ HashCalls => Good(db')
<1> SUFFICES ASSUME Good(db), HashCalls PROVE Good(db')
  OBVIOUS
<1> USE RoomGood
<1>1. hgetall => Good(db')
  BY genericHgetallGood, filter_fieldGood DEF hgetall, Done, session_hgetall,
       processCommand
<1>2. hkeys => Good(db')
  BY genericHgetallGood, filter_fieldGood DEF hkeys, Done, session_hkeys, processCommand
<1>3. hvals => Good(db')
  BY genericHgetallGood DEF hvals, Done, session_hvals, processCommand
<1>4. hincrby => Good(db')
  BY hincrbyGood DEF hincrby, Done, session_hincrby, processCommand
<1>5. hmset => Good(db')
  BY hmsetGood DEF hmset, Done, session_hmset, processCommand
<1>6. hset => Good(db')
  BY hsetGood DEF hset, Done, session_hset, processCommand
<1>7. hsetnx => Good(db')
  BY hsetnxGood DEF hsetnx, Done, session_hsetnx, processCommand
<1>8. hexists => Good(db')
  BY hexistsGood DEF hexists, Done, session_hexists, processCommand
<1>9. hget => Good(db')
  BY hgetGood DEF hget, Done, session_hget, processCommand
<1>10. hmget => Good(db')
  BY hmgetGood DEF hmget, Done, session_hmget, processCommand
<1>11. hdel => Good(db')
  BY hdelGood DEF hdel, Done, session_hdel, processCommand
<1>12. hlen => Good(db')
  BY hlenGood DEF hlen, Done, session_hlen, processCommand
<1> QED
  BY <1>1, <1>2, <1>3, <1>4, <1>5, <1>6, <1>7, <1>8, <1>9, <1>10, <1>11,
       <1>12 DEF HashCalls

LEMMA SetCallsGood == Good(db) /\ SetCalls => Good(db')
<1> SUFFICES ASSUME Good(db), SetCalls PROVE Good(db')
  OBVIOUS
<1> USE RoomGood
<1>1. scard => Good(db')
  BY scardGood DEF scard, Done, session_scard, processCommand
<1>2. smembers => Good(db')
  BY sinterGenericGood DEF smembers, Done, session_smembers, processCommand
<1>3. sadd => Good(db')
  BY saddGood DEF sadd, Done, session_sadd, processCommand
<1>4. srem => Good(db')
  BY sremGood DEF srem, Done, session_srem, processCommand
<1>5. spop => Good(db')
  BY spopGood, SMTT(60) DEF spop, Done, session_spop, processCommand
<1> QED
  BY <1>1, <1>2, <1>3, <1>4, <1>5 DEF SetCalls

LEMMA ZsetCallsGood == Good(db) /\ ZsetCalls => Good(db')
<1> SUFFICES ASSUME Good(db), ZsetCalls PROVE Good(db')
  OBVIOUS
<1> USE RoomGood
<1>1. zscore => Good(db')
  BY zscoreGood DEF zscore, Done, session_zscore, processCommand
<1>2. zrange => Good(db')
  BY zrangeGenericGood DEF zrange, Done, session_zrange, processCommand
<1>3. zrevrange => Good(db')
  BY zrangeGenericGood DEF zrevrange, Done, session_zrevrange, processCommand
<1>4. genericZrangebyscore => Good(db')
  BY genericZrangebyscoreGood DEF genericZrangebyscore, Done,
       session_genericZrangebyscore, processCommand
<1>5. zadd => Good(db')
  BY zaddGenericGood DEF zadd, Done, session_zadd, processCommand
<1>6. zrank => Good(db')
  BY zrankGenericGood DEF zrank, Done, session_zrank, processCommand
<1>7. zrevrank => Good(db')
  BY zrankGenericGood DEF zrevrank, Done, session_zrevrank, processCommand
<1>8. zcount => Good(db')
  BY zcountGood DEF zcount, Done, session_zcount, processCommand
<1>9. zincrby => Good(db')
  BY zaddGenericGood DEF zincrby, Done, session_zincrby, processCommand
<1>10. zcard => Good(db')
  BY zcardGood DEF zcard, Done, session_zcard, processCommand
<1>11. zrem => Good(db')
  BY zremGood DEF zrem, Done, session_zrem, processCommand
<1>12. zremrangebyrank => Good(db')
  BY zremrangebyrankGood DEF zremrangebyrank, Done, session_zremrangebyrank,
       processCommand
<1>13. zremrangebyscore => Good(db')
  BY zremrangebyscoreGood DEF zremrangebyscore, Done, session_zremrangebyscore,
       processCommand
<1> QED
  BY <1>1, <1>2, <1>3, <1>4, <1>5, <1>6, <1>7, <1>8, <1>9, <1>10, <1>11, <1>12,
       <1>13 DEF ZsetCalls

LEMMA FilterCallsGood == Good(db) /\ FilterCalls => Good(db')
BY SetFilter, SMTT(60) DEF FilterCalls, addfilter, removefilter, session_addfilter,
       session_removefilter

\* The flush of an area, a pass of the cron over any flushed and any expired
\* keys, and the passing of time.
LEMMA AreaCallsGood == Good(db) /\ AreaCalls => Good(db')
<1> SUFFICES ASSUME Good(db), AreaCalls PROVE Good(db')
  OBVIOUS
<1>1. CASE lazyclear
  BY <1>1, Flush DEF lazyclear
<1>2. ASSUME NEW S, NEW E, activeExpireCycleByDb(S, E) PROVE Good(db')
  <2> DEFINE d == [DeleteAll(db, S) EXCEPT !.need = @ - Cardinality(S)]
  <2>1. /\ S \subseteq StaleKeys(db)
        /\ db' = [DeleteAll(d, E) EXCEPT !.need = @ - Cardinality(E \cap StaleKeys(d))]
    BY <1>2 DEF activeExpireCycleByDb
  <2>2. StaleKeys(db) \cap S = S
    BY <2>1
  <2>3. Good(d)
    BY <2>2, Removed
  <2> HIDE DEF d
  <2>4. StaleKeys(d) \cap E = E \cap StaleKeys(d)
    OBVIOUS
  <2> QED
    BY <2>1, <2>3, <2>4, Removed
<1>3. CASE Tick
  <2>1. /\ IsDb(db') /\ db'.dict = db.dict /\ db'.logiclock = db.logiclock
        /\ db'.need = db.need
    BY <1>3 DEF Tick, Good, IsDb
  <2> QED
    BY <2>1, OtherFields
<1> QED
  BY <1>1, <1>2, <1>3 DEF AreaCalls, serverCronByDb

LEMMA PutGood == Good(db) /\ put => Good(db')
BY RoomGood, setGenericGood DEF put, Done, Refuse, session_set, processCommand

-----------------------------------------------------------------------------
\* need_remove_key is never below the number of keys that lazyflushdb has
\* flushed and that are still stored, whatever calls, evictions and passes of
\* the cron come in between: the cron, which goes on only while the count is
\* positive, never stops with flushed keys left.
THEOREM StaleCorrect == Spec => []StaleKeysCounted
<1>1. Init => Good(db)
  <2> SUFFICES ASSUME Init PROVE Good(db)
    OBVIOUS
  <2>1. /\ db.dict = << >> /\ db.logiclock = 1 /\ db.need = 0
        /\ db = [dict |-> db.dict, expires |-> db.expires, logiclock |-> db.logiclock,
                 need |-> db.need, filter |-> db.filter, now |-> db.now,
                 tight |-> db.tight]
    BY DEF Init, initDb
  <2>2. DOMAIN db.dict = {}
    BY <2>1, SMTT(60)
  <2>3. db.dict = [k \in DOMAIN db.dict |-> db.dict[k]]
    BY <2>1, SMTT(60)
  <2>4. IsDb(db)
    BY <2>1, <2>2, <2>3, FS_EmptySet, SMTT(60) DEF IsDb
  <2>5. StaleKeys(db) = {}
    BY <2>2 DEF StaleKeys
  <2> QED
    BY <2>1, <2>4, <2>5, FS_EmptySet, SMTT(60) DEF Good
<1>2. Good(db) /\ [Next]_vars => Good(db)'
  <2> SUFFICES ASSUME Good(db), [Next]_vars PROVE Good(db')
    OBVIOUS
  <2>1. CASE UNCHANGED vars
    BY <2>1 DEF vars
  <2> QED
    BY <2>1, PutGood, KeyCallsGood, AreaCallsGood, FilterCallsGood, StringCallsGood,
       ListCallsGood, HashCallsGood, SetCallsGood, ZsetCallsGood DEF Next
<1>3. Good(db) => StaleKeysCounted
  BY DEF Good, StaleKeysCounted
<1> QED
  BY <1>1, <1>2, <1>3, PTL DEF Spec

=============================================================================
