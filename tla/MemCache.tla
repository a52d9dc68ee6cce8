------------------------------ MODULE MemCache ------------------------------
(***************************************************************************)
(* The memory engine of the data server (storage/mdb): a pool of pages cut *)
(* into slabs, an LRU list per slab and area, a chained hash table, and    *)
(* the accounts of the areas.  Every item operation runs under mem_locker; *)
(* the scans (clear, close_buckets, remove_exprd_item, the dump of a       *)
(* bucket, balance_slab, check_quota) give the lock back between two hash  *)
(* buckets, slabs, pages or areas, and clients run in between.             *)
(* All of it lies in one shared memory segment, here the record mem; the   *)
(* doubly linked lists are sequences, an item is <<page, slot>>.           *)
(***************************************************************************)
EXTENDS Integers, FiniteSets, SequencesExt

CONSTANTS
    Key, AreaOf, HashOf, BucketOf,  \* the area, hash chain and data bucket of a key
    Area, Hash,                     \* 0 .. n-1 each, in the order the code visits them
    Slab,                           \* 1 .. n, by growing item size
    SlabSize, PerSlab,              \* the item size and the items per page of a slab
    PartialPageBucket,              \* PARTIAL_PAGE_BUCKET
    EvictSearch,                    \* how far evict_self looks for an expired item
    VersionMod,                     \* versions are kept modulo this (65536)
    Epoch,                          \* the clock at the start
    Loads                           \* what may be asked of the cache: the pages it
                                    \* has, the sizes and expiries of put, whether it cares for versions,
                                    \* the quotas of set_area_quota, the scans, the
                                    \* eviction counts the balance reads, and how
                                    \* far the clock runs

ASSUME MemCacheAssumption ==
    /\ AreaOf \in [Key -> Area] /\ HashOf \in [Key -> Hash]
    /\ SlabSize \in [Slab -> Nat] /\ PerSlab \in [Slab -> Nat \ {0}]
    /\ \A l \in Loads : l.pages \in Nat /\ l.pages >= Cardinality(Slab)
    /\ PartialPageBucket \in Nat \ {0}
    /\ \A l \in Loads : \A k \in Key : \A z \in l.sizes[k] : \E s \in Slab : z <= SlabSize[s]
    /\ VersionMod \in Nat \ {0} /\ Epoch \in Nat \ {0}

VARIABLES
    mem,      \* the shared memory segment
    now,      \* time(NULL)
    job,      \* the scan in progress
    failed,   \* an assert of the code has failed
    load      \* the member of Loads this cache is put to

vars == <<mem, now, job, failed, load>>

Page == 1..load.pages
Item == {<<p, i>> : p \in Page, i \in 1..Max({PerSlab[s] : s \in Slab})}
NoItem == <<0, 0>>
NoKey == "none"
Blank == [key |-> NoKey, size |-> 0, exp |-> 0, ver |-> 0]
Idle == [kind |-> "idle"]

\* FoldLeft of SequencesExt, which TLC evaluates in exponential time.
RECURSIVE Fold(_, _, _)
Fold(F(_, _), c, list) == IF list = <<>> THEN c ELSE Fold(F, F(c, Head(list)), Tail(list))

RECURSIVE SumOf(_, _)
SumOf(F(_), S) == IF S = {} THEN 0 ELSE LET x == CHOOSE y \in S : TRUE IN F(x) + SumOf(F, S \ {x})

Buckets(s) == 0..((PerSlab[s] - 1) \div PartialPageBucket)
Unlink(list, x) == SelectSeq(list, LAMBDA y : y # x)
Link(list, x) == <<x>> \o list
Room(c, p) == Len(c.slots[p]) \div PartialPageBucket
PagesNo(c, s) == c.no[s].free + c.no[s].full + c.no[s].partial

------------------------------------------------------------------------------
\* mem_pool::alloc_page: the next page whose bit is clear, from current_page on.
NextPage(c) ==
    LET ahead == {p \in c.pool : p >= c.current} IN Min(IF ahead # {} THEN ahead ELSE c.pool)

\* init_page: every slot free, in order, and no trace of what the page held.
InitPage(c, s, p) ==
    [c EXCEPT !.pool = @ \ {p}, !.current = p + 1, !.owner[p] = s,
              !.slots[p] = [i \in 1..PerSlab[s] |-> i],
              !.item = [it \in Item |-> IF it[1] = p THEN Blank ELSE @[it]]]

\* mem_pool::free_page.  What is written in the page is forgotten here already;
\* nobody reads it before init_page.
ToPool(c, p) == [c EXCEPT !.pool = @ \cup {p}, !.owner[p] = 0, !.slots[p] = <<>>]

\* pre_alloc(1): every slab starts with one free page.
PreAlloc(c, s) ==
    LET p == NextPage(c) IN
    [InitPage(c, s, p) EXCEPT !.free[s] = Link(@, p), !.no[s].free = @ + 1]

FirstPartial(c, s) == Head(c.partial[s][Min({b \in Buckets(s) : c.partial[s][b] # <<>>})])
MostFreePartial(c, s) == Head(c.partial[s][Max({b \in Buckets(s) : c.partial[s][b] # <<>>})])

\* Mutant: a page taken from the free pages stays counted there.
OpenPageCounted(c, s) ==
    IF c.no[s].partial > 0
    THEN LET p == FirstPartial(c, s)
         IN [c |-> [c EXCEPT !.partial[s][Room(c, p)] = Unlink(@, p)], page |-> p]
    ELSE IF c.no[s].free > 0
    THEN LET p == Head(c.free[s])
         IN [c |-> [c EXCEPT !.free[s] = Unlink(@, p), !.no[s].partial = @ + 1], page |-> p]
    ELSE LET p == NextPage(c)
         IN [c |-> [InitPage(c, s, p) EXCEPT !.no[s].partial = @ + 1], page |-> p]

\* The page alloc_new_item takes an item from: a partial one, a free one, or a
\* new one of the pool.  It is off its list and counted as partial.
OpenPage(c, s) ==
    IF c.no[s].partial > 0
    THEN LET p == FirstPartial(c, s)
         IN [c |-> [c EXCEPT !.partial[s][Room(c, p)] = Unlink(@, p)], page |-> p]
    ELSE IF c.no[s].free > 0
    THEN LET p == Head(c.free[s])
         IN [c |-> [c EXCEPT !.free[s] = Unlink(@, p),
                             !.no[s].free = @ - 1, !.no[s].partial = @ + 1], page |-> p]
    ELSE LET p == NextPage(c)
         IN [c |-> [InitPage(c, s, p) EXCEPT !.no[s].partial = @ + 1], page |-> p]

Nothing(c) == [c |-> c, it |-> NoItem, type |-> "none"]

\* alloc_new_item: the first free slot of the page, linked into the area's list.
AllocNewItem(c, s, area) ==
    IF PagesNo(c, s) = c.no[s].full /\ c.pool = {} THEN Nothing(c)
    ELSE LET o == OpenPage(c, s)
             p == o.page
             it == <<p, Head(o.c.slots[p])>>
             d == [o.c EXCEPT !.slots[p] = Tail(@), !.no[s].items = @ + 1,
                              !.lru[s][area] = Link(@, it)]
         IN [c |-> IF d.slots[p] = <<>>
                   THEN [d EXCEPT !.full[s] = Link(@, p),
                                  !.no[s].full = @ + 1, !.no[s].partial = @ - 1]
                   ELSE [d EXCEPT !.partial[s][Room(d, p)] = Link(@, p)],
             it |-> it, type |-> "new"]

Expired(i) == i.exp # 0 /\ i.exp < now

\* evict_self: an expired item among the last EvictSearch of the area's own
\* list, else its tail; it moves to the head of the list.
EvictSelf(c, s, area) ==
    LET list == c.lru[s][area]
        old == {n \in 1..Len(list) : n + EvictSearch > Len(list) /\ Expired(c.item[list[n]])}
        it == IF old # {} THEN list[Max(old)] ELSE Last(list)
    IN IF list = <<>> THEN Nothing(c)
       ELSE [c |-> [c EXCEPT !.lru[s][area] = Link(Unlink(@, it), it)], it |-> it,
             type |-> IF old # {} THEN "expired" ELSE "evict_self"]

\* Mutant: evict_index runs past the last area.
EvictAnyNoWrap(c, s, area) ==
    LET n == Cardinality(Area)
        full == {d \in 0..(n - 1) : c.lru[s][(c.index[s] + d) % n] # <<>>}
        from == (c.index[s] + Min(full)) % n
        it == Last(c.lru[s][from])
        d == [c EXCEPT !.index[s] = @ + Min(full), !.lru[s][from] = Unlink(@, it)]
    IN IF full = {} THEN Nothing(c)
       ELSE [c |-> [d EXCEPT !.lru[s][area] = Link(@, it)], it |-> it,
             type |-> IF Expired(c.item[it]) THEN "expired" ELSE "evict_any"]

\* evict_any: the tail of the first list that is not empty, from evict_index
\* on; it moves to the list of the area that asks.
EvictAny(c, s, area) ==
    LET n == Cardinality(Area)
        full == {d \in 0..(n - 1) : c.lru[s][(c.index[s] + d) % n] # <<>>}
        from == (c.index[s] + Min(full)) % n
        it == Last(c.lru[s][from])
        d == [c EXCEPT !.index[s] = from, !.lru[s][from] = Unlink(@, it)]
    IN IF full = {} THEN Nothing(c)
       ELSE [c |-> [d EXCEPT !.lru[s][area] = Link(@, it)], it |-> it,
             type |-> IF Expired(c.item[it]) THEN "expired" ELSE "evict_any"]

IsQuotaExceed(c, area) == c.stat[area].quota <= c.stat[area].data

\* slab_manager::alloc_item: an area over its quota evicts its own items first.
AllocItem(c, s, area) ==
    LET new == AllocNewItem(c, s, area)
        self == EvictSelf(c, s, area)
        any == EvictAny(c, s, area)
        exceed == IsQuotaExceed(c, area)
    IN IF exceed /\ self.it # NoItem THEN self
       ELSE IF new.it # NoItem THEN new
       ELSE IF ~exceed /\ self.it # NoItem THEN self ELSE any

GetSlab(z) == Min({s \in Slab : z <= SlabSize[s]})

------------------------------------------------------------------------------
Find(c, k) ==
    LET hits == SelectSeq(c.chain[HashOf[k]], LAMBDA it : c.item[it].key = k)
    IN IF hits = <<>> THEN NoItem ELSE Head(hits)

\* cache_hash_map::remove looks for the key of the item.
HashRemove(c, it) ==
    LET k == c.item[it].key
        hit == Find(c, k)
    IN [c EXCEPT !.chain[HashOf[k]] = Unlink(@, hit)]

Account(c, it, n) ==
    LET i == c.item[it] IN
    [c EXCEPT !.stat[AreaOf[i.key]] =
        [@ EXCEPT !.data = IF n = 1 THEN @ + i.size ELSE @ - i.size,
                  !.count = IF n = 1 THEN @ + 1 ELSE @ - 1]]

\* slab_manager::free_item: the slot goes back to its page, and a page that is
\* all free to the pool, unless the slab has at most one other page.
FreeItem(c, it) ==
    LET p == it[1]
        s == c.owner[p]
        a == AreaOf[c.item[it].key]
        b == [c EXCEPT !.no[s].items = @ - 1, !.lru[s][a] = Unlink(@, it)]
        d == IF b.slots[p] = <<>>
             THEN [b EXCEPT !.full[s] = Unlink(@, p),
                            !.no[s].full = @ - 1, !.no[s].partial = @ + 1]
             ELSE [b EXCEPT !.partial[s][Room(b, p)] = Unlink(@, p)]
        e == [d EXCEPT !.slots[p] = <<it[2]>> \o @, !.item[it] = Blank]
        f == [e EXCEPT !.no[s].partial = @ - 1]
    IN IF Len(e.slots[p]) < PerSlab[s]
       THEN [e EXCEPT !.partial[s][Room(e, p)] = Link(@, p)]
       ELSE IF PagesNo(f, s) <= 1
       THEN [f EXCEPT !.free[s] = Link(@, p), !.no[s].free = @ + 1]
       ELSE ToPool(f, p)

\* __remove
RemoveItem(c, it) == FreeItem(HashRemove(Account(c, it, 0), it), it)
RemoveItems(c, list) == Fold(RemoveItem, c, list)

------------------------------------------------------------------------------
\* A scan is told of every key that changes while it runs (history).
Touched(c) == {k \in Key : Find(c, k) # Find(mem, k)}
Noting(K) == IF job = Idle THEN job ELSE [job EXCEPT !.untouched = @ \ K]

\* The item a put writes: an expiry beyond the clock is a date, any other a
\* span.  Without one the item keeps the date it has.
Written(i, k, z, v, x) ==
    [key |-> k, size |-> z, ver |-> v % VersionMod,
     exp |-> IF x = 0 THEN i.exp ELSE IF x > now THEN x ELSE now + x]

\* Mutant: the item that is evicted stays in its hash chain.
EvictedInChain(r) == IF r.type = "new" THEN r.c ELSE Account(r.c, r.it, 0)

\* Mutant: the item that is evicted stays in the accounts of its area.
EvictedCounted(r) == IF r.type = "new" THEN r.c ELSE HashRemove(r.c, r.it)

\* What do_put does about the item it is given in place of a new one.
Evicted(r) == IF r.type = "new" THEN r.c ELSE HashRemove(Account(r.c, r.it, 0), r.it)

\* do_put
Put(k, z, v, care, x) ==
    LET old == Find(mem, k)
        gone == old # NoItem /\ Expired(mem.item[old])
        base == IF old = NoItem \/ gone THEN 0 ELSE mem.item[old].ver
        r == AllocItem(IF old = NoItem THEN mem ELSE RemoveItem(mem, old), GetSlab(z), AreaOf[k])
        d == [Evicted(r) EXCEPT !.item[r.it] = Written(@, k, z, IF care THEN base + 1 ELSE v, x)]
    IN IF old # NoItem /\ ~gone /\ care /\ v # 0 /\ mem.item[old].ver # v
       THEN UNCHANGED vars
       ELSE IF r.it = NoItem
       THEN failed' = TRUE /\ UNCHANGED <<mem, now, job, load>>
       ELSE /\ mem' = Account([d EXCEPT !.chain[HashOf[k]] = Link(@, r.it)], r.it, 1)
            /\ job' = Noting(Touched(mem') \cup {k})
            /\ UNCHANGED <<now, failed, load>>

\* do_get: an expired item is removed, any other moves to the head of its list.
Get(k) ==
    LET it == Find(mem, k)
        s == mem.owner[it[1]]
    IN /\ it # NoItem
       /\ mem' = IF Expired(mem.item[it]) THEN RemoveItem(mem, it)
                 ELSE [mem EXCEPT !.lru[s][AreaOf[k]] = Link(Unlink(@, it), it)]
       /\ job' = Noting(Touched(mem'))
       /\ UNCHANGED <<now, failed, load>>

\* do_remove; the version is not looked at.
RemoveKey(k) ==
    /\ Find(mem, k) # NoItem
    /\ mem' = RemoveItem(mem, Find(mem, k))
    /\ job' = Noting({k})
    /\ UNCHANGED <<now, failed, load>>

SetAreaQuota(a, q) ==
    /\ mem' = [mem EXCEPT !.stat[a].quota = q]
    /\ UNCHANGED <<now, job, failed, load>>

Tick ==
    /\ now < load.until /\ now' = now + 1
    /\ UNCHANGED <<mem, job, failed, load>>

------------------------------------------------------------------------------
\* The scans.  untouched is the set of keys a scan has to deal with that nobody
\* else has changed since it began; got is what a dump has handed out.
Present(T(_)) == {k \in Key : Find(mem, k) # NoItem /\ T(mem.item[Find(mem, k)])}
Due(i) == i.exp # 0 /\ i.exp <= now

Begin(kind, arg, first, keys) ==
    /\ kind \in load.jobs /\ job = Idle
    /\ job' = [kind |-> kind, arg |-> arg, pos |-> first, untouched |-> keys, got |-> {}]
    /\ UNCHANGED <<mem, now, failed, load>>

StartClear(a) == Begin("clear", a, 1, Present(LAMBDA i : AreaOf[i.key] = a))
StartExpire == Begin("expire", 0, 0, Present(Due))
StartClose(b) == Begin("close", b, 0, Present(LAMBDA i : BucketOf[i.key] = b))
StartDump(b) == Begin("dump", b, 0, Present(LAMBDA i : BucketOf[i.key] = b /\ ~Due(i)))
StartQuota == Begin("quota", 0, 0, {})

Advance(c, n) ==
    /\ mem' = c /\ job' = [job EXCEPT !.pos = n]
    /\ UNCHANGED <<now, failed, load>>

\* clear(area), one slab under the lock
ClearSlab ==
    /\ job.kind = "clear" /\ job.pos \in Slab
    /\ Advance(RemoveItems(mem, mem.lru[job.pos][job.arg]), job.pos + 1)

RemoveFrom(h, T(_)) == RemoveItems(mem, SelectSeq(mem.chain[h], LAMBDA it : T(mem.item[it])))

\* remove_exprd_item, one hash chain under the lock
ExpireChain ==
    /\ job.kind = "expire" /\ job.pos \in Hash
    /\ Advance(RemoveFrom(job.pos, Due), job.pos + 1)

\* close_buckets, one hash chain under the lock
CloseChain ==
    /\ job.kind = "close" /\ job.pos \in Hash
    /\ Advance(RemoveFrom(job.pos, LAMBDA i : Due(i) \/ BucketOf[i.key] = job.arg),
               job.pos + 1)

\* Mutant: the scan moves on by one chain more than it read.
DumpChainSkips ==
    LET ahead == {h \in Hash : h >= job.pos /\ mem.chain[h] # <<>>}
        h == Min(ahead)
    IN /\ job.kind = "dump" /\ job.pos \in Hash
       /\ IF ahead = {} THEN Advance(mem, Cardinality(Hash))
          ELSE /\ mem' = RemoveFrom(h, Due)
               /\ job' = [job EXCEPT !.pos = h + 2,
                     !.got = @ \cup {k \in Present(LAMBDA i : BucketOf[i.key] = job.arg /\ ~Due(i)) : HashOf[k] = h}]
               /\ UNCHANGED <<now, failed, load>>

\* get_next_items: the next chain that is not empty.  Items that are due are
\* removed, those of the bucket are copied out.
DumpChain ==
    LET ahead == {h \in Hash : h >= job.pos /\ mem.chain[h] # <<>>}
        h == Min(ahead)
    IN /\ job.kind = "dump" /\ job.pos \in Hash
       /\ IF ahead = {} THEN Advance(mem, Cardinality(Hash))
          ELSE /\ mem' = RemoveFrom(h, Due)
               /\ job' = [job EXCEPT !.pos = h + 1,
                     !.got = @ \cup {k \in Present(LAMBDA i : BucketOf[i.key] = job.arg /\ ~Due(i)) : HashOf[k] = h}]
               /\ UNCHANGED <<now, failed, load>>

------------------------------------------------------------------------------
\* calc_slab_balance_info: the pages each slab should give back, from the items
\* it has and the evictions e it made since the last balance.
PagesToFree(e) ==
    LET used == {s \in Slab : mem.no[s].items # 0}
        have == SumOf(LAMBDA s : mem.no[s].items, used)
        should == SumOf(LAMBDA s : mem.no[s].items + e[s], used)
        need == [s \in used |->
                   (((mem.no[s].items + e[s]) * have) \div should) - mem.no[s].items]
        pages == [s \in used |-> LET n == IF need[s] > 0 THEN need[s] ELSE -need[s]
                                 IN (n + PerSlab[s] - 1) \div PerSlab[s]]
        wanted == SumOf(LAMBDA s : pages[s], {s \in used : need[s] > 0})
    IN [s \in Slab |-> IF s \in used /\ need[s] < 0 /\ wanted > Cardinality(mem.pool)
                       THEN pages[s] ELSE 0]

\* balance_slab reads the counters without the lock.  They are those of one
\* moment here; by the time the pages are freed they are of the past.  A round
\* that takes no page away is left out.
StartBalance ==
    \E e \in [Slab -> load.evictions] :
      /\ \E s \in Slab : PagesToFree(e)[s] > 0
      /\ Begin("balance", PagesToFree(e), 1, {})

InUse(c, it) == c.item[it].key # NoKey

\* clear_page takes an item with neither neighbour for a free one.
ClearSlot(c, it) ==
    IF ~InUse(c, it) \/ Len(c.lru[c.owner[it[1]]][AreaOf[c.item[it].key]]) = 1 THEN c
    ELSE RemoveItem(c, it)

ClearPage(c, s, p) == Fold(ClearSlot, c, [i \in 1..PerSlab[s] |-> <<p, i>>])

\* mem_cache::free_page, for a slab with more than one page
FreePage(c, s) ==
    IF c.no[s].free > 0
    THEN LET p == Head(c.free[s])
         IN ToPool([c EXCEPT !.free[s] = Unlink(@, p), !.no[s].free = @ - 1], p)
    ELSE ClearPage(c, s, IF c.no[s].partial > 0 THEN MostFreePartial(c, s) ELSE Head(c.full[s]))

\* Mutant: the last page of a slab may go too.
BalancePageLast ==
    /\ job.kind = "balance" /\ job.pos \in Slab /\ job.arg[job.pos] > 0
    /\ mem' = FreePage(mem, job.pos)
    /\ job' = [job EXCEPT !.arg[job.pos] = @ - 1]
    /\ UNCHANGED <<now, failed, load>>

\* One page under the lock; a slab with one page is left alone.
BalancePage ==
    /\ job.kind = "balance" /\ job.pos \in Slab /\ job.arg[job.pos] > 0
    /\ PagesNo(mem, job.pos) > 1
    /\ mem' = FreePage(mem, job.pos)
    /\ job' = [job EXCEPT !.arg[job.pos] = @ - 1]
    /\ UNCHANGED <<now, failed, load>>

BalanceNext ==
    /\ job.kind = "balance" /\ job.pos \in Slab
    /\ job.arg[job.pos] = 0 \/ PagesNo(mem, job.pos) <= 1
    /\ Advance(mem, job.pos + 1)

------------------------------------------------------------------------------
\* Mutant: the size of the item is read after __remove has cleared it.
QuotaRoundCleared(r, a, spared) ==
    LET Step(q, s) ==
            LET list == q.c.lru[s][a]
                c == RemoveItem(q.c, Last(list))
            IN IF q.todo <= 0 \/ s \in spared \/ list = <<>> THEN q
               ELSE [c |-> c, todo |-> q.todo - c.item[Last(list)].size]
    IN Fold(Step, r, [s \in Slab |-> s])

\* keep_area_quota, one round over the slabs: the tail of the area's list of
\* each slab that is not spared, until todo bytes are gone.
QuotaRound(r, a, spared) ==
    LET Step(q, s) ==
            LET list == q.c.lru[s][a]
                z == q.c.item[Last(list)].size
            IN IF q.todo <= 0 \/ s \in spared \/ list = <<>> THEN q
               ELSE [c |-> RemoveItem(q.c, Last(list)), todo |-> q.todo - z]
    IN Fold(Step, r, [s \in Slab |-> s])

RECURSIVE KeepAreaQuota(_, _)
KeepAreaQuota(r, a) ==
    IF r.todo <= 0 \/ \A s \in Slab : r.c.lru[s][a] = <<>> THEN r
    ELSE KeepAreaQuota(QuotaRound(r, a, {}), a)

\* check_quota, one area.  The first round spares the slabs whose item_count of
\* the area is below a page; free_item never lowers item_count, so it may be
\* above the length of the list, never below it.  Without an item left and
\* bytes still to go the loop of the code would not end.
QuotaArea ==
    /\ job.kind = "quota" /\ job.pos \in Area
    /\ LET a == job.pos
           over == mem.stat[a].data - mem.stat[a].quota
           low == {s \in Slab : Len(mem.lru[s][a]) < PerSlab[s]}
       IN IF over <= 0 \/ mem.stat[a].data = 0 THEN Advance(mem, a + 1)
          ELSE \E spared \in SUBSET low :
                 LET r == KeepAreaQuota(QuotaRound([c |-> mem, todo |-> over], a, spared), a)
                 IN /\ mem' = r.c /\ job' = [job EXCEPT !.pos = a + 1]
                    /\ failed' = (failed \/ r.todo > 0)
                    /\ UNCHANGED <<now, load>>

JobDone ==
    CASE job.kind = "idle" -> FALSE
      [] job.kind \in {"clear", "balance"} -> job.pos \notin Slab
      [] job.kind = "quota" -> job.pos \notin Area
      [] OTHER -> job.pos \notin Hash

EndJob ==
    /\ JobDone /\ job' = Idle
    /\ UNCHANGED <<mem, now, failed, load>>

------------------------------------------------------------------------------
Empty ==
    [pool |-> Page, current |-> 1, owner |-> [p \in 0..load.pages |-> 0],
     slots |-> [p \in Page |-> <<>>], item |-> [it \in Item |-> Blank],
     free |-> [s \in Slab |-> <<>>], full |-> [s \in Slab |-> <<>>],
     partial |-> [s \in Slab |-> [b \in Buckets(s) |-> <<>>]],
     no |-> [s \in Slab |-> [free |-> 0, partial |-> 0, full |-> 0, items |-> 0]],
     index |-> [s \in Slab |-> 0], lru |-> [s \in Slab |-> [a \in Area |-> <<>>]],
     chain |-> [h \in Hash |-> <<>>],
     stat |-> [a \in Area |-> [data |-> 0, count |-> 0, quota |-> Min(load.quotas)]]]

Init ==
    /\ load \in Loads
    /\ mem = Fold(PreAlloc, Empty, [s \in Slab |-> s])
    /\ now = Epoch /\ job = Idle /\ failed = FALSE

Next ==
    \/ \E k \in Key :
         \/ \E z \in load.sizes[k], v \in 0..(VersionMod - 1), care \in load.cares, x \in load.expires :
                Put(k, z, v, care, x)
         \/ Get(k) \/ RemoveKey(k)
    \/ \E a \in Area : StartClear(a) \/ \E q \in load.quotas : SetAreaQuota(a, q)
    \/ \E k \in Key : StartClose(BucketOf[k]) \/ StartDump(BucketOf[k])
    \/ StartExpire \/ StartBalance \/ StartQuota \/ Tick
    \/ ClearSlab \/ ExpireChain \/ CloseChain \/ DumpChain
    \/ BalancePage \/ BalanceNext \/ QuotaArea \/ EndJob

Spec == Init /\ [][Next]_vars

------------------------------------------------------------------------------
TypeOK ==
    /\ mem.pool \subseteq Page /\ mem.current \in 1..(load.pages + 1)
    /\ mem.owner \in [0..load.pages -> Slab \cup {0}] /\ mem.index \in [Slab -> Area]
    /\ \A s \in Slab : mem.no[s] \in [free : Nat, partial : Nat, full : Nat, items : Nat]
    /\ \A it \in Item : mem.item[it].key \in Key \cup {NoKey}
    /\ \A a \in Area : mem.stat[a].data \in Nat /\ mem.stat[a].count \in Nat
    /\ now \in Epoch..load.until /\ failed \in BOOLEAN

Count(list, x) == Cardinality({n \in 1..Len(list) : list[n] = x})

\* Every page is in the pool or on exactly the list of its slab that its number
\* of free slots calls for, and the page counters of a slab, which decide where
\* alloc_new_item looks, are the lengths of its lists.
PagesExact ==
    /\ \A p \in Page \ mem.pool :
         LET s == mem.owner[p]
             n == Len(mem.slots[p])
         IN /\ Count(mem.free[s], p) = IF n = PerSlab[s] THEN 1 ELSE 0
            /\ Count(mem.full[s], p) = IF n = 0 THEN 1 ELSE 0
            /\ \A b \in Buckets(s) : Count(mem.partial[s][b], p) =
                    IF n \in 1..(PerSlab[s] - 1) /\ b = Room(mem, p) THEN 1 ELSE 0
    /\ \A s \in Slab :
         LET mine == {p \in Page \ mem.pool : mem.owner[p] = s}
         IN /\ mem.no[s].free = Len(mem.free[s]) /\ mem.no[s].full = Len(mem.full[s])
            /\ PagesNo(mem, s) = Cardinality(mine)
            /\ Range(mem.free[s]) \cup Range(mem.full[s]) \subseteq mine

\* Every slot of a page in use is either free, once on the free list of its
\* page, or holds a key, once in the LRU list of its slab and of the area of
\* the key and once in the chain of the key; no list holds anything else and no
\* two items hold the same key.
ItemsExact ==
    /\ \A p \in Page \ mem.pool : \A i \in 1..PerSlab[mem.owner[p]] :
         LET it == <<p, i>>
             k == mem.item[it].key
             s == mem.owner[p]
         IN IF k = NoKey THEN Count(mem.slots[p], i) = 1
            ELSE /\ Count(mem.slots[p], i) = 0 /\ Find(mem, k) = it
                 /\ Count(mem.lru[s][AreaOf[k]], it) = 1
                 /\ Count(mem.chain[HashOf[k]], it) = 1
    /\ \A s \in Slab : \A a \in Area : \A it \in Range(mem.lru[s][a]) :
         it[1] \notin mem.pool /\ mem.owner[it[1]] = s /\ AreaOf[mem.item[it].key] = a
    /\ \A h \in Hash : \A it \in Range(mem.chain[h]) :
         it[1] \notin mem.pool /\ HashOf[mem.item[it].key] = h

\* The data_size and item_count of an area, which decide when it must evict its
\* own items, are those of the items it has.
AccountsExact ==
    \A a \in Area :
      LET mine == {it \in Item : it[1] \notin mem.pool /\ InUse(mem, it) /\ AreaOf[mem.item[it].key] = a}
      IN /\ mem.stat[a].count = Cardinality(mine)
         /\ mem.stat[a].data = SumOf(LAMBDA it : mem.item[it].size, mine)

\* The lists, counters and accounts of the cache describe the same items.
BooksExact == TypeOK /\ PagesExact /\ ItemsExact /\ AccountsExact

\* Whatever balance_slab takes away, a slab keeps a page: do_put relies on it
\* when it says that alloc_item "will be successful".
SlabKeepsPage == \A s \in Slab : PagesNo(mem, s) >= 1

\* No assert of do_put or evict_any fails and keep_area_quota always ends.
AssertsHold == ~failed

\* A scan that gives the lock back on its way misses nothing: of the keys it
\* was to deal with when it began and that nobody else changed, clear, close_buckets
\* and remove_exprd_item leave none, and a dump hands out each that is left.
ScanComplete ==
    JobDone /\ job.kind \in {"clear", "close", "expire", "dump"} =>
      \A k \in job.untouched :
         Find(mem, k) = NoItem \/ (job.kind = "dump" /\ k \in job.got)
==============================================================================
