------------------------------ MODULE SkipList ------------------------------
(***************************************************************************)
(* The skip list of a sorted set (storage/rdb/redis/t_zset.c).  A node is  *)
(* named by its member, which is in the list once.  z.lv[n][i] is level    *)
(* i - 1 of node n: the node it leads to and the span of nodes it crosses; *)
(* the header has every level.                                             *)
(***************************************************************************)
EXTENDS Integers, Sequences, SequencesExt

CONSTANTS
  ZSKIPLIST_MAXLEVEL,
  NameOrder              \* compareStringObjects: the members in order

LOCAL Header == "header"
LOCAL Null == "null"

Before(m, n) ==
  (CHOOSE i \in DOMAIN NameOrder : NameOrder[i] = m)
    < (CHOOSE i \in DOMAIN NameOrder : NameOrder[i] = n)

zslCreate ==
  [level |-> 1, length |-> 0, tail |-> Null,
   score |-> <<>>, back |-> <<>>,
   lv |-> [n \in {Header} |-> [i \in 1..ZSKIPLIST_MAXLEVEL |-> [to |-> Null, span |-> 0]]]]

Members(z) == DOMAIN z.score

\* The nodes of score less than s, and those ordered before (s, m).
Below(z, s) == {n \in Members(z) : z.score[n] < s}

Preceding(z, s, m) ==
  {n \in Members(z) : z.score[n] < s \/ (z.score[n] = s /\ n # m /\ Before(n, m))}

\* Along level i as long as the next node is one of S, adding up the spans.
RECURSIVE WalkWithin(_, _, _, _)
WalkWithin(z, S, i, at) ==
  LET l == z.lv[at.x][i]
  IN IF l.to \in S THEN WalkWithin(z, S, i, [x |-> l.to, rank |-> at.rank + l.span]) ELSE at

\* The same, as long as no more than n nodes have been crossed.
RECURSIVE WalkRanks(_, _, _, _)
WalkRanks(z, n, i, at) ==
  LET l == z.lv[at.x][i]
  IN IF l.to # Null /\ at.rank + l.span <= n
     THEN WalkRanks(z, n, i, [x |-> l.to, rank |-> at.rank + l.span]) ELSE at

LOCAL Start == [x |-> Header, rank |-> 0]

\* The node, and its rank, where the search left each level: update and rank.
RECURSIVE DescendWithin(_, _, _, _)
DescendWithin(z, S, i, at) ==
  IF i = 0 THEN <<>>
  ELSE LET w == WalkWithin(z, S, i, at) IN Append(DescendWithin(z, S, i - 1, w), w)

RECURSIVE DescendRanks(_, _, _, _)
DescendRanks(z, n, i, at) ==
  IF i = 0 THEN <<>>
  ELSE LET w == WalkRanks(z, n, i, at) IN Append(DescendRanks(z, n, i - 1, w), w)

Path(z, S) == DescendWithin(z, S, z.level, Start)

RankPath(z, n) == DescendRanks(z, n, z.level, Start)

\* Mutant: the levels above the new node keep their span.
CrossedToo_kept(l) == l

\* A level that the new node does not reach crosses one node more.
CrossedToo(l) == [l EXCEPT !.span = @ + 1]

\* level is zslRandomLevel's.  A level that the list did not have yet is
\* entered at the header with the whole list as its span.
zslInsert(z, s, m, level) ==
  LET up     == Path(z, Preceding(z, s, m))
      all    == [i \in 1..(IF level > z.level THEN level ELSE z.level) |->
                   IF i <= z.level THEN up[i] ELSE Start]
      Gap(i) == all[1].rank - all[i].rank
      old(i) == IF i <= z.level THEN z.lv[all[i].x][i]
                ELSE [z.lv[Header][i] EXCEPT !.span = z.length]
      next   == z.lv[all[1].x][1].to
  IN [level  |-> Len(all),
      length |-> z.length + 1,
      tail   |-> IF next = Null THEN m ELSE z.tail,
      score  |-> [n \in Members(z) \cup {m} |-> IF n = m THEN s ELSE z.score[n]],
      back   |-> [n \in Members(z) \cup {m} |->
                    IF n = m THEN IF all[1].x = Header THEN Null ELSE all[1].x
                    ELSE IF n = next THEN m ELSE z.back[n]],
      lv     |-> [n \in DOMAIN z.lv \cup {m} |->
                    IF n = m THEN [i \in 1..level |-> [old(i) EXCEPT !.span = @ - Gap(i)]]
                    ELSE [i \in DOMAIN z.lv[n] |->
                            IF i \notin DOMAIN all THEN z.lv[n][i]
                            ELSE IF all[i].x # n THEN z.lv[n][i]
                            ELSE IF i <= level THEN [to |-> m, span |-> Gap(i) + 1]
                            ELSE CrossedToo(z.lv[n][i])]]]

\* x leaves each level, up being where the search for it left that level, and
\* the levels at the top that are empty then are given up.
zslDeleteNode(z, x, up) ==
  LET next == z.lv[x][1].to
      lv   == [n \in DOMAIN z.lv \ {x} |->
                 [i \in DOMAIN z.lv[n] |->
                    IF i > z.level THEN z.lv[n][i]
                    ELSE IF up[i].x # n THEN z.lv[n][i]
                    ELSE IF z.lv[n][i].to = x
                    THEN [to |-> z.lv[x][i].to, span |-> z.lv[n][i].span + z.lv[x][i].span - 1]
                    ELSE [z.lv[n][i] EXCEPT !.span = @ - 1]]]
  IN [level  |-> Max({1} \cup {i \in 1..z.level : lv[Header][i].to # Null}),
      length |-> z.length - 1,
      tail   |-> IF next = Null THEN z.back[x] ELSE z.tail,
      score  |-> [n \in Members(z) \ {x} |-> z.score[n]],
      back   |-> [n \in Members(z) \ {x} |-> IF n = next THEN z.back[x] ELSE z.back[n]],
      lv     |-> lv]

zslDelete(z, s, m) ==
  LET up == Path(z, Preceding(z, s, m))
      x  == z.lv[up[1].x][1].to
  IN IF x = m /\ z.score[x] = s THEN zslDeleteNode(z, x, up) ELSE z

\* The nodes from x on that are in S, deleted one after the other.
RECURSIVE DeleteOn(_, _, _, _)
DeleteOn(z, x, S, up) ==
  IF x \in S THEN DeleteOn(zslDeleteNode(z, x, up), z.lv[x][1].to, S, up) ELSE z

zslDeleteRangeByScore(z, min, max) ==
  LET up == Path(z, Below(z, min))
  IN DeleteOn(z, z.lv[up[1].x][1].to, {n \in Members(z) : z.score[n] <= max}, up)

RECURSIVE DeleteRanks(_, _, _, _)
DeleteRanks(z, x, n, up) ==
  IF x # Null /\ n > 0 THEN DeleteRanks(zslDeleteNode(z, x, up), z.lv[x][1].to, n - 1, up) ELSE z

\* start and end count from 1.
zslDeleteRangeByRank(z, start, end) ==
  LET up == RankPath(z, start - 1)
  IN DeleteRanks(z, z.lv[up[1].x][1].to, end - up[1].rank, up)

zslFirst(z) == z.lv[Header][1].to

zslFirstWithScore(z, s) == z.lv[Path(z, Below(z, s))[1].x][1].to

\* The rank where the search, which may also step on the node itself, first
\* stands on it; 0 if it never does.
zslGetRank(z, s, m) ==
  LET up == Path(z, Preceding(z, s, m) \cup {n \in Members(z) : n = m /\ z.score[n] = s})
      on == {i \in 1..z.level : up[i].x = m}
  IN IF on = {} THEN 0 ELSE up[Max(on)].rank

zslGetElementByRank(z, n) ==
  LET up == RankPath(z, n)
      on == {i \in 1..z.level : up[i].rank = n}
  IN IF on = {} THEN Null ELSE up[Max(on)].x

\* The nodes from x on, along level 0 or backward.
RECURSIVE Forward(_, _, _)
Forward(z, x, n) == IF x = Null \/ n = 0 THEN <<>> ELSE <<x>> \o Forward(z, z.lv[x][1].to, n - 1)

RECURSIVE Backward(_, _, _)
Backward(z, x, n) == IF x = Null \/ n = 0 THEN <<>> ELSE <<x>> \o Backward(z, z.back[x], n - 1)

\* The loops of genericZrangebyscoreCommand.  Downward it starts at the last
\* node of score s or less, found by going back from the first of score s or
\* more, or from the tail, and then forward over the nodes of the same score.
RECURSIVE BackTo(_, _, _)
BackTo(z, x, s) == IF x # Null /\ z.score[x] > s THEN BackTo(z, z.back[x], s) ELSE x

RECURSIVE OverEqual(_, _, _)
OverEqual(z, x, s) ==
  LET next == z.lv[x][1].to
  IN IF next # Null /\ z.score[next] = s THEN OverEqual(z, next, s) ELSE x

zslLastWithScore(z, s) ==
  LET first == zslFirstWithScore(z, s)
      x     == BackTo(z, IF first = Null THEN z.tail ELSE first, s)
  IN IF x = Null THEN Null ELSE OverEqual(z, x, s)

RECURSIVE WalkUp(_, _, _)
WalkUp(z, x, max) ==
  IF x = Null \/ z.score[x] > max THEN <<>> ELSE <<x>> \o WalkUp(z, z.lv[x][1].to, max)

RECURSIVE WalkDown(_, _, _)
WalkDown(z, x, min) ==
  IF x = Null \/ z.score[x] < min THEN <<>> ELSE <<x>> \o WalkDown(z, z.back[x], min)

\* The nodes in order of score and name, which the list must be.
Ordered(z) == SetToSortSeq(Members(z), LAMBDA m, n : m \in Preceding(z, z.score[n], n))

\* What every call leaves: the nodes in order forward and backward, no level
\* unused, and every span the number of nodes that its step crosses.
SkipListSound(z) ==
  LET all      == Ordered(z)
      Place(n) == IF n = Header THEN 0 ELSE CHOOSE i \in DOMAIN all : all[i] = n
      N        == Len(all)
  IN /\ z.length = N
     /\ Forward(z, z.lv[Header][1].to, N + 1) = all
     /\ Backward(z, z.tail, N + 1) = Reverse(all)
     /\ z.level = Max({1} \cup {Len(z.lv[n]) : n \in Members(z)})
     /\ \A n \in DOMAIN z.lv : \A i \in 1..Len(z.lv[n]) :
          LET l    == z.lv[n][i]
              tall == {j \in (Place(n) + 1)..N : Len(z.lv[all[j]]) >= i}
          IN i <= z.level =>
               IF tall = {} THEN l.to = Null /\ l.span = N - Place(n)
               ELSE l.to = all[Min(tall)] /\ l.span = Min(tall) - Place(n)

=============================================================================
