---------------------------- MODULE Collections ----------------------------
(***************************************************************************)
(* What the values of the redis-derived engine promise: a set, a map from  *)
(* fields to stamped values, a sequence, or a map from members to scores,  *)
(* and what each call answers and leaves.  call is the call just made; its *)
(* n alternates, so that no call is a stuttering step.                     *)
(***************************************************************************)
EXTENDS Integers, Sequences, FiniteSets, SequencesExt

CONSTANT NameOrder

VARIABLES kind, value, call

vars == <<kind, value, call>>

Step(op) == call'.op = op

LOCAL arg == call'.args

LOCAL Answers(res) == call'.res = res

\* A sequence that has every element of S once.
LOCAL Lists(s, S) == Len(s) = Cardinality(S) /\ ToSet(s) = S

LOCAL DropKey(f, k) == [x \in DOMAIN f \ {k} |-> f[x]]

\* Positions i to j, counted from 0 or from the end, of a sequence of n.
LOCAL Part(s, i, j) ==
  LET from == IF i < 0 THEN Max({Len(s) + i, 0}) ELSE i
      to   == Min({IF j < 0 THEN Len(s) + j ELSE j, Len(s) - 1})
  IN SubSeq(s, from + 1, to + 1)

sadd == /\ Step("sadd") /\ Answers(arg[1] \notin value)
        /\ value' = value \cup {arg[1]}

srem == /\ Step("srem") /\ Answers(arg[1] \in value)
        /\ value' = value \ {arg[1]}

sismember == Step("sismember") /\ Answers(arg[1] \in value) /\ UNCHANGED value

spop == Step("spop") /\ call'.res \in value /\ value' = value \ {call'.res}

scard == Step("scard") /\ Answers(Cardinality(value)) /\ UNCHANGED value

smembers == Step("smembers") /\ Lists(call'.res, value) /\ UNCHANGED value

hset == /\ Step("hset") /\ Answers(arg[1] \in DOMAIN value)
        /\ value' = [f \in DOMAIN value \cup {arg[1]} |->
                       IF f = arg[1] THEN [v |-> arg[3], ts |-> arg[2]] ELSE value[f]]

\* A field older than the stamp of the call is gone, from now on for all.
LOCAL Alive(f, ts) == f \in DOMAIN value /\ value[f].ts >= ts

LOCAL Drops(f, ts) ==
  value' = IF f \in DOMAIN value /\ ~Alive(f, ts) THEN DropKey(value, f) ELSE value

hget == /\ Step("hget") /\ Drops(arg[1], arg[2])
        /\ Answers(IF Alive(arg[1], arg[2]) THEN <<value[arg[1]].v>> ELSE <<>>)

hexists == Step("hexists") /\ Drops(arg[1], arg[2]) /\ Answers(Alive(arg[1], arg[2]))

hdel == Step("hdel") /\ Answers(arg[1] \in DOMAIN value) /\ value' = DropKey(value, arg[1])

hlen == Step("hlen") /\ Answers(Cardinality(DOMAIN value)) /\ UNCHANGED value

hgetall == /\ Step("hgetall") /\ UNCHANGED value
           /\ Lists(call'.res, {<<f, value[f].v>> : f \in DOMAIN value})

push == /\ Step("push") /\ Answers(Len(value) + 1)
        /\ value' = IF arg[2] THEN <<arg[1]>> \o value ELSE Append(value, arg[1])

pop ==
  /\ Step("pop")
  /\ IF arg[1] THEN Answers(Head(value)) /\ value' = Tail(value)
     ELSE Answers(Last(value)) /\ value' = Front(value)

\* Before or after the first element that is equal to the one named.
linsert ==
  LET at == {i \in DOMAIN value : value[i] = arg[1]}
  IN /\ Step("linsert") /\ Answers(at # {})
     /\ value' = IF at = {} THEN value
                 ELSE InsertAt(value, IF arg[3] THEN Min(at) + 1 ELSE Min(at), arg[2])

llen == Step("llen") /\ Answers(Len(value)) /\ UNCHANGED value

LOCAL Position(i) == IF i < 0 THEN Len(value) + i + 1 ELSE i + 1

lindex ==
  LET p == Position(arg[1])
  IN Step("lindex") /\ UNCHANGED value /\ Answers(IF p \in DOMAIN value THEN <<value[p]>> ELSE <<>>)

lset ==
  LET p == Position(arg[1])
  IN /\ Step("lset") /\ Answers(p \in DOMAIN value)
     /\ value' = IF p \in DOMAIN value THEN ReplaceAt(value, p, arg[2]) ELSE value

lrange == Step("lrange") /\ UNCHANGED value /\ Answers(Part(value, arg[1], arg[2]))

ltrim == Step("ltrim") /\ value' = Part(value, arg[1], arg[2])

\* The first, or if the count is negative the last, so many equal elements.
lrem ==
  LET equal == {i \in DOMAIN value : value[i] = arg[2]}
      n     == arg[1]
      gone  == CASE n = 0 -> equal
                 [] n > 0 -> {i \in equal : Cardinality({j \in equal : j < i}) < n}
                 [] n < 0 -> {i \in equal : Cardinality({j \in equal : j > i}) < -n}
      kept  == SetToSortSeq(DOMAIN value \ gone, <)
  IN /\ Step("lrem") /\ Answers(Cardinality(gone))
     /\ value' = [i \in DOMAIN kept |-> value[kept[i]]]

LOCAL NameRank(m) == CHOOSE i \in DOMAIN NameOrder : NameOrder[i] = m

LOCAL Sorted ==
  SetToSortSeq(DOMAIN value, LAMBDA m, n :
    value[m] < value[n] \/ (value[m] = value[n] /\ NameRank(m) < NameRank(n)))

LOCAL InScores(m, i, j) == i <= value[m] /\ value[m] <= j

zadd == /\ Step("zadd") /\ Answers(arg[1] \notin DOMAIN value)
        /\ value' = [m \in DOMAIN value \cup {arg[1]} |-> IF m = arg[1] THEN arg[2] ELSE value[m]]

zrem == Step("zrem") /\ Answers(arg[1] \in DOMAIN value) /\ value' = DropKey(value, arg[1])

LOCAL Keeps(S) ==
  /\ value' = [m \in S |-> value[m]]
  /\ Answers(Cardinality(DOMAIN value) - Cardinality(S))

zremrangebyscore ==
  Step("zremrangebyscore") /\ Keeps({m \in DOMAIN value : ~InScores(m, arg[1], arg[2])})

zremrangebyrank ==
  Step("zremrangebyrank") /\ Keeps(DOMAIN value \ ToSet(Part(Sorted, arg[1], arg[2])))

zrange == /\ Step("zrange") /\ UNCHANGED value
          /\ Answers(Part(IF arg[3] THEN Reverse(Sorted) ELSE Sorted, arg[1], arg[2]))

zrangebyscore ==
  LET s == SelectSeq(Sorted, LAMBDA m : InScores(m, arg[1], arg[2]))
  IN Step("zrangebyscore") /\ UNCHANGED value /\ Answers(IF arg[3] THEN Reverse(s) ELSE s)

zrank == /\ Step("zrank") /\ UNCHANGED value
         /\ Answers(IF arg[1] \in DOMAIN value
                    THEN CHOOSE i \in DOMAIN Sorted : Sorted[i] = arg[1] ELSE 0)

zscore == /\ Step("zscore") /\ UNCHANGED value
          /\ Answers(IF arg[1] \in DOMAIN value THEN <<value[arg[1]]>> ELSE <<>>)

zcard == Step("zcard") /\ Answers(Cardinality(DOMAIN value)) /\ UNCHANGED value

Init == value = (IF kind \in {"set", "db"} THEN {} ELSE <<>>) /\ call.op = "none"

SetStep == sadd \/ srem \/ sismember \/ spop \/ scard \/ smembers

HashStep == hset \/ hget \/ hexists \/ hdel \/ hlen \/ hgetall

ListStep == push \/ pop \/ linsert \/ llen \/ lindex \/ lset \/ lrange \/ ltrim \/ lrem

ZsetStep == zadd \/ zrem \/ zremrangebyscore \/ zremrangebyrank \/ zrange \/ zrangebyscore
            \/ zrank \/ zscore \/ zcard

Next == /\ call'.n = 1 - call.n
        /\ UNCHANGED kind
        /\ \/ kind \in {"set", "db"} /\ SetStep
           \/ kind = "hash" /\ HashStep
           \/ kind = "list" /\ ListStep
           \/ kind = "zset" /\ ZsetStep

Spec == Init /\ [][Next]_vars

=============================================================================
