----------------------------- MODULE MCCallPath -----------------------------
(***************************************************************************)
(* The calls, servers and sizes that CallPath is checked with.             *)
(***************************************************************************)
EXTENDS CallPath

Args == [key |-> 1, val |-> 1, values |-> 1, area |-> TRUE, signed |-> FALSE, keys |-> 1,
         lazy |-> FALSE, score |-> FALSE, hash |-> FALSE, record |-> "put"]

ApiCall(name, a) == [name |-> name, op |-> RequestOf(name, a), a |-> a, flag |-> "client"]

Other(op, a, flag) == [name |-> "other", op |-> op, a |-> a, flag |-> flag]

Server == [working |-> TRUE, localmode |-> FALSE, migrated |-> FALSE, slaves |-> 1,
           native |-> TRUE, sync |-> FALSE, falls |-> FALSE, busy |-> FALSE]

Load(s, calls, tables) == [server |-> s, calls |-> calls, tables |-> tables]

\* Arguments: plain ones, the sizes around the limits, the flags.
SizedArgs == {[Args EXCEPT !.key = s[1], !.val = s[2]] :
                s \in {<<0, 1>>, <<KeyMax - 3, 1>>, <<KeyMax - 2, 1>>, <<KeyMax - 1, 1>>,
                       <<KeyMax, 1>>, <<1, 0>>, <<1, DataMax - 1>>, <<1, DataMax>>}}

OddArgs == {[Args EXCEPT !.area = FALSE], [Args EXCEPT !.signed = TRUE],
            [Args EXCEPT !.values = 0], [Args EXCEPT !.lazy = TRUE],
            [Args EXCEPT !.score = TRUE]}

CallSet(as) == {ApiCall(n, a) : n \in ApiCalls \ {"mget", "mdelete"}, a \in as}
               \cup {ApiCall(n, [a EXCEPT !.keys = k]) : n \in {"mget", "mdelete"}, a \in as, k \in 1..2}

MultiOps == {"sadd_multi", "srem_multi", "smembers_multi"}

\* The classes that no call of the client sends.
OtherOps == (ValueOps \cup HashOps \cup SetOps \cup ZsetOps \cup ServerOps)
            \ ({RequestOf(n, Args) : n \in ApiCalls} \cup {"mupdate", "lazy_remove_area"})

\* A record of a migration is one that a put accepted.
OtherSet(as) ==
  {Other(op, a, "client") : op \in OtherOps \ MultiOps, a \in as}
  \cup {Other(op, [a EXCEPT !.keys = 2], "client") : op \in MultiOps, a \in as}
  \cup {Other("mupdate", [a EXCEPT !.keys = k, !.record = r], "migrate") :
          a \in {x \in as : KeyFits(x.key) /\ DataFits(x.val)}, k \in 1..2,
          r \in {"put", "remove"}}

Hashed == {Other(op, [Args EXCEPT !.hash = TRUE], "client") : op \in {"put", "lrpush_limit"}}

Servers == {[Server EXCEPT !.falls = TRUE, !.busy = TRUE], [Server EXCEPT !.working = FALSE],
            [Server EXCEPT !.slaves = 0, !.localmode = TRUE],
            [Server EXCEPT !.sync = TRUE, !.native = FALSE]}

Followers == {ApiCall("put", Args), ApiCall("get", Args)}

MCLoads ==
  {Load(s, <<c>>, FALSE) : s \in Servers, c \in CallSet({Args}) \cup OtherSet({Args})}
  \cup {Load(Server, <<c>>, FALSE) : c \in CallSet(SizedArgs \cup OddArgs)
                                          \cup OtherSet(SizedArgs \cup OddArgs)}
  \cup {Load([Server EXCEPT !.migrated = TRUE], <<c>>, FALSE) : c \in Hashed}
  \cup {Load([Server EXCEPT !.falls = TRUE], <<c, d>>, TRUE) :
          c \in CallSet({Args}), d \in Followers}

=============================================================================
